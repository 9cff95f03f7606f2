--------------------------- MODULE CallFleetProofs ---------------------------
(***************************************************************************)
(* Theorems about CallFleet, for any number of processes, calls and        *)
(* deliveries, any capacity and any combination of faults.                 *)
(***************************************************************************)
EXTENDS CallFleet, FiniteSetTheorems, TLAPS

\* The components of a handler, and the keys they form.
LEMMA HandlerFields ==
  ASSUME NEW h \in Handlers
  PROVE  /\ h[1] \in Runtimes /\ h[2] \in Calls /\ h[3] \in Deliveries
         /\ <<h[1], h[2]>> \in Runtimes \X Calls
         /\ <<h[1], h[3]>> \in Runtimes \X Deliveries
BY DEF Handlers

\* What a step of a handler does to its own variables.
LEMMA StepType ==
  ASSUME TypeOK, NEW h \in Handlers, NEW next \in HandlerPcs,
         NEW sel \in Runtimes \cup {NoOwner}, NEW reason \in EndReasons,
         Step(h, next, sel, reason)
  PROVE  /\ pc' \in [Handlers -> HandlerPcs]
         /\ choice' \in [Handlers -> Runtimes \cup {NoOwner}]
         /\ why' \in [Handlers -> EndReasons]
         /\ UNCHANGED <<cancelled, beat, mode, late, missing, stale, repairing>>
BY DEF Step, TypeOK, reconcilerVars, HandlerPcs

\* The row operators of voiceagent/calls give rows.
LEMMA RowTypes ==
  ASSUME NEW s \in CallSession
  PROVE  /\ CreateCallSession(s) \in CallSession
         /\ ClaimCallForActivation(s) \in CallSession
         /\ \A r \in Runtimes \cup {NoOwner} : ClaimRuntimeOwnership(s, r) \in CallSession
         /\ \A to \in VALID_STATUSES, reason \in EndReasons :
              Written(s, to, reason) \in CallSession
BY DEF CallSession, CreateCallSession, ClaimCallForActivation, ClaimRuntimeOwnership,
       Written, VALID_STATUSES

\* The initial state is well typed.
LEMMA InitType == Init => TypeOK
BY DEF Init, TypeOK, CallSession, NoRow, EndReasons, HandlerPcs, TaskPcs, NoBeat,
       Deliveries, VALID_STATUSES

\* A handler's step keeps every type.
LEMMA HandlerStepType ==
  ASSUME TypeOK, NEW h \in Handlers, Offer(h) \/ HandlerStep(h) \/ HandlerRaises(h)
  PROVE  TypeOK'
<1> USE HandlerFields, RowTypes, StepType
<1>0. /\ HandlerPcs = {"offered", "authorize", "assign", "claim", "mark", "marking",
            "fail", "failing", "heartbeats", "answer", "waiting", "start", "reject",
            "none", "done", "aborted"}
      /\ {"none", "authorization_denied", "no_capacity", "media_unavailable"}
           \subseteq EndReasons
      /\ {"answered", "failed"} \subseteq VALID_STATUSES
      /\ why[h] \in EndReasons
      /\ choice[h] \in Runtimes \cup {NoOwner}
      /\ row[h[2]] \in CallSession
  BY DEF HandlerPcs, LivePcs, DbPcs, EndReasons, VALID_STATUSES, TypeOK
<1>1. CASE Offer(h)
  BY <1>1, <1>0 DEF Offer, Goto, TypeOK
<1>2. CASE RefuseRoute(h)
  BY <1>2, <1>0 DEF RefuseRoute, Goto, TypeOK
<1>3. CASE CreateSession(h)
  BY <1>3, <1>0 DEF CreateSession, Goto, TypeOK
<1>4. CASE Authorize(h)
  BY <1>4, <1>0 DEF Authorize, Goto, GotoFail, TypeOK
<1>5. CASE ReadHeartbeats(h)
  BY <1>5, <1>0 DEF ReadHeartbeats, Selectable, GotoFail, TypeOK
<1>6. CASE Assign(h)
  <2>1. row' \in [Calls -> CallSession]
    <3>1. CASE MayOwn(row[h[2]], choice[h])
      <4>1. ClaimRuntimeOwnership(row[h[2]], choice[h]) \in CallSession
        BY <1>0
      <4>. HIDE RowTypes, StepType
      <4>. QED  BY <1>6, <3>1, <4>1 DEF Assign, TypeOK
    <3>2. CASE ~ MayOwn(row[h[2]], choice[h])
      BY <1>6, <3>2 DEF Assign, TypeOK
    <3>. QED  BY <3>1, <3>2
  <2>2. /\ \E p \in {"claim", "done"} : Goto(h, p)
        /\ UNCHANGED <<winners, task>>
    BY <1>6 DEF Assign
  <2>. HIDE RowTypes
  <2>. QED  BY <2>1, <2>2, <1>0 DEF Goto, TypeOK
<1>7. CASE Claim(h)
  <2>1. winners' \in [Calls -> SUBSET (Runtimes \X Deliveries)]
    <3>1. winners[h[2]] \cup {<<h[1], h[3]>>} \in SUBSET (Runtimes \X Deliveries)
      BY DEF TypeOK
    <3>. QED  BY <1>7, <3>1 DEF Claim, TypeOK
  <2>2. row' \in [Calls -> CallSession]
    BY <1>7, <1>0 DEF Claim, TypeOK
  <2>. QED  BY <1>7, <1>0, <2>1, <2>2 DEF Claim, Goto, TypeOK
<1>8. CASE Answer(h)
  BY <1>8, <1>0 DEF Answer, Goto, GotoFail, TypeOK
<1>9. CASE WaitForAnswered(h)
  BY <1>9, <1>0 DEF WaitForAnswered, Goto, GotoFail, TypeOK
<1>10. CASE MarkAnswered(h)
  BY <1>10, <1>0 DEF MarkAnswered, Goto, TypeOK
<1>11. CASE CommitAnswered(h)
  BY <1>11, <1>0 DEF CommitAnswered, Goto, TypeOK
<1>12. CASE StartCall(h)
  BY <1>12, <1>0 DEF StartCall, Goto, TypeOK, TaskPcs
<1>13. CASE FailCall(h)
  <2>1. /\ \E p \in {"failing", "reject", "aborted"} : Step(h, p, NoOwner, why[h])
        /\ UNCHANGED <<row, winners, task>>
    BY <1>13 DEF FailCall
  <2>. HIDE RowTypes
  <2>. QED  BY <2>1, <1>0 DEF TypeOK
<1>14. CASE CommitFailure(h)
  BY <1>14, <1>0 DEF CommitFailure, TypeOK
<1>15. CASE Reject(h)
  BY <1>15, <1>0 DEF Reject, Goto, TypeOK
<1>16. CASE HandlerRaises(h)
  BY <1>16, <1>0 DEF HandlerRaises, Goto, TypeOK
<1>. HIDE HandlerFields, RowTypes, StepType
<1>. QED
  BY <1>1, <1>2, <1>3, <1>4, <1>5, <1>6, <1>7, <1>8, <1>9, <1>10, <1>11, <1>12,
     <1>13, <1>14, <1>15, <1>16 DEF HandlerStep

\* The contract speaks of rows as the fleet does.
LEMMA SameWrites ==
  ASSUME NEW r, NEW c
  PROVE  /\ Hosted(r, c)!OwnerWrites = OwnerWrites /\ Hosted(r, c)!FinalWrites = FinalWrites
         /\ Hosted(r, c)!TaskWrites = TaskWrites
         /\ Hosted(r, c)!OutsideReasons = OutsideReasons
BY DEF Hosted!OwnerWrites, Hosted!FinalWrites, Hosted!TaskWrites, Hosted!OutsideReasons,
       OwnerWrites, FinalWrites, TaskWrites, OutsideReasons

LEMMA SameRows ==
  ASSUME NEW r, NEW c, NEW s, NEW w, NEW q
  PROVE  /\ Hosted(r, c)!IsTerminal(s) <=> IsTerminal(s)
         /\ Hosted(r, c)!WriteVerdict(s, w, q) = WriteVerdict(s, w, q)
         /\ Hosted(r, c)!WrittenBy(s, w) = WrittenBy(s, w)
         /\ Hosted(r, c)!WrittenOutside(s, w) = WrittenOutside(s, w)
<1>1. \A t, y : Hosted(r, c)!Written(s, t, y) = Written(s, t, y)
  BY DEF Hosted!Written, Written, Hosted!TERMINAL_STATUSES, TERMINAL_STATUSES
<1>2. Hosted(r, c)!IsTerminal(s) <=> IsTerminal(s)
  BY DEF Hosted!IsTerminal, IsTerminal, Hosted!TERMINAL_STATUSES, TERMINAL_STATUSES
<1>3. \A t, e : Hosted(r, c)!Verdict(s, t, e) = Verdict(s, t, e)
  BY DEF Hosted!Verdict, Verdict, Hosted!IsValidTransition, IsValidTransition,
         Hosted!Transitions, Transitions
<1>4. Hosted(r, c)!WriteStatus = WriteStatus /\ Hosted(r, c)!WriteReason = WriteReason
  BY DEF Hosted!WriteStatus, WriteStatus, Hosted!WriteReason, WriteReason
<1>5. Hosted(r, c)!WriteVerdict(s, w, q) = WriteVerdict(s, w, q)
  BY <1>3, <1>4, SameWrites DEF Hosted!WriteVerdict, WriteVerdict
<1>6. Hosted(r, c)!WrittenBy(s, w) = WrittenBy(s, w)
  BY <1>1, <1>4 DEF Hosted!WrittenBy, WrittenBy
<1>7. Hosted(r, c)!WrittenOutside(s, w) = WrittenOutside(s, w)
  BY <1>1 DEF Hosted!WrittenOutside, WrittenOutside
<1>. QED  BY <1>2, <1>5, <1>6, <1>7

\* Every write of a task but its progress ends the call.
LEMMA WriteFacts ==
  ASSUME NEW w \in TaskWrites
  PROVE  /\ WriteStatus[w] \in VALID_STATUSES \ {"initiated", "ringing", "answered"}
         /\ WriteReason[w] \in EndReasons
         /\ w # "progress" => WriteStatus[w] \in TERMINAL_STATUSES
         /\ w = "progress" => WriteStatus[w] = "in_progress"
BY DEF TaskWrites, OwnerWrites, FinalWrites, WriteStatus, WriteReason, VALID_STATUSES,
       TERMINAL_STATUSES, EndReasons

\* What a step of a task is to the rest of the fleet.
LEMMA OpenIsWrite ==
  ASSUME NEW r, NEW c, NEW phase
  PROVE  Hosted(r, c)!Open(phase) \subseteq TaskWrites
BY SameWrites DEF Hosted!Open, TaskWrites

LEMMA AbandonedType ==
  ASSUME NEW r, NEW c, NEW writes \in Hosted(r, c)!Abandoned
  PROVE  writes \subseteq TaskWrites \X BOOLEAN
<1>1. PICK t \in BOOLEAN, f \in BOOLEAN : t = TRUE /\ f = FALSE
  OBVIOUS
<1>2. CASE task[<<r, c>>] \in TaskWrites
  <2>1. writes = {<<task[<<r, c>>], t>>}
    BY <1>1, <1>2, SameWrites DEF Hosted!Abandoned
  <2>. QED  BY <1>2, <2>1
<1>3. CASE task[<<r, c>>] \notin TaskWrites
  <2>1. writes = {} \/ \E w \in Hosted(r, c)!Open(task[<<r, c>>]) : writes = {<<w, f>>}
    BY <1>1, <1>3, SameWrites DEF Hosted!Abandoned
  <2>. QED  BY <2>1, OpenIsWrite
<1>. QED  BY <1>2, <1>3

LEMMA TaskMoves ==
  ASSUME TypeOK, NEW r \in Runtimes, NEW c \in Calls, TaskStep(r, c)
  PROVE  /\ UNCHANGED <<beat, mode, pc, choice, why, cancelled, winners, missing, stale, repairing>>
         /\ task' \in [Runtimes \X Calls -> TaskPcs]
         /\ late' \in [Runtimes \X Calls -> SUBSET (TaskWrites \X BOOLEAN)]
         /\ \A k \in Runtimes \X Calls :
              k # <<r, c>> => task'[k] = task[k] /\ late'[k] = late[k]
         /\ IsHosted(r, c)
         /\ task'[<<r, c>>] # "none" => task[<<r, c>>] # "none"
         /\ UNCHANGED row \/ \E w \in TaskWrites : row' = [row EXCEPT ![c] = WrittenBy(@, w)]
<1> USE DEF handlerVars, reconcilerVars, TaskGoto, IsHosted
<1>0. /\ <<r, c>> \in Runtimes \X Calls
      /\ task \in [Runtimes \X Calls -> TaskPcs]
      /\ late \in [Runtimes \X Calls -> SUBSET (TaskWrites \X BOOLEAN)]
      /\ {"none", "starting", "talking", "ending"} \subseteq TaskPcs
      /\ TaskWrites \subseteq TaskPcs /\ "none" \notin TaskWrites /\ "interrupting" \in TaskWrites
      /\ OwnerWrites \subseteq TaskWrites
  BY DEF TypeOK, TaskPcs, TaskWrites, OwnerWrites, FinalWrites
<1>1. ASSUME NEW next \in TaskPcs, TaskGoto(<<r, c>>, next), task[<<r, c>>] # "none",
             UNCHANGED row, late'  \in [Runtimes \X Calls -> SUBSET (TaskWrites \X BOOLEAN)],
             \A k \in Runtimes \X Calls : k # <<r, c>> => late'[k] = late[k]
      PROVE  /\ UNCHANGED <<beat, mode, pc, choice, why, cancelled, winners, missing, stale,
                           repairing>>
             /\ task' \in [Runtimes \X Calls -> TaskPcs]
             /\ \A k \in Runtimes \X Calls : k # <<r, c>> => task'[k] = task[k]
  BY <1>0, <1>1
<1>2. CASE TaskDecides(r, c)
  <2>1. PICK next \in TaskPcs : TaskGoto(<<r, c>>, next)
    BY <1>0, <1>2, OpenIsWrite DEF TaskDecides
  <2>2. task[<<r, c>>] \in {"starting", "ending"}
    BY <1>2 DEF TaskDecides, Hosted!Open
  <2>. QED  BY <1>0, <1>1, <1>2, <2>1, <2>2 DEF TaskDecides
<1>3. CASE TaskCommits(r, c)
  BY <1>0, <1>3 DEF TaskCommits
<1>4. CASE TaskTearsDown(r, c)
  BY <1>0, <1>4 DEF TaskTearsDown
<1>5. CASE TaskDbFails(r, c)
  BY <1>0, <1>5 DEF TaskDbFails
<1>6. CASE TaskCancelled(r, c)
  <2>1. PICK writes \in Hosted(r, c)!Abandoned : late' = [late EXCEPT ![<<r, c>>] = @ \cup writes]
    BY <1>6 DEF TaskCancelled
  <2>2. writes \subseteq TaskWrites \X BOOLEAN
    BY <2>1, AbandonedType
  <2>. QED  BY <1>0, <1>6, <2>1, <2>2 DEF TaskCancelled
<1>7. ASSUME NEW w \in TaskWrites, LateReads(r, c, w) \/ LateCommits(r, c, w)
      PROVE  /\ UNCHANGED <<beat, mode, pc, choice, why, cancelled, winners, missing, stale,
                           repairing>>
             /\ UNCHANGED task
             /\ late' \in [Runtimes \X Calls -> SUBSET (TaskWrites \X BOOLEAN)]
             /\ \A k \in Runtimes \X Calls : k # <<r, c>> => late'[k] = late[k]
             /\ late[<<r, c>>] # {}
             /\ UNCHANGED row \/ row' = [row EXCEPT ![c] = WrittenBy(@, w)]
  <2>1. PICK t \in BOOLEAN, f \in BOOLEAN : t = TRUE /\ f = FALSE
    OBVIOUS
  <2>2. <<w, t>> \in TaskWrites \X BOOLEAN /\ <<w, f>> \in TaskWrites \X BOOLEAN
    OBVIOUS
  <2>3. CASE LateReads(r, c, w)
    <3>1. PICK kept \in {{}, {<<w, t>>}} :
            late' = [late EXCEPT ![<<r, c>>] = (@ \ {<<w, f>>}) \cup kept]
      BY <2>1, <2>3 DEF LateReads
    <3>2. /\ late' \in [Runtimes \X Calls -> SUBSET (TaskWrites \X BOOLEAN)]
          /\ \A k \in Runtimes \X Calls : k # <<r, c>> => late'[k] = late[k]
      BY <1>0, <2>2, <3>1
    <3>3. late[<<r, c>>] # {}
      BY <2>3 DEF LateReads
    <3>. QED  BY <2>3, <3>2, <3>3 DEF LateReads
  <2>4. CASE LateCommits(r, c, w)
    BY <1>0, <2>1, <2>2, <2>4 DEF LateCommits
  <2>. QED  BY <1>7, <2>3, <2>4
<1>. QED  BY <1>0, <1>2, <1>3, <1>4, <1>5, <1>6, <1>7 DEF TaskStep

\* So does a step of a started call's task,
LEMMA TaskStepType ==
  ASSUME TypeOK, NEW r \in Runtimes, NEW c \in Calls, TaskStep(r, c)
  PROVE  TypeOK'
<1>1. row' \in [Calls -> CallSession]
  <2>1. ASSUME NEW w \in TaskWrites, row' = [row EXCEPT ![c] = WrittenBy(@, w)]
        PROVE  row' \in [Calls -> CallSession]
    BY <2>1, WriteFacts, RowTypes DEF WrittenBy, TypeOK
  <2>. QED  BY <2>1, TaskMoves DEF TypeOK
<1>. QED  BY <1>1, TaskMoves DEF TypeOK

\* a step of the reconciler,
LEMMA ReconcileType ==
  ASSUME TypeOK, ReconcileNext
  PROVE  TypeOK'
<1>1. CASE ReconcileReadHeartbeats
  BY <1>1 DEF ReconcileReadHeartbeats, TypeOK, handlerVars
<1>2. CASE ReconcileList
  BY <1>2 DEF ReconcileList, TypeOK, handlerVars
<1>3. ASSUME NEW c \in Calls, ReconcileRead(c)
      PROVE  TypeOK'
  BY <1>3 DEF ReconcileRead, TypeOK, handlerVars
<1>4. ASSUME NEW c \in Calls, ReconcileCommit(c)
      PROVE  TypeOK'
  BY <1>4, RowTypes
     DEF ReconcileCommit, TypeOK, handlerVars, VALID_STATUSES, EndReasons
<1>. QED  BY <1>1, <1>2, <1>3, <1>4 DEF ReconcileNext

\* and a step in the life of a process.
LEMMA RuntimeType ==
  ASSUME TypeOK, RuntimeNext
  PROVE  TypeOK'
<1> SUFFICES ASSUME NEW r \in Runtimes,
                    \/ WriteHeartbeat(r) \/ HeartbeatExpires(r)
                    \/ Drain(r) \/ StopRuntime(r) \/ Exit(r) \/ Crash(r)
             PROVE  TypeOK'
  BY DEF RuntimeNext
<1> USE DEF handlerVars, reconcilerVars
<1>0. {"aborted", "none"} \subseteq HandlerPcs /\ "none" \in TaskPcs 
  BY DEF HandlerPcs, TaskPcs
<1>1. CASE WriteHeartbeat(r)
  <2>1. Load(r) \in Nat
    <3>1. IsFiniteSet({d \in Calls : task[<<r, d>>] # "none"})
      BY FleetAssumption, FS_Subset
    <3>. QED  BY <3>1, FS_CardinalityType DEF Load
  <2>. QED  BY <1>1, <2>1 DEF WriteHeartbeat, TypeOK
<1>2. CASE HeartbeatExpires(r)
  BY <1>2, <1>0 DEF HeartbeatExpires, TypeOK
<1>3. CASE Drain(r)
  BY <1>3, <1>0 DEF Drain, TypeOK
<1>4. CASE StopRuntime(r)
  BY <1>4 DEF StopRuntime, TypeOK
<1>5. ASSUME Ended(r), beat' \in [Runtimes -> Nat \cup {NoBeat}]
      PROVE  TypeOK'
  BY <1>5, <1>0 DEF Ended, TypeOK
<1>6. CASE Exit(r)
  BY <1>6, <1>5, <1>0 DEF Exit, TypeOK
<1>7. CASE Crash(r)
  BY <1>7, <1>5 DEF Crash, TypeOK
<1>. QED  BY <1>1, <1>2, <1>3, <1>4, <1>6, <1>7

\* Hence TypeOK is inductive on its own.
LEMMA TypeInductive == TypeOK /\ [Next]_vars => TypeOK'
<1> SUFFICES ASSUME TypeOK, [Next]_vars PROVE TypeOK'
  OBVIOUS
<1>1. CASE HandlerNext
  BY <1>1, HandlerStepType DEF HandlerNext
<1>2. CASE TaskNext
  BY <1>2, TaskStepType DEF TaskNext
<1>3. CASE ReconcileNext
  BY <1>3, ReconcileType
<1>4. CASE RuntimeNext
  BY <1>4, RuntimeType
<1>5. CASE UNCHANGED vars
  BY <1>5 DEF vars, handlerVars, reconcilerVars, TypeOK
<1>. QED  BY <1>1, <1>2, <1>3, <1>4, <1>5 DEF Next

\* Every variable keeps its type, whatever the processes and the faults do.
THEOREM TypeCorrect == Spec => []TypeOK
<1>. QED  BY InitType, TypeInductive, PTL DEF Spec

-----------------------------------------------------------------------------
(* Exclusive ownership                                                      *)

\* What the transitions of calls/service.py may do to a row: the owner stays, and
\* the row does not become initiated.
LEMMA WrittenRow ==
  ASSUME NEW s \in CallSession, NEW to \in VALID_STATUSES, NEW reason \in EndReasons
  PROVE  Written(s, to, reason).owner = s.owner /\ Written(s, to, reason).status = to
BY DEF Written, CallSession

\* The two locked claims write one column each.
LEMMA ClaimedRow ==
  ASSUME NEW s \in CallSession, NEW r
  PROVE  /\ ClaimRuntimeOwnership(s, r).owner = r
         /\ ClaimRuntimeOwnership(s, r).status = s.status
         /\ ClaimCallForActivation(s).owner = s.owner
         /\ ClaimCallForActivation(s).status = "ringing"
BY DEF ClaimRuntimeOwnership, ClaimCallForActivation, CallSession

\* A step that only moves a handler, and not into the part of its life that the
\* invariant speaks of, keeps the invariant.
LEMMA QuietHandlerStep ==
  ASSUME OwnershipInvariant, TypeOK', NEW h \in Handlers, NEW next,
         NEW sel, NEW reason, Step(h, next, sel, reason),
         next # ClaimingPc,
         next \in ActivePcs => pc[h] \in ActivePcs,
         UNCHANGED <<row, winners>>, HostsWon'
  PROVE  OwnershipInvariant'
<1>1. \A g \in Handlers : pc'[g] = ClaimingPc => pc[g] = ClaimingPc
  BY DEF Step, OwnershipInvariant, TypeOK, ClaimingPc
<1>2. \A g \in Handlers : pc'[g] \in ActivePcs => pc[g] \in ActivePcs
  BY DEF Step, OwnershipInvariant, TypeOK, ActivePcs
<1>. QED
  BY <1>1, <1>2
     DEF OwnershipInvariant, ClaimersOwn, ActiveHandlersWon, ClaimIsSpent, OneWinner,
         ActiveRowWasClaimed

\* So does any write of transition_call_session, by whomever and however late, if
\* only the winner writes the statuses of an active call.
LEMMA TransitionWrite ==
  ASSUME OwnershipInvariant, TypeOK', NEW c \in Calls,
         NEW to \in VALID_STATUSES \ {"initiated"}, NEW reason \in EndReasons,
         to \in TERMINAL_STATUSES \/ winners[c] # {},
         row' = [row EXCEPT ![c] = Written(@, to, reason)],
         \A g \in Handlers : pc'[g] = ClaimingPc => pc[g] = ClaimingPc,
         \A g \in Handlers : pc'[g] \in ActivePcs => pc[g] \in ActivePcs,
         HostsWon', UNCHANGED winners
  PROVE  OwnershipInvariant'
<1>1. /\ \A d \in Calls : row'[d].owner = row[d].owner
      /\ row'[c].status = to
      /\ \A d \in Calls \ {c} : row'[d] = row[d]
  BY WrittenRow DEF OwnershipInvariant, TypeOK
<1>2. ClaimersOwn' /\ ActiveHandlersWon'
  BY <1>1, HandlerFields DEF OwnershipInvariant, ClaimersOwn, ActiveHandlersWon
<1>3. ClaimIsSpent'
  BY <1>1 DEF OwnershipInvariant, ClaimIsSpent, VALID_STATUSES
<1>4. OneWinner'
  BY <1>1 DEF OwnershipInvariant, OneWinner
<1>5. ActiveRowWasClaimed'
  BY <1>1 DEF OwnershipInvariant, ActiveRowWasClaimed, TERMINAL_STATUSES
<1>. QED  BY <1>2, <1>3, <1>4, <1>5 DEF OwnershipInvariant

\* A task has been handed over by a handler that is done with the call.
LEMMA HostedByWinner ==
  ASSUME OwnershipInvariant, NEW r \in Runtimes, NEW c \in Calls, IsHosted(r, c)
  PROVE  \E n \in Deliveries :
           /\ <<r, c, n>> \in Handlers /\ <<r, n>> \in winners[c]
           /\ pc[<<r, c, n>>] \in {"done", "aborted"}
BY DEF OwnershipInvariant, HostsWon, Handlers

LEMMA HandlerKeepsHosts ==
  ASSUME OwnershipInvariant, NEW h \in Handlers, Offer(h) \/ HandlerStep(h) \/ HandlerRaises(h)
  PROVE  HostsWon'
<1> USE HandlerFields
<1>0. /\ pc \in [Handlers -> HandlerPcs] /\ task \in [Runtimes \X Calls -> TaskPcs]
      /\ winners \in [Calls -> SUBSET (Runtimes \X Deliveries)]
  BY DEF OwnershipInvariant, TypeOK
<1>1. PICK next, sel, reason : Step(h, next, sel, reason)
  BY DEF HandlerStep, Offer, RefuseRoute, CreateSession, Authorize, ReadHeartbeats, Assign,
         Claim, Answer, WaitForAnswered, MarkAnswered, CommitAnswered, StartCall, FailCall,
         CommitFailure, Reject, HandlerRaises, Goto, GotoFail
<1>2. pc[h] \notin {"done", "aborted"}
  BY DEF HandlerStep, Offer, RefuseRoute, CreateSession, Authorize, ReadHeartbeats, Assign,
         Claim, Answer, WaitForAnswered, MarkAnswered, CommitAnswered, StartCall, FailCall,
         CommitFailure, Reject, HandlerRaises, Live, LivePcs, DbPcs
<1>3. UNCHANGED late /\ \A g \in Handlers : g # h => pc'[g] = pc[g]
  BY <1>0, <1>1 DEF Step
<1>4. \A c \in Calls : winners[c] \subseteq winners'[c]
  BY <1>0 DEF HandlerStep, Offer, RefuseRoute, CreateSession, Authorize, ReadHeartbeats, Assign,
         Claim, Answer, WaitForAnswered, MarkAnswered, CommitAnswered, StartCall, FailCall,
         CommitFailure, Reject, HandlerRaises
<1>5. ASSUME NEW r \in Runtimes, NEW c \in Calls, IsHosted(r, c)
      PROVE  \E n \in Deliveries :
               <<r, n>> \in winners'[c] /\ pc'[<<r, c, n>>] \in {"done", "aborted"}
  <2>1. PICK n \in Deliveries : /\ <<r, c, n>> \in Handlers /\ <<r, n>> \in winners[c]
                               /\ pc[<<r, c, n>>] \in {"done", "aborted"}
    BY <1>5, HostedByWinner
  <2>2. <<r, c, n>> # h
    BY <1>2, <2>1
  <2>3. pc'[<<r, c, n>>] = pc[<<r, c, n>>]
    BY <1>3, <2>1, <2>2
  <2>. QED  BY <1>4, <2>1, <2>3
<1>6. CASE ~ StartCall(h)
  <2>1. UNCHANGED task
    BY <1>6 DEF HandlerStep, Offer, RefuseRoute, CreateSession, Authorize, ReadHeartbeats,
           Assign, Claim, Answer, WaitForAnswered, MarkAnswered, CommitAnswered, FailCall,
           CommitFailure, Reject, HandlerRaises
  <2>2. \A r \in Runtimes, c \in Calls : IsHosted(r, c)' => IsHosted(r, c)
    BY <1>3, <2>1 DEF IsHosted
  <2>. QED  BY <1>5, <2>2 DEF HostsWon
<1>7. CASE StartCall(h)
  <2>1. <<h[1], h[3]>> \in winners[h[2]]
    BY <1>7 DEF StartCall, OwnershipInvariant, ActiveHandlersWon, ActivePcs
  <2>2. pc'[h] \in {"done", "aborted"}
    BY <1>0, <1>7 DEF StartCall, Goto, Step
  <2>3. h = <<h[1], h[2], h[3]>>
    BY DEF Handlers
  <2>4. \A r \in Runtimes, c \in Calls :
          IsHosted(r, c)' => IsHosted(r, c) \/ (r = h[1] /\ c = h[2])
    BY <1>0, <1>3, <1>7 DEF StartCall, IsHosted
  <2>. QED  BY <1>4, <1>5, <2>1, <2>2, <2>3, <2>4 DEF HostsWon
<1>. QED  BY <1>6, <1>7

\* Every step of _handle_offer keeps the ownership invariant: a claim of the row needs
\* a free owner or the same one, and a claim of the activation an initiated row.
LEMMA HandlerKeepsOwnership ==
  ASSUME OwnershipInvariant, TypeOK', NEW h \in Handlers,
         Offer(h) \/ HandlerStep(h) \/ HandlerRaises(h)
  PROVE  OwnershipInvariant'
<1> USE HandlerFields
<1>0. /\ OwnershipInvariant => TypeOK
      /\ row[h[2]] \in CallSession /\ why[h] \in EndReasons
      /\ {"answered", "failed"} \subseteq VALID_STATUSES \ {"initiated"}
      /\ "failed" \in TERMINAL_STATUSES /\ "none" \in EndReasons
  BY DEF OwnershipInvariant, TypeOK, VALID_STATUSES, TERMINAL_STATUSES, EndReasons
<1>h. HostsWon'
  BY HandlerKeepsHosts
<1>1. CASE Offer(h)
  BY <1>1, <1>h, QuietHandlerStep DEF Offer, Goto, ClaimingPc, ActivePcs
<1>2. CASE RefuseRoute(h)
  BY <1>2, <1>h, QuietHandlerStep DEF RefuseRoute, Goto, ClaimingPc, ActivePcs
<1>3. CASE CreateSession(h)
  <2>1. /\ \A c \in Calls : row'[c].owner = row[c].owner
        /\ \A c \in Calls : row'[c] = row[c] \/ (row[c] = NoRow /\ row'[c].status = "initiated")
    BY <1>3, <1>0 DEF CreateSession, CreateCallSession, OwnershipInvariant, TypeOK, NoRow,
                      CallSession
  <2>2. \A g \in Handlers : /\ pc'[g] = ClaimingPc => pc[g] = ClaimingPc
                            /\ pc'[g] \in ActivePcs => pc[g] \in ActivePcs
    BY <1>3, <1>0 DEF CreateSession, Goto, Step, ClaimingPc, ActivePcs, TypeOK,
                      OwnershipInvariant
  <2>3. UNCHANGED <<winners, task>>
    BY <1>3 DEF CreateSession
  <2>4. ClaimersOwn' /\ ActiveHandlersWon'
    BY <2>1, <2>2, <2>3 DEF OwnershipInvariant, ClaimersOwn, ActiveHandlersWon
  <2>5. ClaimIsSpent'
    BY <2>1, <2>3 DEF OwnershipInvariant, ClaimIsSpent, NoRow
  <2>6. OneWinner'
    BY <2>1, <2>3 DEF OwnershipInvariant, OneWinner
  <2>7. ActiveRowWasClaimed'
    BY <2>1, <2>3 DEF OwnershipInvariant, ActiveRowWasClaimed
  <2>. QED  BY <1>h, <2>4, <2>5, <2>6, <2>7 DEF OwnershipInvariant
<1>4. CASE Authorize(h)
  BY <1>4, <1>h, QuietHandlerStep DEF Authorize, Goto, GotoFail, ClaimingPc, ActivePcs
<1>5. CASE ReadHeartbeats(h)
  BY <1>5, <1>h, QuietHandlerStep DEF ReadHeartbeats, GotoFail, ClaimingPc, ActivePcs
<1>6. CASE Assign(h)
  <2>1. CASE ~ MayOwn(row[h[2]], choice[h])
    BY <1>6, <2>1, <1>h, QuietHandlerStep DEF Assign, Goto, ClaimingPc, ActivePcs
  <2>2. CASE MayOwn(row[h[2]], choice[h])
    <3>1. /\ \A c \in Calls : row'[c].status = row[c].status
          /\ \A c \in Calls : row'[c].owner = row[c].owner
                              \/ (row[c].owner = NoOwner /\ c = h[2])
          /\ row'[h[2]].owner = choice[h]
      <4>1. /\ row' = [row EXCEPT ![h[2]] = ClaimRuntimeOwnership(@, choice[h])]
            /\ row \in [Calls -> CallSession]
            /\ row[h[2]].owner \in {NoOwner, choice[h]}
        BY <1>6, <2>2, <1>0 DEF Assign, MayOwn, TypeOK
      <4> DEFINE new == ClaimRuntimeOwnership(row[h[2]], choice[h])
      <4>2. new.owner = choice[h] /\ new.status = row[h[2]].status
        BY <1>0, ClaimedRow
      <4> HIDE DEF new
      <4>3. row'[h[2]] = new /\ \A c \in Calls \ {h[2]} : row'[c] = row[c]
        BY <4>1 DEF new
      <4>. QED  BY <4>1, <4>2, <4>3
    <3>2. \A g \in Handlers :
            /\ pc'[g] = ClaimingPc => pc[g] = ClaimingPc \/ (g = h /\ choice[h] = h[1])
            /\ pc'[g] \in ActivePcs => pc[g] \in ActivePcs
      BY <1>6, <2>2, <1>0 DEF Assign, Goto, Step, ClaimingPc, ActivePcs, TypeOK,
                              OwnershipInvariant
    <3>3. UNCHANGED <<winners, task>>
      BY <1>6 DEF Assign
    <3>4. ClaimersOwn'
      <4>1. \A g \in Handlers : pc[g] = ClaimingPc => row[g[2]].owner = g[1] /\ g[1] # NoOwner
        BY OwnerAssumption, HandlerFields DEF OwnershipInvariant, ClaimersOwn
      <4>. QED  BY <3>1, <3>2, <4>1 DEF ClaimersOwn
    <3>5. ActiveHandlersWon' /\ ClaimIsSpent' /\ ActiveRowWasClaimed'
      BY <3>1, <3>2, <3>3
         DEF OwnershipInvariant, ActiveHandlersWon, ClaimIsSpent, ActiveRowWasClaimed
    <3>6. OneWinner'
      <4> SUFFICES ASSUME NEW c \in Calls, NEW w \in winners[c]
                   PROVE  winners[c] = {w} /\ w[1] = row'[c].owner
        BY <3>3 DEF OneWinner
      <4>1. w[1] \in Runtimes /\ winners[c] = {w} /\ w[1] = row[c].owner
        <5>1. w \in Runtimes \X Deliveries
          BY DEF OwnershipInvariant, TypeOK
        <5>. QED  BY <5>1 DEF OwnershipInvariant, OneWinner
      <4>2. row[c].owner # NoOwner
        BY <4>1, OwnerAssumption
      <4>3. row'[c].owner = row[c].owner
        BY <3>1, <4>2
      <4>. QED  BY <4>1, <4>3
    <3>. QED  BY <1>h, <3>4, <3>5, <3>6 DEF OwnershipInvariant
  <2>. QED  BY <2>1, <2>2
<1>7. CASE Claim(h)
  <2>1. CASE ~ MayActivate(row[h[2]])
    BY <1>7, <2>1, <1>h, QuietHandlerStep DEF Claim, Goto, ClaimingPc, ActivePcs
  <2>2. CASE MayActivate(row[h[2]])
    <3>1. /\ row[h[2]].owner = h[1]
          /\ winners[h[2]] = {}
          /\ winners' = [winners EXCEPT ![h[2]] = {<<h[1], h[3]>>}]
          /\ UNCHANGED task
      BY <1>7, <2>2 DEF Claim, MayActivate, OwnershipInvariant, ClaimersOwn, ClaimIsSpent,
                        ClaimingPc
    <3>2. /\ \A c \in Calls : row'[c].owner = row[c].owner
          /\ \A c \in Calls \ {h[2]} : row'[c] = row[c]
          /\ row'[h[2]].status = "ringing"
      <4>1. /\ row' = [row EXCEPT ![h[2]] = ClaimCallForActivation(@)]
            /\ row \in [Calls -> CallSession]
        BY <1>7, <2>2, <1>0 DEF Claim, TypeOK
      <4>. QED  BY <4>1, <1>0, ClaimedRow
    <3>3. \A g \in Handlers :
            /\ pc'[g] = ClaimingPc => pc[g] = ClaimingPc
            /\ pc'[g] \in ActivePcs => pc[g] \in ActivePcs \/ g = h
      BY <1>7, <2>2, <1>0 DEF Claim, Goto, Step, ClaimingPc, ActivePcs, TypeOK,
                              OwnershipInvariant
    <3>4. /\ winners'[h[2]] = {<<h[1], h[3]>>}
          /\ \A c \in Calls \ {h[2]} : winners'[c] = winners[c]
      BY <3>1 DEF OwnershipInvariant, TypeOK
    <3>5. ClaimersOwn' /\ ClaimIsSpent'
      BY <3>2, <3>3, <3>4 DEF OwnershipInvariant, ClaimersOwn, ClaimIsSpent
    <3>6. ActiveHandlersWon'
      <4> SUFFICES ASSUME NEW g \in Handlers, pc'[g] \in ActivePcs
                   PROVE  <<g[1], g[3]>> \in winners'[g[2]]
        BY DEF ActiveHandlersWon
      <4>1. CASE g = h
        BY <4>1, <3>4
      <4>2. CASE g # h
        <5>1. <<g[1], g[3]>> \in winners[g[2]] /\ g[2] \in Calls
          BY <3>3, <4>2 DEF OwnershipInvariant, ActiveHandlersWon
        <5>2. g[2] # h[2]
          BY <5>1, <3>1
        <5>. QED  BY <5>1, <5>2, <3>4
      <4>. QED  BY <4>1, <4>2
    <3>7. OneWinner'
      BY <3>1, <3>2, <3>4 DEF OwnershipInvariant, OneWinner
    <3>8. ActiveRowWasClaimed'
      BY <3>2, <3>4 DEF OwnershipInvariant, ActiveRowWasClaimed
    <3>. QED  BY <1>h, <3>5, <3>6, <3>7, <3>8 DEF OwnershipInvariant
  <2>. QED  BY <2>1, <2>2
<1>8. CASE Answer(h)
  BY <1>8, <1>h, QuietHandlerStep DEF Answer, Goto, GotoFail, ClaimingPc, ActivePcs
<1>9. CASE WaitForAnswered(h)
  BY <1>9, <1>h, QuietHandlerStep DEF WaitForAnswered, Goto, GotoFail, ClaimingPc, ActivePcs
<1>10. CASE MarkAnswered(h)
  BY <1>10, <1>h, QuietHandlerStep DEF MarkAnswered, Goto, ClaimingPc, ActivePcs
<1>11. CASE CommitAnswered(h)
  <2>1. winners[h[2]] # {}
    BY <1>11 DEF CommitAnswered, OwnershipInvariant, ActiveHandlersWon, ActivePcs
  <2>2. \A g \in Handlers : /\ pc'[g] = ClaimingPc => pc[g] = ClaimingPc
                            /\ pc'[g] \in ActivePcs => pc[g] \in ActivePcs
    BY <1>11, <1>0 DEF CommitAnswered, Goto, Step, ClaimingPc, ActivePcs, TypeOK
  <2>. QED  BY <1>11, <1>0, <1>h, <2>1, <2>2, TransitionWrite DEF CommitAnswered
<1>12. CASE StartCall(h)
  BY <1>12, <1>h, QuietHandlerStep DEF StartCall, Goto, ClaimingPc, ActivePcs
<1>13. CASE FailCall(h)
  BY <1>13, <1>h, QuietHandlerStep DEF FailCall, ClaimingPc, ActivePcs
<1>14. CASE CommitFailure(h)
  <2>1. \A g \in Handlers : /\ pc'[g] = ClaimingPc => pc[g] = ClaimingPc
                            /\ pc'[g] \in ActivePcs => pc[g] \in ActivePcs
    BY <1>14, <1>0 DEF CommitFailure, Step, ClaimingPc, ActivePcs, TypeOK
  <2>. QED  BY <1>14, <1>0, <1>h, <2>1, TransitionWrite DEF CommitFailure
<1>15. CASE Reject(h)
  BY <1>15, <1>h, QuietHandlerStep DEF Reject, Goto, ClaimingPc, ActivePcs
<1>16. CASE HandlerRaises(h)
  BY <1>16, <1>h, QuietHandlerStep DEF HandlerRaises, Goto, ClaimingPc, ActivePcs
<1>. QED
  BY <1>1, <1>2, <1>3, <1>4, <1>5, <1>6, <1>7, <1>8, <1>9, <1>10, <1>11, <1>12,
     <1>13, <1>14, <1>15, <1>16 DEF HandlerStep

\* So does every step of a task and of its threads, whose call was won before,
LEMMA TaskKeepsOwnership ==
  ASSUME OwnershipInvariant, TypeOK', NEW r \in Runtimes, NEW c \in Calls, TaskStep(r, c)
  PROVE  OwnershipInvariant'
<1>0. TypeOK
  BY DEF OwnershipInvariant
<1>1. PICK n \in Deliveries :
        <<r, n>> \in winners[c] /\ pc[<<r, c, n>>] \in {"done", "aborted"}
  BY <1>0, TaskMoves, HostedByWinner
<1>2. UNCHANGED <<pc, winners>>
  BY <1>0, TaskMoves
<1>3. HostsWon'
  <2>1. \A q \in Runtimes, d \in Calls : IsHosted(q, d)' => IsHosted(q, d) \/ (q = r /\ d = c)
    <3>1. \A q \in Runtimes, d \in Calls :
            <<q, d>> \in Runtimes \X Calls /\ (<<q, d>> = <<r, c>> => q = r /\ d = c)
      OBVIOUS
    <3>. QED  BY <1>0, <3>1, TaskMoves DEF IsHosted
  <2>. QED  BY <1>1, <1>2, <2>1 DEF OwnershipInvariant, HostsWon
<1>4. CASE UNCHANGED row
  BY <1>2, <1>3, <1>4
     DEF OwnershipInvariant, ClaimersOwn, ActiveHandlersWon, ClaimIsSpent, OneWinner,
         ActiveRowWasClaimed
<1>5. ASSUME NEW w \in TaskWrites, row' = [row EXCEPT ![c] = WrittenBy(@, w)]
      PROVE  OwnershipInvariant'
  <2>1. PICK to \in VALID_STATUSES \ {"initiated"}, reason \in EndReasons :
          row' = [row EXCEPT ![c] = Written(@, to, reason)]
    BY <1>5, WriteFacts DEF WrittenBy
  <2>. QED  BY <1>1, <1>2, <1>3, <2>1, TransitionWrite
<1>. QED  BY <1>0, <1>4, <1>5, TaskMoves

\* and every step of the reconciler, of a process and of time.
LEMMA OthersKeepOwnership ==
  ASSUME OwnershipInvariant, TypeOK', ReconcileNext \/ RuntimeNext \/ UNCHANGED vars
  PROVE  OwnershipInvariant'
<1>0. OwnershipInvariant => TypeOK
  BY DEF OwnershipInvariant
<1>1. ASSUME UNCHANGED <<row, winners>>,
             \A g \in Handlers : pc'[g] = pc[g] \/ (Live(g) /\ pc'[g] = "aborted"),
             \A k \in Runtimes \X Calls : /\ task'[k] # "none" => task'[k] = task[k]
                                          /\ late'[k] # {} => late'[k] = late[k]
      PROVE  OwnershipInvariant'
  <2>1. \A g \in Handlers : pc'[g] \in ActivePcs \cup {ClaimingPc} => pc'[g] = pc[g]
    BY <1>1 DEF ActivePcs, ClaimingPc
  <2>2. HostsWon'
    <3>1. ASSUME NEW r \in Runtimes, NEW c \in Calls, IsHosted(r, c)' PROVE IsHosted(r, c)
      BY <1>1, <3>1 DEF IsHosted
    <3>2. \A g \in Handlers : pc[g] \in {"done", "aborted"} => pc'[g] \in {"done", "aborted"}
      BY <1>1
    <3>. QED  BY <1>1, <3>1, <3>2, HostedByWinner DEF HostsWon
  <2>. QED
    BY <1>1, <2>1, <2>2
       DEF OwnershipInvariant, ClaimersOwn, ActiveHandlersWon, ClaimIsSpent, OneWinner,
           ActiveRowWasClaimed
<1>2. ASSUME UNCHANGED <<row, pc, winners, task, late>> PROVE OwnershipInvariant'
  BY <1>1, <1>2
<1>3. ASSUME NEW c \in Calls, ReconcileCommit(c) PROVE OwnershipInvariant'
  <2>1. /\ "interrupted" \in VALID_STATUSES \ {"initiated"}
        /\ "interrupted" \in TERMINAL_STATUSES /\ "runtime_crashed" \in EndReasons
    BY DEF VALID_STATUSES, TERMINAL_STATUSES, EndReasons
  <2>2. HostsWon'
    BY <1>3 DEF ReconcileCommit, handlerVars, OwnershipInvariant, HostsWon, IsHosted
  <2>. QED  BY <1>0, <1>3, <2>1, <2>2, TransitionWrite DEF ReconcileCommit, handlerVars
<1>4. CASE ReconcileNext
  BY <1>4, <1>2, <1>3
     DEF ReconcileNext, ReconcileReadHeartbeats, ReconcileList, ReconcileRead, handlerVars
<1>5. ASSUME NEW r \in Runtimes, Ended(r), UNCHANGED row PROVE OwnershipInvariant'
  <2>1. \A k \in Runtimes \X Calls : /\ task'[k] # "none" => task'[k] = task[k]
                                    /\ late'[k] # {} => late'[k] = late[k]
    BY <1>5 DEF Ended
  <2>. QED  BY <1>1, <1>5, <2>1 DEF Ended
<1>6. ASSUME NEW r \in Runtimes, Drain(r) PROVE OwnershipInvariant'
  BY <1>1, <1>6 DEF Drain
<1>7. CASE RuntimeNext
  BY <1>7, <1>2, <1>5, <1>6
     DEF RuntimeNext, WriteHeartbeat, HeartbeatExpires, StopRuntime, Exit, Crash, Ended,
         handlerVars
<1>8. CASE UNCHANGED vars
  BY <1>8, <1>2 DEF vars
<1>. QED  BY <1>4, <1>7, <1>8

\* The ownership invariant is inductive.
LEMMA OwnershipInductive == OwnershipInvariant /\ [Next]_vars => OwnershipInvariant'
<1> SUFFICES ASSUME OwnershipInvariant, [Next]_vars PROVE OwnershipInvariant'
  OBVIOUS
<1>1. TypeOK'
  BY TypeInductive DEF OwnershipInvariant
<1>. QED
  BY <1>1, HandlerKeepsOwnership, TaskKeepsOwnership, OthersKeepOwnership
     DEF Next, HandlerNext, TaskNext

\* It holds before the first offer: nothing is owned, claimed or hosted.
LEMMA InitOwnership == Init => OwnershipInvariant
BY InitType
   DEF Init, OwnershipInvariant, ClaimersOwn, ActiveHandlersWon, ClaimIsSpent, OneWinner,
       HostsWon, IsHosted, ActiveRowWasClaimed, ClaimingPc, ActivePcs, NoRow

\* The invariant behind exclusive ownership holds of every behaviour.
THEOREM OwnershipHolds == Spec => []OwnershipInvariant
<1>. QED  BY InitOwnership, OwnershipInductive, PTL DEF Spec

\* ADR-0008 point 10, hosting: no two processes run a task for the same call, and the
\* one that does is the owner recorded in the row.
THEOREM ExclusiveTaskHolds == Spec => []ExclusiveTask
<1>1. OwnershipInvariant => ExclusiveTask
  <2> SUFFICES ASSUME OwnershipInvariant, NEW r \in Runtimes, NEW c \in Calls,
                      task[<<r, c>>] # "none"
               PROVE  row[c].owner = r /\ \E n \in Deliveries : winners[c] = {<<r, n>>}
    BY DEF ExclusiveTask
  <2>1. PICK n \in Deliveries : <<r, n>> \in winners[c]
    BY DEF OwnershipInvariant, HostsWon, IsHosted
  <2>2. winners[c] = {<<r, n>>} /\ <<r, n>>[1] = row[c].owner
    BY <2>1 DEF OwnershipInvariant, OneWinner
  <2>. QED  BY <2>2
<1>. QED  BY <1>1, OwnershipHolds, PTL

\* No write of another process makes a row look active that nobody claimed.
THEOREM ActiveRowWasClaimedHolds == Spec => []ActiveRowWasClaimed
<1>1. OwnershipInvariant => ActiveRowWasClaimed
  BY DEF OwnershipInvariant
<1>. QED  BY <1>1, OwnershipHolds, PTL

-----------------------------------------------------------------------------
(* Calls that are not left                                                  *)

Won(h) == <<h[1], h[3]>> \in winners[h[2]]
Serves(r) == mode[r] \in {"up", "draining"}
PastClaim == ActivePcs \cup {"fail", "failing", "reject", "done", "aborted"}
Over(h) == pc[h] = "reject" \/ (pc[h] = "done" /\ task[<<h[1], h[2]>>] = "none")

\* Only in a process that is stopping does a write outlive its task.
LateOnesStop == \A k \in Runtimes \X Calls : late[k] # {} => mode[k[1]] = "stopping"

\* The handler that won the activation is past it for good, and hands the call to its task
\* as the last thing it does.  Once both are over, the row is terminal: nobody else writes
\* another status, but for the thread of a task that a shutdown cancelled.
LeftInvariant ==
  /\ LateOnesStop
  /\ \A h \in Handlers : Won(h) =>
       /\ pc[h] \in PastClaim
       /\ task[<<h[1], h[2]>>] # "none" => pc[h] \in {"done", "aborted"}
       /\ Serves(h[1]) /\ Over(h) => IsTerminal(row[h[2]])

\* A handler that moves on keeps the invariant, if it only ends on a terminal row and, should
\* it write a row, spoils it for nobody.
LEMMA MoveKeepsLeft ==
  ASSUME OwnershipInvariant, LeftInvariant, NEW h \in Handlers,
         NEW next, NEW sel, NEW reason, Step(h, next, sel, reason),
         pc[h] \notin {"done", "aborted"}, UNCHANGED <<winners, task>>,
         Won(h) => next \in PastClaim,
         Won(h) /\ Serves(h[1]) /\ next \in {"reject", "done"} => IsTerminal(row'[h[2]]),
         \A g \in Handlers : g # h /\ Won(g) /\ IsTerminal(row[g[2]]) => IsTerminal(row'[g[2]])
  PROVE  LeftInvariant'
<1>1. PICK p \in {next, "aborted"} : pc' = [pc EXCEPT ![h] = p]
  BY DEF Step
<1>2. UNCHANGED <<mode, late>> /\ pc \in [Handlers -> HandlerPcs]
  BY DEF Step, OwnershipInvariant, TypeOK
<1>3. LateOnesStop'
  BY <1>2 DEF LeftInvariant, LateOnesStop
<1>4. ASSUME NEW g \in Handlers, Won(g)'
      PROVE  /\ pc'[g] \in PastClaim
             /\ task'[<<g[1], g[2]>>] # "none" => pc'[g] \in {"done", "aborted"}
             /\ Serves(g[1])' /\ Over(g)' => IsTerminal(row'[g[2]])
  <2>1. Won(g)
    BY <1>4 DEF Won
  <2>2. CASE g = h
    <3>1. task[<<h[1], h[2]>>] = "none" /\ pc'[h] = p
      BY <1>1, <1>2, <2>1, <2>2 DEF LeftInvariant
    <3>2. p \in PastClaim
      BY <2>1, <2>2 DEF PastClaim
    <3>3. Serves(h[1])' /\ Over(h)' => Serves(h[1]) /\ next \in {"reject", "done"}
      BY <1>2, <3>1 DEF Serves, Over
    <3> QED
      BY <2>1, <2>2, <3>1, <3>2, <3>3
  <2>3. CASE g # h
    <3>1. pc'[g] = pc[g]
      BY <1>1, <1>2, <2>3
    <3>2. /\ pc[g] \in PastClaim
          /\ task[<<g[1], g[2]>>] # "none" => pc[g] \in {"done", "aborted"}
          /\ Serves(g[1]) /\ Over(g) => IsTerminal(row[g[2]])
      BY <2>1 DEF LeftInvariant
    <3>3. Serves(g[1])' /\ Over(g)' => Serves(g[1]) /\ Over(g)
      BY <1>2, <3>1 DEF Serves, Over
    <3> QED
      BY <2>1, <2>3, <3>1, <3>2, <3>3
  <2> QED
    BY <2>2, <2>3
<1> QED
  BY <1>3, <1>4 DEF LeftInvariant

\* A row operator that keeps or reaches a terminal status spoils no row.
LEMMA TerminalStays ==
  ASSUME NEW c \in Calls, NEW s, row \in [Calls -> CallSession],
         row' = [row EXCEPT ![c] = s], IsTerminal(row[c]) => IsTerminal(s)
  PROVE  \A d \in Calls : IsTerminal(row[d]) => IsTerminal(row'[d])
<1> SUFFICES ASSUME NEW d \in Calls, IsTerminal(row[d]) PROVE IsTerminal(row'[d])
  OBVIOUS
<1>1. CASE d = c
  BY <1>1
<1>2. CASE d # c
  <2>1. row'[d] = row[d]
    BY <1>2
  <2> QED
    BY <2>1 DEF IsTerminal
<1> QED
  BY <1>1, <1>2

\* Two handlers that won the same call are one.
LEMMA OneWon ==
  ASSUME OwnershipInvariant, NEW g \in Handlers, NEW h \in Handlers,
         Won(g), Won(h), g[2] = h[2]
  PROVE  g = h
<1>1. winners[h[2]] = {<<h[1], h[3]>>} /\ winners[h[2]] = {<<g[1], g[3]>>}
  BY HandlerFields DEF OwnershipInvariant, OneWinner, Won
<1>2. <<g[1], g[3]>> = <<h[1], h[3]>>
  <2> DEFINE x == <<g[1], g[3]>>
             y == <<h[1], h[3]>>
  <2> HIDE DEF x, y
  <2>1. {y} = {x}
    BY <1>1 DEF x, y
  <2>2. x = y
    BY <2>1
  <2> QED
    BY <2>2 DEF x, y
<1> QED
  BY <1>2 DEF Handlers

\* A call with a task was won by a handler of its process.
LEMMA TaskWon ==
  ASSUME OwnershipInvariant, NEW r \in Runtimes, NEW c \in Calls, IsHosted(r, c)
  PROVE  \E n \in Deliveries : <<r, c, n>> \in Handlers /\ Won(<<r, c, n>>)
BY HostedByWinner DEF Won

\* Every step of a handler keeps the invariant, as long as the database works.
LEMMA HandlerKeepsLeft ==
  ASSUME OwnershipInvariant, LeftInvariant, NEW h \in Handlers, Offer(h) \/ HandlerStep(h)
  PROVE  LeftInvariant'
<1> USE HandlerFields
<1>0. /\ row \in [Calls -> CallSession] /\ row[h[2]] \in CallSession
      /\ why[h] \in EndReasons /\ {"none"} \subseteq EndReasons
      /\ {"answered", "failed"} \subseteq VALID_STATUSES
      /\ pc \in [Handlers -> HandlerPcs]
  BY DEF OwnershipInvariant, TypeOK, VALID_STATUSES, EndReasons
<1>1. Won(h) => pc[h] \in PastClaim
  BY DEF LeftInvariant
<1>2. pc[h] \in ActivePcs => Won(h)
  BY DEF OwnershipInvariant, ActiveHandlersWon, Won
<1>3. UNCHANGED row =>
        \A g \in Handlers : Won(g) /\ IsTerminal(row[g[2]]) => IsTerminal(row'[g[2]])
  OBVIOUS
<1>4. ASSUME ~ Won(h), pc[h] \notin {"done", "aborted"}, NEW next, NEW sel, NEW reason,
             Step(h, next, sel, reason), UNCHANGED <<row, winners, task>>
      PROVE  LeftInvariant'
  BY <1>3, <1>4, MoveKeepsLeft
<1>5. CASE Offer(h)
  <2>1. ~ Won(h)
    BY <1>1, <1>5 DEF Offer, PastClaim, ActivePcs
  <2> QED
    BY <1>4, <1>5, <2>1 DEF Offer, Goto
<1>6. CASE RefuseRoute(h)
  <2>1. ~ Won(h)
    BY <1>1, <1>6 DEF RefuseRoute, PastClaim, ActivePcs
  <2> QED
    BY <1>4, <1>6, <2>1 DEF RefuseRoute, Goto
<1>7. CASE CreateSession(h)
  <2>1. ~ Won(h)
    BY <1>1, <1>7 DEF CreateSession, PastClaim, ActivePcs
  <2>2. IsTerminal(row[h[2]]) => IsTerminal(CreateCallSession(row[h[2]]))
    BY DEF CreateCallSession, IsTerminal, NoRow, TERMINAL_STATUSES
  <2>3. \A d \in Calls : IsTerminal(row[d]) => IsTerminal(row'[d])
    BY <1>0, <1>7, <2>2, TerminalStays DEF CreateSession
  <2>4. PICK next : Goto(h, next)
    BY <1>7 DEF CreateSession
  <2> QED
    BY <1>7, <2>1, <2>3, <2>4, MoveKeepsLeft DEF CreateSession, Goto
<1>8. CASE Authorize(h)
  <2>1. ~ Won(h)
    BY <1>1, <1>8 DEF Authorize, PastClaim, ActivePcs
  <2> QED
    BY <1>4, <1>8, <2>1 DEF Authorize, Goto, GotoFail
<1>9. CASE ReadHeartbeats(h)
  <2>1. ~ Won(h)
    BY <1>1, <1>9 DEF ReadHeartbeats, PastClaim, ActivePcs
  <2> QED
    BY <1>4, <1>9, <2>1 DEF ReadHeartbeats, GotoFail
<1>10. CASE Assign(h)
  <2>1. ~ Won(h)
    BY <1>1, <1>10 DEF Assign, PastClaim, ActivePcs
  <2>2. IsTerminal(row[h[2]]) => IsTerminal(ClaimRuntimeOwnership(row[h[2]], choice[h]))
    BY <1>0, ClaimedRow DEF IsTerminal
  <2>3. \A d \in Calls : IsTerminal(row[d]) => IsTerminal(row'[d])
    BY <1>0, <1>10, <2>2, TerminalStays DEF Assign
  <2>4. PICK next : Goto(h, next)
    BY <1>10 DEF Assign
  <2> QED
    BY <1>10, <2>1, <2>3, <2>4, MoveKeepsLeft DEF Assign, Goto
<1>11. CASE Claim(h)
  <2>1. ~ Won(h)
    BY <1>1, <1>11 DEF Claim, PastClaim, ActivePcs
  <2>2. CASE ~ MayActivate(row[h[2]])
    BY <1>4, <1>11, <2>1, <2>2 DEF Claim, Goto
  <2>3. CASE MayActivate(row[h[2]])
    <3>1. winners[h[2]] = {}
      BY <2>3 DEF MayActivate, OwnershipInvariant, ClaimIsSpent
    <3>2. task[<<h[1], h[2]>>] = "none"
      BY <3>1, HostedByWinner DEF IsHosted
    <3>3. /\ UNCHANGED <<task, mode, late>>
          /\ pc' = [pc EXCEPT ![h] = IF cancelled[h] THEN "aborted" ELSE "answer"]
          /\ row' = [row EXCEPT ![h[2]] = ClaimCallForActivation(@)]
          /\ winners' = [winners EXCEPT ![h[2]] = {<<h[1], h[3]>>}]
      BY <1>11, <2>3, <3>1 DEF Claim, Goto, Step
    <3>4. winners \in [Calls -> SUBSET (Runtimes \X Deliveries)]
      BY DEF OwnershipInvariant, TypeOK
    <3>5. pc'[h] \in {"aborted", "answer"}
      BY <1>0, <3>3
    <3>6. ASSUME NEW g \in Handlers, Won(g)'
          PROVE  g = h \/ (Won(g) /\ g[2] # h[2] /\ g # h)
      <4>1. CASE g[2] = h[2]
        <5>1. <<g[1], g[3]>> = <<h[1], h[3]>>
          BY <3>3, <3>4, <3>6, <4>1 DEF Won
        <5> QED
          BY <4>1, <5>1 DEF Handlers
      <4>2. CASE g[2] # h[2]
        BY <3>3, <3>4, <3>6, <4>2 DEF Won
      <4> QED
        BY <4>1, <4>2
    <3>7. ASSUME NEW g \in Handlers, Won(g)'
          PROVE  /\ pc'[g] \in PastClaim
                 /\ task'[<<g[1], g[2]>>] # "none" => pc'[g] \in {"done", "aborted"}
                 /\ Serves(g[1])' /\ Over(g)' => IsTerminal(row'[g[2]])
      <4>1. CASE g = h
        BY <3>2, <3>3, <3>5, <4>1 DEF PastClaim, ActivePcs, Over
      <4>2. CASE Won(g) /\ g[2] # h[2] /\ g # h
        <5>1. pc'[g] = pc[g] /\ row'[g[2]] = row[g[2]]
          BY <1>0, <3>3, <4>2
        <5>2. /\ pc[g] \in PastClaim
              /\ task[<<g[1], g[2]>>] # "none" => pc[g] \in {"done", "aborted"}
              /\ Serves(g[1]) /\ Over(g) => IsTerminal(row[g[2]])
          BY <4>2 DEF LeftInvariant
        <5> QED
          BY <3>3, <5>1, <5>2 DEF Serves, Over
      <4> QED
        BY <3>6, <3>7, <4>1, <4>2
    <3>8. LateOnesStop'
      BY <3>3 DEF LeftInvariant, LateOnesStop
    <3> QED
      BY <3>7, <3>8 DEF LeftInvariant
  <2> QED
    BY <2>2, <2>3
<1>12. CASE Answer(h)
  <2>1. PICK next, reason : next \in {"waiting", "fail"} /\ Step(h, next, NoOwner, reason)
    BY <1>12 DEF Answer, Goto, GotoFail
  <2> QED
    BY <1>3, <1>12, <2>1, MoveKeepsLeft DEF Answer, PastClaim, ActivePcs
<1>13. CASE WaitForAnswered(h)
  <2>1. PICK next, reason : next \in {"mark", "fail"} /\ Step(h, next, NoOwner, reason)
    BY <1>13 DEF WaitForAnswered, Goto, GotoFail
  <2> QED
    BY <1>3, <1>13, <2>1, MoveKeepsLeft DEF WaitForAnswered, PastClaim, ActivePcs
<1>14. CASE MarkAnswered(h)
  <2>1. PICK next \in {"marking", "start", "aborted"} : Goto(h, next)
    BY <1>14 DEF MarkAnswered
  <2> QED
    BY <1>3, <1>14, <2>1, MoveKeepsLeft DEF MarkAnswered, Goto, PastClaim, ActivePcs
<1>15. CASE CommitAnswered(h)
  <2>1. Won(h)
    BY <1>2, <1>15 DEF CommitAnswered, ActivePcs
  <2>2. ASSUME NEW g \in Handlers, g # h, Won(g), IsTerminal(row[g[2]])
        PROVE  IsTerminal(row'[g[2]])
    <3>1. g[2] # h[2]
      BY <2>1, <2>2, OneWon
    <3>2. row'[g[2]] = row[g[2]]
      BY <1>0, <1>15, <3>1 DEF CommitAnswered
    <3> QED
      BY <2>2, <3>2
  <2> QED
    BY <1>15, <2>1, <2>2, MoveKeepsLeft DEF CommitAnswered, Goto, PastClaim, ActivePcs
<1>16. CASE StartCall(h)
  <2>1. Won(h)
    BY <1>2, <1>16 DEF StartCall, ActivePcs
  <2>2. task[<<h[1], h[2]>>] = "none"
    BY <1>16, <2>1 DEF StartCall, LeftInvariant
  <2>3. /\ UNCHANGED <<row, winners, mode, late>>
        /\ pc' = [pc EXCEPT ![h] = IF cancelled[h] THEN "aborted" ELSE "done"]
        /\ task' = [task EXCEPT ![<<h[1], h[2]>>] = "starting"]
        /\ task \in [Runtimes \X Calls -> TaskPcs]
    BY <1>16, <2>2 DEF StartCall, Goto, Step, OwnershipInvariant, TypeOK
  <2>4. pc'[h] \in {"done", "aborted"} /\ task'[<<h[1], h[2]>>] = "starting"
    BY <1>0, <2>3
  <2>5. ASSUME NEW g \in Handlers, Won(g)'
        PROVE  /\ pc'[g] \in PastClaim
               /\ task'[<<g[1], g[2]>>] # "none" => pc'[g] \in {"done", "aborted"}
               /\ Serves(g[1])' /\ Over(g)' => IsTerminal(row'[g[2]])
    <3>1. Won(g)
      BY <2>3, <2>5 DEF Won
    <3>2. CASE g = h
      BY <2>4, <3>2 DEF PastClaim, Over
    <3>3. CASE g # h
      <4>1. g[2] # h[2]
        BY <2>1, <3>1, <3>3, OneWon
      <4>2. <<g[1], g[2]>> \in Runtimes \X Calls /\ <<g[1], g[2]>> # <<h[1], h[2]>>
        BY <4>1
      <4>3. pc'[g] = pc[g] /\ task'[<<g[1], g[2]>>] = task[<<g[1], g[2]>>]
        BY <1>0, <2>3, <3>3, <4>2
      <4>4. /\ pc[g] \in PastClaim
            /\ task[<<g[1], g[2]>>] # "none" => pc[g] \in {"done", "aborted"}
            /\ Serves(g[1]) /\ Over(g) => IsTerminal(row[g[2]])
        BY <3>1 DEF LeftInvariant
      <4> QED
        BY <2>3, <4>3, <4>4 DEF Serves, Over
    <3> QED
      BY <3>2, <3>3
  <2>6. LateOnesStop'
    BY <2>3 DEF LeftInvariant, LateOnesStop
  <2> QED
    BY <2>5, <2>6 DEF LeftInvariant
<1>17. CASE FailCall(h)
  <2>1. PICK next \in {"failing", "reject", "aborted"} : Step(h, next, NoOwner, why[h])
    BY <1>17 DEF FailCall
  <2>2. UNCHANGED <<row, winners, task>> /\ pc[h] = "fail"
    BY <1>17 DEF FailCall
  <2>3. ~ cancelled[h] /\ next = "reject" => Verdict(row[h[2]], "failed", Expected(h)) = "same"
    BY <1>0, <1>17, <2>1 DEF FailCall, Step
  <2>4. next = "reject" /\ ~ cancelled[h] => row[h[2]].status = "failed"
    BY <2>3 DEF Verdict
  <2>5. CASE cancelled[h] /\ next = "reject"
    <3>1. Step(h, "aborted", NoOwner, why[h])
      BY <2>1, <2>5 DEF Step
    <3> QED
      BY <1>3, <2>2, <3>1, MoveKeepsLeft DEF PastClaim
  <2>6. CASE ~ (cancelled[h] /\ next = "reject")
    <3>1. next = "reject" => IsTerminal(row[h[2]])
      BY <2>4, <2>6 DEF IsTerminal, TERMINAL_STATUSES
    <3> QED
      BY <1>3, <2>1, <2>2, <3>1, MoveKeepsLeft DEF PastClaim
  <2> QED
    BY <2>5, <2>6
<1>18. CASE CommitFailure(h)
  <2>1. Written(row[h[2]], "failed", why[h]).status = "failed"
    BY <1>0, WrittenRow
  <2>2. IsTerminal(Written(row[h[2]], "failed", why[h]))
    BY <2>1 DEF IsTerminal, TERMINAL_STATUSES
  <2>3. /\ row' = [row EXCEPT ![h[2]] = Written(row[h[2]], "failed", why[h])]
        /\ Step(h, "reject", NoOwner, why[h]) /\ UNCHANGED <<winners, task>>
        /\ pc[h] = "failing"
    BY <1>18 DEF CommitFailure
  <2>4. \A d \in Calls : IsTerminal(row[d]) => IsTerminal(row'[d])
    BY <1>0, <2>2, <2>3, TerminalStays
  <2>5. IsTerminal(row'[h[2]])
    BY <1>0, <2>2, <2>3
  <2> QED
    BY <2>3, <2>4, <2>5, MoveKeepsLeft DEF PastClaim
<1>19. CASE Reject(h)
  <2>1. Won(h) /\ Serves(h[1]) => IsTerminal(row[h[2]])
    BY <1>19 DEF Reject, LeftInvariant, Over
  <2> QED
    BY <1>3, <1>19, <2>1, MoveKeepsLeft DEF Reject, Goto, PastClaim
<1>. HIDE HandlerFields
<1> QED
  BY <1>5, <1>6, <1>7, <1>8, <1>9, <1>10, <1>11, <1>12, <1>13, <1>14, <1>15, <1>16,
     <1>17, <1>18, <1>19 DEF HandlerStep

\* A step of a task, or of its thread, keeps it: only the task of the winner writes another
\* status than a terminal one, and it lasts until it has left a terminal row.
LEMMA TaskKeepsLeft ==
  ASSUME OwnershipInvariant, LeftInvariant, "error" \notin Faults,
         NEW r \in Runtimes, NEW c \in Calls, TaskStep(r, c)
  PROVE  LeftInvariant'
<1>t. TypeOK
  BY DEF OwnershipInvariant
<1>0. /\ row \in [Calls -> CallSession] /\ row[c] \in CallSession
      /\ task \in [Runtimes \X Calls -> TaskPcs] /\ <<r, c>> \in Runtimes \X Calls
      /\ UNCHANGED <<pc, mode, winners>>
      /\ \A k \in Runtimes \X Calls : k # <<r, c>> => task'[k] = task[k]
      /\ \A d \in Calls : d # c => row'[d] = row[d]
  BY <1>t, TaskMoves DEF TypeOK
<1>1. ASSUME LateOnesStop',
             task'[<<r, c>>] # "none" => task[<<r, c>>] # "none",
             \A h \in Handlers : Won(h) /\ h[2] = c /\ Serves(h[1]) /\ Over(h)'
                                    => IsTerminal(row'[c])
      PROVE  LeftInvariant'
  <2>1. ASSUME NEW h \in Handlers, Won(h)'
        PROVE  /\ pc'[h] \in PastClaim
               /\ task'[<<h[1], h[2]>>] # "none" => pc'[h] \in {"done", "aborted"}
               /\ Serves(h[1])' /\ Over(h)' => IsTerminal(row'[h[2]])
    <3>1. Won(h) /\ Serves(h[1])' = Serves(h[1])
      BY <1>0, <2>1 DEF Won, Serves
    <3>2. /\ pc[h] \in PastClaim
          /\ task[<<h[1], h[2]>>] # "none" => pc[h] \in {"done", "aborted"}
          /\ Serves(h[1]) /\ Over(h) => IsTerminal(row[h[2]])
      BY <3>1 DEF LeftInvariant
    <3>3. task'[<<h[1], h[2]>>] # "none" => task[<<h[1], h[2]>>] # "none"
      BY <1>0, <1>1, HandlerFields
    <3>4. CASE h[2] = c
      BY <1>0, <1>1, <3>1, <3>2, <3>3, <3>4
    <3>5. CASE h[2] # c
      <4>1. h[2] \in Calls /\ <<h[1], h[2]>> \in Runtimes \X Calls /\ <<h[1], h[2]>> # <<r, c>>
        BY <3>5, HandlerFields
      <4>2. row'[h[2]] = row[h[2]] /\ Over(h)' = Over(h)
        BY <1>0, <3>5, <4>1 DEF Over
      <4> QED
        BY <1>0, <3>1, <3>2, <3>3, <4>2
    <3> QED
      BY <3>4, <3>5
  <2> QED
    BY <1>0, <1>1, <2>1 DEF LeftInvariant
<1>2. \A h \in Handlers : Won(h) /\ h[2] = c /\ Serves(h[1]) /\ Over(h) => IsTerminal(row[c])
  BY DEF LeftInvariant
<1>3. LateOnesStop
  BY DEF LeftInvariant
<1>4. \A h \in Handlers : Won(h) /\ h[2] = c => h[1] = r /\ pc[h] \in {"done", "aborted"}
  <2> SUFFICES ASSUME NEW h \in Handlers, Won(h), h[2] = c
               PROVE  h[1] = r /\ pc[h] \in {"done", "aborted"}
    OBVIOUS
  <2>1. PICK n \in Deliveries : /\ <<r, c, n>> \in Handlers /\ Won(<<r, c, n>>)
                               /\ pc[<<r, c, n>>] \in {"done", "aborted"}
    BY <1>t, TaskMoves, HostedByWinner DEF Won
  <2>2. h = <<r, c, n>>
    BY <2>1, OneWon
  <2> QED
    BY <2>1, <2>2
<1>5. late'[<<r, c>>] = late[<<r, c>>] \/ mode[r] = "stopping"
  <2>1. late[<<r, c>>] # {} => mode[r] = "stopping"
    BY <1>0, <1>3 DEF LateOnesStop
  <2> QED
    BY <2>1 DEF TaskStep, TaskDecides, TaskCommits, TaskTearsDown, TaskDbFails, TaskCancelled,
                LateReads, LateCommits
<1>6. LateOnesStop'
  <2> SUFFICES ASSUME NEW k \in Runtimes \X Calls, late'[k] # {} PROVE mode'[k[1]] = "stopping"
    BY DEF LateOnesStop
  <2>1. CASE k = <<r, c>>
    <3>1. mode[r] = "stopping"
      <4>1. late[<<r, c>>] # {} => mode[r] = "stopping"
        BY <1>0, <1>3 DEF LateOnesStop
      <4> QED
        BY <1>5, <2>1, <4>1
    <3>2. k[1] = r
      BY <2>1
    <3> QED
      BY <1>0, <3>1, <3>2
  <2>2. CASE k # <<r, c>>
    <3>1. late'[k] = late[k]
      BY <1>t, <2>2, TaskMoves
    <3>2. mode[k[1]] = "stopping"
      BY <1>3, <3>1 DEF LateOnesStop
    <3> QED
      BY <1>0, <3>2
  <2> QED
    BY <2>1, <2>2
<1>7. CASE mode[r] = "stopping"
  <2>1. \A h \in Handlers : Won(h) /\ h[2] = c => ~ Serves(h[1])
    BY <1>4, <1>7 DEF Serves
  <2> QED
    BY <1>t, <1>1, <1>6, <2>1, TaskMoves
<1>8. CASE task'[<<r, c>>] # "none"
  BY <1>t, <1>0, <1>1, <1>4, <1>6, <1>8, TaskMoves DEF Over
<1>9. CASE IsTerminal(row'[c])
  BY <1>t, <1>1, <1>6, <1>9, TaskMoves
<1>10. CASE TaskDecides(r, c) /\ task'[<<r, c>>] = "none"
  <2> DEFINE verdict(e) == WriteVerdict(row[c], e, r)
  <2>1. PICK w \in TaskWrites :
          "none" = CASE verdict(w) = "write" -> w
                     [] w = "progress" /\ verdict(w) = "same" -> "talking"
                     [] w \in OwnerWrites /\ verdict(w) \notin {"write", "same"} -> "ending"
                     [] /\ w \in FinalWrites /\ verdict(w) = "invalid"
                        /\ verdict("interrupting") = "write" -> "interrupting"
                     [] OTHER -> "none"
    BY <1>0, <1>10, OpenIsWrite DEF TaskDecides, TaskGoto
  <2>2. /\ verdict(w) # "write"
        /\ ~ (w = "progress" /\ verdict(w) = "same")
        /\ w \in OwnerWrites => verdict(w) = "same"
        /\ w \in FinalWrites /\ verdict(w) = "invalid" => verdict("interrupting") # "write"
    BY <2>1 DEF TaskWrites, OwnerWrites, FinalWrites
  <2>3. winners[c] # {} /\ row[c].status \notin {"absent", "initiated"}
    BY <1>t, TaskMoves, HostedByWinner DEF OwnershipInvariant, ClaimIsSpent
  <2>4. verdict(w) = "same" => row[c].status = WriteStatus[w]
    BY DEF WriteVerdict, Verdict
  <2>5. CASE w \in OwnerWrites
    <3>1. row[c].status = "failed"
      BY <2>2, <2>4, <2>5 DEF OwnerWrites, WriteStatus
    <3> QED
      BY <1>9, <1>10, <3>1 DEF TaskDecides, IsTerminal, TERMINAL_STATUSES
  <2>6. CASE w \in FinalWrites
    <3>1. verdict(w) = "same" \/ (verdict(w) = "invalid" /\ verdict("interrupting") # "write")
      BY <2>2, <2>6 DEF WriteVerdict, Verdict, OwnerWrites, FinalWrites
    <3>2. CASE verdict(w) = "same"
      BY <1>9, <1>10, <2>4, <2>6, <3>2, WriteFacts
         DEF TaskDecides, IsTerminal, FinalWrites, TaskWrites
    <3>3. CASE verdict("interrupting") # "write"
      <4>1. Verdict(row[c], "interrupted", NoOwner) # "write"
        BY <3>3 DEF WriteVerdict, OwnerWrites, WriteStatus
      <4>2. IsTerminal(row[c])
        BY <1>0, <2>3, <4>1 DEF Verdict, IsValidTransition, Transitions, IsTerminal,
             TERMINAL_STATUSES, CallSession, VALID_STATUSES
      <4> QED
        BY <1>9, <1>10, <4>2 DEF TaskDecides, IsTerminal
    <3> QED
      BY <3>1, <3>2, <3>3
  <2> QED
    BY <2>5, <2>6 DEF TaskWrites
<1>11. CASE TaskCommits(r, c) /\ task'[<<r, c>>] = "none"
  <2>1. PICK w \in TaskWrites : w # "progress" /\ row' = [row EXCEPT ![c] = WrittenBy(@, w)]
    BY <1>0, <1>11 DEF TaskCommits, TaskGoto
  <2>2. PICK to \in TERMINAL_STATUSES, reason \in EndReasons :
          to \in VALID_STATUSES /\ row'[c] = Written(row[c], to, reason)
    BY <1>0, <2>1, WriteFacts DEF WrittenBy
  <2>3. IsTerminal(row'[c])
    BY <1>0, <2>2, WrittenRow DEF IsTerminal
  <2> QED
    BY <1>9, <2>3
<1>12. CASE TaskTearsDown(r, c)
  <2>1. task'[<<r, c>>] = "ending"
    BY <1>0, <1>12 DEF TaskTearsDown, TaskGoto
  <2> QED
    BY <1>8, <2>1
<1>13. CASE TaskCancelled(r, c)
  BY <1>7, <1>13 DEF TaskCancelled
<1>14. ASSUME NEW w \in TaskWrites, LateReads(r, c, w) \/ LateCommits(r, c, w)
       PROVE  mode[r] = "stopping"
  BY <1>0, <1>3, <1>14 DEF LateReads, LateCommits, LateOnesStop
<1>15. ~ TaskDbFails(r, c)
  BY DEF TaskDbFails
<1> QED
  BY <1>7, <1>8, <1>10, <1>11, <1>12, <1>13, <1>14, <1>15 DEF TaskStep

\* The reconciler writes a terminal status, and a process that stops serves no more.
LEMMA OthersKeepLeft ==
  ASSUME OwnershipInvariant, LeftInvariant, ReconcileNext \/ RuntimeNext \/ UNCHANGED vars
  PROVE  LeftInvariant'
<1>0. /\ row \in [Calls -> CallSession] /\ pc \in [Handlers -> HandlerPcs]
      /\ mode \in [Runtimes -> {"up", "draining", "stopping", "down"}]
  BY DEF OwnershipInvariant, TypeOK
<1>1. ASSUME UNCHANGED <<pc, mode, task, late, winners>>,
             \A d \in Calls : IsTerminal(row[d]) => IsTerminal(row'[d])
      PROVE  LeftInvariant'
  <2>1. \A h \in Handlers : /\ Won(h)' = Won(h) /\ Serves(h[1])' = Serves(h[1])
                           /\ Over(h)' = Over(h) /\ h[2] \in Calls
    BY <1>1, HandlerFields DEF Won, Serves, Over
  <2> QED
    BY <1>1, <2>1 DEF LeftInvariant, LateOnesStop
<1>2. ASSUME NEW c \in Calls, ReconcileCommit(c) PROVE LeftInvariant'
  <2> DEFINE s == Written(row[c], "interrupted", "runtime_crashed")
  <2>1. s.status = "interrupted"
    BY <1>0, WrittenRow DEF VALID_STATUSES, EndReasons
  <2>2. row' = [row EXCEPT ![c] = s]
    BY <1>2 DEF ReconcileCommit
  <2> HIDE DEF s
  <2>3. IsTerminal(s)
    BY <2>1 DEF IsTerminal, TERMINAL_STATUSES
  <2>4. \A d \in Calls : IsTerminal(row[d]) => IsTerminal(row'[d])
    BY <1>0, <2>2, <2>3, TerminalStays
  <2> QED
    BY <1>1, <1>2, <2>4 DEF ReconcileCommit, handlerVars
<1>3. CASE ReconcileNext
  BY <1>1, <1>2, <1>3
     DEF ReconcileNext, ReconcileReadHeartbeats, ReconcileList, ReconcileRead, handlerVars
<1>4. ASSUME UNCHANGED <<row, winners>>,
             LateOnesStop',
             \A h \in Handlers : pc'[h] = pc[h] \/ pc'[h] = "aborted",
             \A k \in Runtimes \X Calls : task'[k] = task[k] \/ mode'[k[1]] = "down",
             \A k \in Runtimes \X Calls : task'[k] # "none" => task[k] # "none",
             \A q \in Runtimes : Serves(q)' => Serves(q)
      PROVE  LeftInvariant'
  <2>1. ASSUME NEW h \in Handlers, Won(h)'
        PROVE  /\ pc'[h] \in PastClaim
               /\ task'[<<h[1], h[2]>>] # "none" => pc'[h] \in {"done", "aborted"}
               /\ Serves(h[1])' /\ Over(h)' => IsTerminal(row'[h[2]])
    <3>1. Won(h)
      BY <1>4, <2>1 DEF Won
    <3>2. /\ pc[h] \in PastClaim
          /\ task[<<h[1], h[2]>>] # "none" => pc[h] \in {"done", "aborted"}
          /\ Serves(h[1]) /\ Over(h) => IsTerminal(row[h[2]])
      BY <3>1 DEF LeftInvariant
    <3>3. Serves(h[1])' /\ Over(h)' => Serves(h[1]) /\ Over(h)
      BY <1>4, HandlerFields DEF Serves, Over
    <3> QED
      BY <1>4, <3>2, <3>3, HandlerFields DEF PastClaim
  <2> QED
    BY <1>4, <2>1 DEF LeftInvariant
<1>5. ASSUME NEW r \in Runtimes, Drain(r) PROVE LeftInvariant'
  <2>1. \A q \in Runtimes : Serves(q)' => Serves(q)
    BY <1>0, <1>5 DEF Drain, Serves
  <2>2. LateOnesStop'
    BY <1>0, <1>5 DEF Drain, LeftInvariant, LateOnesStop
  <2> QED
    BY <1>4, <1>5, <2>1, <2>2 DEF Drain
<1>6. ASSUME NEW r \in Runtimes, StopRuntime(r) PROVE LeftInvariant'
  <2>1. \A q \in Runtimes : Serves(q)' => Serves(q)
    BY <1>0, <1>6 DEF StopRuntime, Serves
  <2>2. LateOnesStop'
    BY <1>0, <1>6 DEF StopRuntime, LeftInvariant, LateOnesStop
  <2> QED
    BY <1>4, <1>6, <2>1, <2>2 DEF StopRuntime, handlerVars
<1>7. ASSUME NEW r \in Runtimes, Ended(r) PROVE LeftInvariant'
  <2>1. \A q \in Runtimes : Serves(q)' => Serves(q)
    BY <1>0, <1>7 DEF Ended, Serves
  <2>2. LateOnesStop'
    BY <1>0, <1>7 DEF Ended, LeftInvariant, LateOnesStop
  <2>3. \A k \in Runtimes \X Calls : /\ task'[k] = task[k] \/ mode'[k[1]] = "down"
                                     /\ task'[k] # "none" => task[k] # "none"
    BY <1>0, <1>7 DEF Ended
  <2> QED
    BY <1>4, <1>7, <2>1, <2>2, <2>3 DEF Ended
<1>8. CASE RuntimeNext
  BY <1>1, <1>5, <1>6, <1>7, <1>8
     DEF RuntimeNext, WriteHeartbeat, HeartbeatExpires, Exit, Crash, handlerVars
<1>9. CASE UNCHANGED vars
  BY <1>1, <1>9 DEF vars, handlerVars
<1> QED
  BY <1>3, <1>8, <1>9

\* ADR-0008, orchestrator.py and call_task.py: while the database works, a call whose
\* activation ran to its end in a process that was not told to stop is hosted or terminal,
\* whatever the other processes, duplicates of the handler and the reconciler write, and
\* whoever crashes, drains or is refused.
THEOREM ActivatedCallIsNotLeftHolds ==
  ASSUME "error" \notin Faults
  PROVE  Spec => []ActivatedCallIsNotLeft
<1>1. Init => LeftInvariant
  BY DEF Init, LeftInvariant, LateOnesStop, Won, Handlers
<1>2. OwnershipInvariant /\ LeftInvariant /\ [Next]_vars => LeftInvariant'
  <2> SUFFICES ASSUME OwnershipInvariant, LeftInvariant, [Next]_vars PROVE LeftInvariant'
    OBVIOUS
  <2>1. ASSUME NEW h \in Handlers PROVE ~ HandlerRaises(h)
    BY DEF HandlerRaises
  <2> QED
    BY <2>1, HandlerKeepsLeft, TaskKeepsLeft, OthersKeepLeft DEF Next, HandlerNext, TaskNext
<1>3. LeftInvariant => ActivatedCallIsNotLeft
  BY DEF LeftInvariant, ActivatedCallIsNotLeft, Won, Serves, Over
<1> QED
  BY <1>1, <1>2, <1>3, OwnershipHolds, PTL DEF Spec

-----------------------------------------------------------------------------
(* Refinement                                                               *)

\* The initial states are those of the abstract specification.
LEMMA InitRefines == Init => Ownership!Init
BY DEF Init, Ownership!Init, NoRow

\* The steps that change neither an owner nor the record of activations.
LEMMA StutterRefines ==
  ASSUME \A c \in Calls : row'[c].owner = row[c].owner, UNCHANGED winners
  PROVE  UNCHANGED Ownership!vars
BY DEF Ownership!vars

\* assign_call_to_runtime acquires a free call, or leaves the owner as it is.
LEMMA AssignRefines ==
  ASSUME OwnershipInvariant, NEW h \in Handlers, Assign(h)
  PROVE  [Ownership!Next]_(Ownership!vars)
\* The instance is named as a constant: an action of CallOwnership has primes in it.
<1>. PICK r \in Runtimes \cup {NoOwner} : r = choice[h]
  BY DEF OwnershipInvariant, TypeOK
<1>. PICK c \in Calls : c = h[2]
  BY HandlerFields
<1>0. /\ row \in [Calls -> CallSession] /\ row[c] \in CallSession
      /\ UNCHANGED winners
  BY DEF OwnershipInvariant, TypeOK, Assign
<1>1. CASE ~ MayOwn(row[c], r) \/ row[c].owner = r
  <2>1. \A d \in Calls : row'[d].owner = row[d].owner
    BY <1>0, <1>1, ClaimedRow DEF Assign
  <2>. QED  BY <1>0, <2>1, StutterRefines
<1>2. CASE MayOwn(row[c], r) /\ row[c].owner # r
  <2>1. row[c].owner = NoOwner /\ r \in Runtimes
    BY <1>0, <1>2 DEF MayOwn
  <2> DEFINE new == ClaimRuntimeOwnership(row[c], r)
  <2>2. new.owner = r
    BY <1>0, ClaimedRow
  <2>3. row' = [row EXCEPT ![c] = new]
    BY <1>2 DEF Assign
  <2> HIDE DEF new
  <2>4. row'[c] = new /\ \A d \in Calls \ {c} : row'[d] = row[d]
    BY <1>0, <2>3
  <2>5. \A d \in Calls : row'[d].owner = IF d = c THEN r ELSE row[d].owner
    BY <2>2, <2>4
  <2>6. [d \in Calls |-> row'[d].owner] = [[d \in Calls |-> row[d].owner] EXCEPT ![c] = r]
    BY <2>5
  <2>7. Ownership!Acquire(c, r)
    BY <1>0, <2>1, <2>6 DEF Ownership!Acquire
  <2>. QED  BY <2>1, <2>7 DEF Ownership!Next
<1>. QED  BY <1>1, <1>2

\* claim_call_for_activation is the one activation of the owner.
LEMMA ClaimRefines ==
  ASSUME OwnershipInvariant, NEW h \in Handlers, Claim(h)
  PROVE  [Ownership!Next]_(Ownership!vars)
<1>0. /\ h[1] \in Runtimes /\ h[2] \in Calls /\ h[3] \in Deliveries
      /\ row \in [Calls -> CallSession] /\ row[h[2]] \in CallSession
      /\ row[h[2]].owner = h[1]
  BY HandlerFields DEF OwnershipInvariant, TypeOK, Claim, ClaimersOwn, ClaimingPc
<1>1. \A d \in Calls : row'[d].owner = row[d].owner
  <2> DEFINE new == ClaimCallForActivation(row[h[2]])
  <2>1. new.owner = row[h[2]].owner
    BY <1>0, ClaimedRow
  <2>2. row' = [row EXCEPT ![h[2]] = new] \/ UNCHANGED row
    BY DEF Claim
  <2> HIDE DEF new
  <2>. QED  BY <1>0, <2>1, <2>2
<1>2. CASE ~ MayActivate(row[h[2]])
  BY <1>1, <1>2, StutterRefines DEF Claim
<1>3. CASE MayActivate(row[h[2]])
  <2>1. winners[h[2]] = {}
    BY <1>0, <1>3 DEF OwnershipInvariant, ClaimIsSpent, MayActivate
  <2>2. winners' = [winners EXCEPT ![h[2]] = {<<h[1], h[3]>>}]
    BY <1>3, <2>1 DEF Claim
  <2>3. [d \in Calls |-> row'[d].owner] = [d \in Calls |-> row[d].owner]
    BY <1>1
  <2>4. Ownership!Activate(h[2], h[3])
    BY <1>0, <2>1, <2>2, <2>3 DEF Ownership!Activate
  <2>. QED  BY <1>0, <2>4 DEF Ownership!Next
<1>. QED  BY <1>2, <1>3

\* A write of transition_call_session never changes the owner.
LEMMA WriteStutters ==
  ASSUME OwnershipInvariant, NEW c \in Calls,
         NEW to \in VALID_STATUSES, NEW reason \in EndReasons,
         row' = [row EXCEPT ![c] = Written(@, to, reason)]
  PROVE  \A d \in Calls : row'[d].owner = row[d].owner
<1>1. row \in [Calls -> CallSession] /\ row[c] \in CallSession
  BY DEF OwnershipInvariant, TypeOK
<1>. QED  BY <1>1, WrittenRow

\* Every step of the fleet is a step of the abstract specification or invisible to it.
LEMMA StepRefines ==
  OwnershipInvariant /\ [Next]_vars => [Ownership!Next]_(Ownership!vars)
<1> SUFFICES ASSUME OwnershipInvariant, [Next]_vars
             PROVE  [Ownership!Next]_(Ownership!vars)
  OBVIOUS
<1>0. /\ {"answered", "failed", "in_progress", "interrupted"} \subseteq VALID_STATUSES
      /\ {"none", "runtime_crashed"} \subseteq EndReasons
      /\ row \in [Calls -> CallSession] /\ why \in [Handlers -> EndReasons]
  BY DEF OwnershipInvariant, TypeOK, VALID_STATUSES, EndReasons
<1>1. ASSUME UNCHANGED <<row, winners>> PROVE [Ownership!Next]_(Ownership!vars)
  BY <1>1, StutterRefines
<1>2. ASSUME NEW h \in Handlers, Offer(h) \/ HandlerStep(h) \/ HandlerRaises(h)
      PROVE  [Ownership!Next]_(Ownership!vars)
  <2>1. CASE CreateSession(h)
    <3>1. \A d \in Calls : row'[d].owner = row[d].owner
      BY <2>1, <1>0, HandlerFields DEF CreateSession, CreateCallSession, CallSession
    <3>. QED  BY <2>1, <3>1, StutterRefines DEF CreateSession
  <2>2. CASE Assign(h)
    BY <2>2, AssignRefines
  <2>3. CASE Claim(h)
    BY <2>3, ClaimRefines
  <2>4. CASE CommitAnswered(h)
    <3>1. row' = [row EXCEPT ![h[2]] = Written(@, "answered", "none")] /\ UNCHANGED winners
      BY <2>4 DEF CommitAnswered
    <3>. QED  BY <3>1, <1>0, HandlerFields, WriteStutters, StutterRefines
  <2>5. CASE CommitFailure(h)
    <3>1. row' = [row EXCEPT ![h[2]] = Written(@, "failed", why[h])] /\ UNCHANGED winners
      BY <2>5 DEF CommitFailure
    <3>. QED  BY <3>1, <1>0, HandlerFields, WriteStutters, StutterRefines
  <2>. QED
    BY <1>1, <1>2, <2>1, <2>2, <2>3, <2>4, <2>5
       DEF HandlerStep, Offer, RefuseRoute, Authorize, ReadHeartbeats, Answer,
           WaitForAnswered, MarkAnswered, StartCall, FailCall, Reject, HandlerRaises
<1>3. ASSUME NEW r \in Runtimes, NEW c \in Calls, TaskStep(r, c)
      PROVE  [Ownership!Next]_(Ownership!vars)
  <2>1. UNCHANGED winners
        /\ (UNCHANGED row \/ \E w \in TaskWrites : row' = [row EXCEPT ![c] = WrittenBy(@, w)])
    BY <1>3, TaskMoves DEF OwnershipInvariant
  <2>2. ASSUME NEW w \in TaskWrites, row' = [row EXCEPT ![c] = WrittenBy(@, w)]
        PROVE  [Ownership!Next]_(Ownership!vars)
    BY <2>1, <2>2, WriteFacts, WriteStutters, StutterRefines DEF WrittenBy
  <2>. QED  BY <1>1, <2>1, <2>2
<1>4. CASE ReconcileNext
  <2>1. ASSUME NEW c \in Calls, ReconcileCommit(c)
        PROVE  [Ownership!Next]_(Ownership!vars)
    <3>1. /\ row' = [row EXCEPT ![c] = Written(@, "interrupted", "runtime_crashed")]
          /\ UNCHANGED winners
      BY <2>1 DEF ReconcileCommit
    <3>. QED  BY <3>1, <1>0, WriteStutters, StutterRefines
  <2>. QED
    BY <1>1, <1>4, <2>1
       DEF ReconcileNext, ReconcileReadHeartbeats, ReconcileList, ReconcileRead
<1>5. CASE RuntimeNext
  BY <1>1, <1>5
     DEF RuntimeNext, WriteHeartbeat, HeartbeatExpires, Drain, StopRuntime, Exit, Crash, Ended
<1>6. CASE UNCHANGED vars
  BY <1>1, <1>6 DEF vars
<1>. QED  BY <1>2, <1>3, <1>4, <1>5, <1>6 DEF Next, HandlerNext, TaskNext

\* The fleet implements exclusive ownership: every step of it is an acquisition by the
\* first owner, the one activation, or invisible.
THEOREM FleetImplementsOwnership == Spec => ImplementsOwnership
<1>1. OwnershipInvariant /\ [Next]_vars => [Ownership!Next]_(Ownership!vars)
  BY StepRefines
<1>. QED
  BY <1>1, InitRefines, OwnershipHolds, PTL DEF Spec, ImplementsOwnership, Ownership!Spec

-----------------------------------------------------------------------------
(* The contract of a hosted call                                            *)

Plain == OutsideReasons \cup {"none"}
Unanswered == {"absent", "initiated", "ringing"}

\* A handler fails a call it has not activated with a refusal only, and hands over a row
\* that it has answered and owns.
HandlerHosting(h) ==
  /\ Won(h) => pc[h] \in PastClaim
  /\ pc[h] \in {"fail", "failing"} =>
       \/ why[h] \in {"no_capacity", "authorization_denied"}
       \/ why[h] = "media_unavailable" /\ Won(h)
  /\ pc[h] = "start" => row[h[2]] \in HandedOver(h[1])

\* Until the handler that activated the call is through with it the row tells of refusals
\* and repairs at most, and nobody takes a call back that is being hosted.
CallHosting(c) ==
  /\ \/ row[c].endReason \in Plain
     \/ \E h \in Handlers : h[2] = c /\ Won(h) /\ pc[h] \notin ActivePcs
  /\ \A r \in Runtimes : IsHosted(r, c) => row[c].status \notin Unanswered

HostingInvariant ==
  /\ \A h \in Handlers : HandlerHosting(h)
  /\ \A c \in Calls : CallHosting(c)

\* The row of the call is left alone, or written as a stranger to the call writes it.
OutsideRow(c) ==
  row'[c] = row[c] \/ \E w \in OutsideReasons : row'[c] = WrittenOutside(row[c], w)

LEMMA WrittenFields ==
  ASSUME NEW s \in CallSession, NEW to \in VALID_STATUSES, NEW reason \in EndReasons
  PROVE  /\ Written(s, to, reason) \in CallSession
         /\ Written(s, to, reason).owner = s.owner
         /\ Written(s, to, reason).status = to
         /\ Written(s, to, reason).endReason =
              IF to \in TERMINAL_STATUSES /\ reason # "none" THEN reason ELSE s.endReason
BY DEF Written, CallSession

LEMMA OutsideFields ==
  ASSUME NEW s \in CallSession, NEW w \in OutsideReasons
  PROVE  /\ WrittenOutside(s, w) \in CallSession
         /\ WrittenOutside(s, w).owner = s.owner
         /\ WrittenOutside(s, w).status = IF w = "runtime_crashed" THEN "interrupted" ELSE "failed"
         /\ WrittenOutside(s, w).endReason = w
<1>1. w \in EndReasons /\ w # "none"
  BY DEF OutsideReasons, EndReasons
<1>2. PICK to \in {"interrupted", "failed"} :
        to = IF w = "runtime_crashed" THEN "interrupted" ELSE "failed"
  OBVIOUS
<1>3. to \in VALID_STATUSES /\ to \in TERMINAL_STATUSES
  BY DEF VALID_STATUSES, TERMINAL_STATUSES
<1>4. WrittenOutside(s, w) = Written(s, to, w)
  BY <1>2 DEF WrittenOutside
<1>. QED  BY <1>1, <1>2, <1>3, <1>4, WrittenFields

\* The rows a call is taken on with, by what they say.
HandedOverRow(s, r) ==
  /\ s \in CallSession /\ s.owner = r
  /\ \/ s.status = "answered" /\ s.endReason \in Plain
     \/ /\ s.endReason \in OutsideReasons
        /\ s.status = IF s.endReason = "runtime_crashed" THEN "interrupted" ELSE "failed"

LEMMA HandedOverIs ==
  ASSUME NEW r \in Runtimes, NEW s
  PROVE  s \in HandedOver(r) <=> HandedOverRow(s, r)
<1> DEFINE new(y) == [status |-> "answered", owner |-> r, endReason |-> y]
<1>1. \A y \in Plain : /\ new(y) \in CallSession /\ new(y).status = "answered"
                       /\ new(y).owner = r /\ new(y).endReason = y
  BY DEF Plain, CallSession, OutsideReasons, EndReasons, VALID_STATUSES
<1>2. s \in HandedOver(r) <=>
        (\E y \in Plain : s = new(y) \/ \E w \in OutsideReasons : s = WrittenOutside(new(y), w))
  <2> DEFINE answered == {new(y) : y \in Plain}
             over == {WrittenOutside(a, w) : a \in answered, w \in OutsideReasons}
  <2>1. HandedOver(r) = answered \cup over
    BY DEF HandedOver, Plain
  <2>2. s \in over <=> \E a \in answered, w \in OutsideReasons : s = WrittenOutside(a, w)
    OBVIOUS
  <2>3. \A a : a \in answered <=> \E y \in Plain : a = new(y)
    OBVIOUS
  <2> HIDE DEF new, answered, over
  <2>. QED  BY <2>1, <2>2, <2>3
<1>3. \A a, b \in CallSession :
        a.status = b.status /\ a.owner = b.owner /\ a.endReason = b.endReason => a = b
  BY DEF CallSession
<1> HIDE DEF new
<1>4. ASSUME NEW y \in Plain, s = new(y) PROVE HandedOverRow(s, r)
  BY <1>1, <1>4 DEF HandedOverRow
<1>5. ASSUME NEW y \in Plain, NEW w \in OutsideReasons, s = WrittenOutside(new(y), w)
      PROVE  HandedOverRow(s, r)
  BY <1>1, <1>5, OutsideFields DEF HandedOverRow
<1>6. ASSUME HandedOverRow(s, r)
      PROVE  \E y \in Plain : s = new(y) \/ \E w \in OutsideReasons : s = WrittenOutside(new(y), w)
  <2>1. CASE s.status = "answered" /\ s.endReason \in Plain
    <3>1. s = new(s.endReason)
      BY <1>1, <1>3, <1>6, <2>1 DEF HandedOverRow
    <3>. QED  BY <2>1, <3>1
  <2>2. CASE /\ s.endReason \in OutsideReasons
             /\ s.status = IF s.endReason = "runtime_crashed" THEN "interrupted" ELSE "failed"
    <3>1. PICK w \in OutsideReasons : w = s.endReason
      BY <2>2
    <3>2. "none" \in Plain
      BY DEF Plain
    <3>3. s = WrittenOutside(new("none"), w)
      BY <1>1, <1>3, <1>6, <2>2, <3>1, <3>2, OutsideFields DEF HandedOverRow
    <3>. QED  BY <3>2, <3>3
  <2>. QED  BY <1>6, <2>1, <2>2 DEF HandedOverRow
<1>. QED  BY <1>2, <1>4, <1>5, <1>6

\* A stranger's write leaves a row that is handed over one that may be, and an answered
\* call answered.
LEMMA OutsideRowFacts ==
  ASSUME TypeOK, NEW c \in Calls, OutsideRow(c)
  PROVE  /\ \A r \in Runtimes : row[c] \in HandedOver(r) => row'[c] \in HandedOver(r)
         /\ row[c].endReason \in Plain => row'[c].endReason \in Plain
         /\ row[c].status \notin Unanswered => row'[c].status \notin Unanswered
<1>1. row[c] \in CallSession
  BY DEF TypeOK
<1>2. CASE row'[c] = row[c]
  BY <1>2
<1>3. ASSUME NEW w \in OutsideReasons, row'[c] = WrittenOutside(row[c], w)
      PROVE  /\ \A r \in Runtimes : row[c] \in HandedOver(r) => row'[c] \in HandedOver(r)
             /\ row'[c].endReason \in Plain /\ row'[c].status \notin Unanswered
  BY <1>1, <1>3, OutsideFields, HandedOverIs DEF HandedOverRow, Plain, Unanswered
<1>. QED  BY <1>2, <1>3 DEF OutsideRow

\* A handler that moves on keeps the invariant, if it writes a row like a stranger, or
\* like the only one that may have activated the call.
LEMMA MoveKeepsHosting ==
  ASSUME OwnershipInvariant, HostingInvariant, NEW h \in Handlers,
         NEW next, NEW sel, NEW reason, Step(h, next, sel, reason),
         pc[h] \notin {"done", "aborted"},
         \A g \in Handlers : Won(g)' <=> Won(g) \/ (g = h /\ Won(h)'),
         Won(h)' => next \in PastClaim,
         Won(h) /\ pc[h] \notin ActivePcs => next \notin ActivePcs,
         next \in {"fail", "failing"} =>
           \/ reason \in {"no_capacity", "authorization_denied"}
           \/ reason = "media_unavailable" /\ Won(h)',
         next = "start" => row'[h[2]] \in HandedOver(h[1]),
         \A c \in Calls : \/ OutsideRow(c)
                          \/ /\ c = h[2] /\ winners[c] \subseteq {<<h[1], h[3]>>}
                             /\ \/ row'[c].endReason = row[c].endReason
                                \/ Won(h) /\ next \notin ActivePcs,
         \A r \in Runtimes, c \in Calls :
           IsHosted(r, c)' => IsHosted(r, c) \/ row'[c].status \notin Unanswered
  PROVE  HostingInvariant'
<1> USE HandlerFields
<1>0. /\ TypeOK /\ pc \in [Handlers -> HandlerPcs] /\ why \in [Handlers -> EndReasons]
  BY DEF OwnershipInvariant, TypeOK
<1>1. PICK p \in {next, "aborted"} : pc' = [pc EXCEPT ![h] = p]
  BY DEF Step
<1>2. pc'[h] = p /\ why'[h] = reason
      /\ \A g \in Handlers : g # h => pc'[g] = pc[g] /\ why'[g] = why[g]
  BY <1>0, <1>1 DEF Step
<1>3. ASSUME NEW g \in Handlers, g # h, pc[g] \in ActivePcs PROVE OutsideRow(g[2])
  <2>1. <<g[1], g[3]>> \in winners[g[2]]
    BY <1>3 DEF OwnershipInvariant, ActiveHandlersWon
  <2>2. CASE g[2] = h[2] /\ winners[g[2]] \subseteq {<<h[1], h[3]>>}
    <3>1. <<g[1], g[3]>> = <<h[1], h[3]>>
      BY <2>1, <2>2
    <3>. QED  BY <1>3, <2>2, <3>1 DEF Handlers
  <2>. QED  BY <2>2
<1>4. ASSUME NEW r \in Runtimes, NEW c \in Calls, IsHosted(r, c) PROVE OutsideRow(c)
  <2>1. PICK n \in Deliveries : /\ <<r, c, n>> \in Handlers /\ <<r, n>> \in winners[c]
                               /\ pc[<<r, c, n>>] \in {"done", "aborted"}
    BY <1>4, HostedByWinner
  <2>2. CASE c = h[2] /\ winners[c] \subseteq {<<h[1], h[3]>>}
    <3>1. <<r, n>> = <<h[1], h[3]>>
      BY <2>1, <2>2
    <3>2. <<r, c, n>> = h
      BY <2>2, <3>1 DEF Handlers
    <3>. QED  BY <2>1, <3>2
  <2>. QED  BY <2>2
<1>5. ASSUME NEW g \in Handlers PROVE HandlerHosting(g)'
  <2>1. HandlerHosting(g)
    BY DEF HostingInvariant
  <2>2. CASE g = h
    BY <1>2, <2>2 DEF HandlerHosting, PastClaim
  <2>3. CASE g # h
    <3>1. Won(g)' <=> Won(g)
      BY <2>3
    <3>2. pc[g] = "start" => row'[g[2]] \in HandedOver(g[1])
      BY <1>0, <1>3, <2>1, <2>3, OutsideRowFacts DEF HandlerHosting, ActivePcs
    <3>. QED  BY <1>2, <2>1, <2>3, <3>1, <3>2 DEF HandlerHosting
  <2>. QED  BY <2>2, <2>3
<1>6. ASSUME NEW c \in Calls PROVE CallHosting(c)'
  <2>1. CallHosting(c)
    BY DEF HostingInvariant
  <2>2. ASSUME NEW r \in Runtimes, IsHosted(r, c)' PROVE row'[c].status \notin Unanswered
    <3>1. IsHosted(r, c) => row'[c].status \notin Unanswered
      BY <1>0, <1>4, <2>1, OutsideRowFacts DEF CallHosting
    <3>. QED  BY <2>2, <3>1
  <2>3. ASSUME NEW g \in Handlers, g[2] = c, Won(g), pc[g] \notin ActivePcs
        PROVE  Won(g)' /\ pc'[g] \notin ActivePcs
    BY <1>2, <2>3 DEF ActivePcs
  <2>4. CASE row[c].endReason \in Plain /\ OutsideRow(c)
    <3>1. row'[c].endReason \in Plain
      BY <1>0, <2>4, OutsideRowFacts
    <3>. QED  BY <2>2, <3>1 DEF CallHosting
  <2>5. CASE row[c].endReason \in Plain /\ row'[c].endReason = row[c].endReason
    BY <2>2, <2>5 DEF CallHosting
  <2>6. CASE c = h[2] /\ Won(h) /\ next \notin ActivePcs
    <3>1. pc'[h] \notin ActivePcs /\ Won(h)'
      BY <1>2, <2>6 DEF ActivePcs
    <3>. QED  BY <2>2, <2>6, <3>1 DEF CallHosting
  <2>7. CASE \E g \in Handlers : g[2] = c /\ Won(g) /\ pc[g] \notin ActivePcs
    BY <2>2, <2>3, <2>7 DEF CallHosting
  <2>. QED  BY <2>1, <2>4, <2>5, <2>6, <2>7 DEF CallHosting
<1>. QED  BY <1>5, <1>6 DEF HostingInvariant

\* What no handler has a part in keeps it, if rows are written by tasks or by strangers.
LEMMA OthersKeepHosting ==
  ASSUME OwnershipInvariant, HostingInvariant, UNCHANGED winners,
         \A g \in Handlers : pc'[g] = "aborted" \/ (pc'[g] = pc[g] /\ why'[g] = why[g]),
         \A r \in Runtimes, c \in Calls : IsHosted(r, c)' => IsHosted(r, c),
         \A c \in Calls : \/ OutsideRow(c)
                          \/ /\ \E r \in Runtimes : IsHosted(r, c)
                             /\ row'[c].status \notin Unanswered
  PROVE  HostingInvariant'
<1> USE HandlerFields
<1>0. TypeOK
  BY DEF OwnershipInvariant
<1>1. \A g \in Handlers : Won(g)' <=> Won(g)
  BY DEF Won
<1>2. ASSUME NEW r \in Runtimes, NEW c \in Calls, IsHosted(r, c)
      PROVE  /\ \E g \in Handlers : g[2] = c /\ Won(g) /\ pc[g] \in {"done", "aborted"}
             /\ \A g \in Handlers : g[2] = c /\ Won(g) => pc[g] \in {"done", "aborted"}
  <2>1. PICK n \in Deliveries : /\ <<r, c, n>> \in Handlers /\ Won(<<r, c, n>>)
                               /\ pc[<<r, c, n>>] \in {"done", "aborted"}
    BY <1>2, HostedByWinner DEF Won
  <2>2. \A g \in Handlers : g[2] = c /\ Won(g) => g = <<r, c, n>>
    BY <2>1, OneWon
  <2>. QED  BY <2>1, <2>2
<1>3. ASSUME NEW g \in Handlers PROVE HandlerHosting(g)'
  <2>1. HandlerHosting(g)
    BY DEF HostingInvariant
  <2>2. CASE pc'[g] = "aborted"
    BY <2>2 DEF HandlerHosting, PastClaim
  <2>3. CASE pc'[g] = pc[g] /\ why'[g] = why[g]
    <3>1. pc[g] = "start" => OutsideRow(g[2])
      <4>1. "start" \in ActivePcs
        BY DEF ActivePcs
      <4>2. pc[g] = "start" => Won(g)
        BY <4>1 DEF OwnershipInvariant, ActiveHandlersWon, Won
      <4>3. ASSUME pc[g] = "start", NEW r \in Runtimes, IsHosted(r, g[2]) PROVE FALSE
        <5>1. g[2] \in Calls
          OBVIOUS
        <5>2. \A f \in Handlers : f[2] = g[2] /\ Won(f) => pc[f] \in {"done", "aborted"}
          BY <1>2, <4>3, <5>1
        <5>. QED  BY <4>2, <4>3, <5>2
      <4>. QED  BY <4>3
    <3>2. pc[g] = "start" => row'[g[2]] \in HandedOver(g[1])
      BY <1>0, <2>1, <3>1, OutsideRowFacts DEF HandlerHosting
    <3>. QED  BY <1>1, <2>1, <2>3, <3>2 DEF HandlerHosting
  <2>. QED  BY <2>2, <2>3
<1>4. ASSUME NEW c \in Calls PROVE CallHosting(c)'
  <2>1. CallHosting(c)
    BY DEF HostingInvariant
  <2>2. ASSUME NEW r \in Runtimes, IsHosted(r, c)' PROVE row'[c].status \notin Unanswered
    BY <1>0, <2>1, <2>2, OutsideRowFacts DEF CallHosting
  <2>3. \A g \in Handlers : pc[g] \notin ActivePcs => pc'[g] \notin ActivePcs
    BY DEF ActivePcs
  <2>4. CASE row[c].endReason \in Plain /\ OutsideRow(c)
    <3>1. row'[c].endReason \in Plain
      BY <1>0, <2>4, OutsideRowFacts
    <3>. QED  BY <2>2, <3>1 DEF CallHosting
  <2>5. CASE \E g \in Handlers : g[2] = c /\ Won(g) /\ pc[g] \notin ActivePcs
    BY <1>1, <2>2, <2>3, <2>5 DEF CallHosting
  <2>6. CASE \E r \in Runtimes : IsHosted(r, c)
    <3>1. \E g \in Handlers : g[2] = c /\ Won(g) /\ pc[g] \notin ActivePcs
      BY <1>2, <2>6 DEF ActivePcs
    <3>. QED  BY <2>5, <3>1
  <2>. QED  BY <2>1, <2>4, <2>5, <2>6 DEF CallHosting
<1>. QED  BY <1>3, <1>4 DEF HostingInvariant

\* The writes of a handler that every call it does not host withstands.
LEMMA HandlerRow ==
  ASSUME OwnershipInvariant, HostingInvariant, NEW h \in Handlers,
         Offer(h) \/ HandlerStep(h) \/ HandlerRaises(h)
  PROVE  \A c \in Calls : \/ OutsideRow(c)
                          \/ /\ c = h[2] /\ winners[c] \subseteq {<<h[1], h[3]>>}
                             /\ \/ row'[c].endReason = row[c].endReason
                                \/ Won(h) /\ CommitFailure(h)
<1> USE HandlerFields
<1>0. /\ row \in [Calls -> CallSession] /\ row[h[2]] \in CallSession /\ why[h] \in EndReasons
      /\ winners \in [Calls -> SUBSET (Runtimes \X Deliveries)]
      /\ "answered" \in VALID_STATUSES /\ "failed" \in VALID_STATUSES /\ "none" \in EndReasons
      /\ "failed" \in TERMINAL_STATUSES /\ "answered" \notin TERMINAL_STATUSES
  BY DEF OwnershipInvariant, TypeOK, VALID_STATUSES, EndReasons, TERMINAL_STATUSES
<1>1. ASSUME UNCHANGED row PROVE \A c \in Calls : OutsideRow(c)
  BY <1>1 DEF OutsideRow
<1>2. ASSUME NEW s, row' = [row EXCEPT ![h[2]] = s],
             \/ s = row[h[2]] \/ \E w \in OutsideReasons : s = WrittenOutside(row[h[2]], w)
             \/ /\ winners[h[2]] \subseteq {<<h[1], h[3]>>}
                /\ s.endReason = row[h[2]].endReason \/ (Won(h) /\ CommitFailure(h))
      PROVE  \A c \in Calls : \/ OutsideRow(c)
                              \/ /\ c = h[2] /\ winners[c] \subseteq {<<h[1], h[3]>>}
                                 /\ \/ row'[c].endReason = row[c].endReason
                                    \/ Won(h) /\ CommitFailure(h)
  <2>1. row'[h[2]] = s /\ \A c \in Calls : c # h[2] => row'[c] = row[c]
    BY <1>0, <1>2
  <2>. QED  BY <1>2, <2>1 DEF OutsideRow
<1>3. Won(h) => winners[h[2]] \subseteq {<<h[1], h[3]>>}
  BY DEF OwnershipInvariant, OneWinner, Won
<1>4. pc[h] \in ActivePcs => Won(h)
  BY DEF OwnershipInvariant, ActiveHandlersWon, Won
<1>5. CASE CreateSession(h)
  <2>1. row' = [row EXCEPT ![h[2]] = CreateCallSession(row[h[2]])]
    BY <1>5 DEF CreateSession
  <2>2. CASE row[h[2]] # NoRow
    BY <1>2, <2>1, <2>2 DEF CreateCallSession
  <2>3. CASE row[h[2]] = NoRow
    <3>1. row[h[2]].status = "absent" /\ h[2] \in Calls
      <4>1. NoRow.status = "absent"
        BY DEF NoRow
      <4>. QED  BY <2>3, <4>1
    <3>3. winners[h[2]] = {}
      BY <3>1 DEF OwnershipInvariant, ClaimIsSpent
    <3>2. CreateCallSession(row[h[2]]).endReason = row[h[2]].endReason
      BY <1>0 DEF CreateCallSession, CallSession
    <3>. QED  BY <1>2, <2>1, <3>2, <3>3
  <2>. QED  BY <2>2, <2>3
<1>6. CASE Assign(h)
  <2>1. CASE ~ MayOwn(row[h[2]], choice[h])
    BY <1>1, <1>6, <2>1 DEF Assign
  <2>2. CASE MayOwn(row[h[2]], choice[h])
    <3> DEFINE s == ClaimRuntimeOwnership(row[h[2]], choice[h])
    <3>1. row' = [row EXCEPT ![h[2]] = s]
      BY <1>6, <2>2 DEF Assign
    <3>2. choice[h] \in Runtimes \cup {NoOwner}
      BY DEF OwnershipInvariant, TypeOK
    <3>3. /\ s \in CallSession /\ s.owner = choice[h] /\ s.status = row[h[2]].status
          /\ s.endReason = row[h[2]].endReason
      BY <1>0, <3>2 DEF ClaimRuntimeOwnership, CallSession
    <3> HIDE DEF s
    <3>4. CASE row[h[2]].owner = choice[h]
      <4>1. s = row[h[2]]
        BY <1>0, <3>3, <3>4 DEF CallSession
      <4>. QED  BY <1>2, <3>1, <4>1
    <3>5. CASE row[h[2]].owner = NoOwner
      <4>1. winners[h[2]] = {}
        <5> SUFFICES ASSUME NEW w \in winners[h[2]] PROVE FALSE
          OBVIOUS
        <5>1. w \in Runtimes \X Deliveries /\ w[1] = row[h[2]].owner
          BY <1>0 DEF OwnershipInvariant, OneWinner
        <5>. QED  BY <3>5, <5>1, OwnerAssumption
      <4>. QED  BY <1>2, <3>1, <3>3, <4>1
    <3>. QED  BY <2>2, <3>4, <3>5 DEF MayOwn
  <2>. QED  BY <2>1, <2>2
<1>7. CASE Claim(h)
  <2>1. CASE ~ MayActivate(row[h[2]])
    BY <1>1, <1>7, <2>1 DEF Claim
  <2>2. CASE MayActivate(row[h[2]])
    <3>1. winners[h[2]] = {}
      BY <2>2 DEF OwnershipInvariant, ClaimIsSpent, MayActivate
    <3>2. ClaimCallForActivation(row[h[2]]).endReason = row[h[2]].endReason
      BY <1>0 DEF ClaimCallForActivation, CallSession
    <3>. QED  BY <1>2, <1>7, <2>2, <3>1, <3>2 DEF Claim
  <2>. QED  BY <2>1, <2>2
<1>8. CASE CommitAnswered(h)
  <2>1. Won(h)
    BY <1>4, <1>8 DEF CommitAnswered, ActivePcs
  <2>2. Written(row[h[2]], "answered", "none").endReason = row[h[2]].endReason
    BY <1>0, WrittenFields
  <2>. QED  BY <1>2, <1>3, <1>8, <2>1, <2>2 DEF CommitAnswered
<1>9. CASE CommitFailure(h)
  <2>1. CASE why[h] = "media_unavailable" /\ Won(h)
    BY <1>2, <1>3, <1>9, <2>1 DEF CommitFailure
  <2>2. CASE why[h] \in {"no_capacity", "authorization_denied"}
    <3>1. PICK w \in OutsideReasons : w = why[h] /\ w # "runtime_crashed"
      BY <2>2 DEF OutsideReasons
    <3>2. WrittenOutside(row[h[2]], w) = Written(row[h[2]], "failed", why[h])
      BY <3>1 DEF WrittenOutside
    <3>. QED  BY <1>2, <1>9, <3>2 DEF CommitFailure
  <2>. QED  BY <1>9, <2>1, <2>2 DEF CommitFailure, HostingInvariant, HandlerHosting
<1>. QED
  BY <1>1, <1>5, <1>6, <1>7, <1>8, <1>9
     DEF HandlerStep, Offer, RefuseRoute, Authorize, ReadHeartbeats, Answer,
         WaitForAnswered, MarkAnswered, StartCall, FailCall, Reject, HandlerRaises

\* Every step of a handler keeps the invariant.
LEMMA HandlerKeepsHosting ==
  ASSUME OwnershipInvariant, HostingInvariant, NEW h \in Handlers,
         Offer(h) \/ HandlerStep(h) \/ HandlerRaises(h)
  PROVE  HostingInvariant'
<1> USE HandlerFields
<1>0. /\ row \in [Calls -> CallSession] /\ row[h[2]] \in CallSession
      /\ winners \in [Calls -> SUBSET (Runtimes \X Deliveries)]
      /\ task \in [Runtimes \X Calls -> TaskPcs]
      /\ h[1] \in Runtimes /\ h[2] \in Calls
  BY DEF OwnershipInvariant, TypeOK
<1>1. HandlerHosting(h) /\ CallHosting(h[2])
  BY DEF HostingInvariant
<1>2. pc[h] \in ActivePcs => Won(h)
  BY DEF OwnershipInvariant, ActiveHandlersWon, Won
<1>3. ASSUME NEW next, NEW sel, NEW reason, Step(h, next, sel, reason),
             pc[h] \notin {"done", "aborted"}, UNCHANGED <<winners, task>>,
             Won(h) => next \in PastClaim,
             Won(h) /\ pc[h] \notin ActivePcs => next \notin ActivePcs,
             next \in {"fail", "failing"} =>
               \/ reason \in {"no_capacity", "authorization_denied"}
               \/ reason = "media_unavailable" /\ Won(h),
             next = "start" => row'[h[2]] \in HandedOver(h[1])
      PROVE  HostingInvariant'
  <2>1. \A g \in Handlers : Won(g)' <=> Won(g)
    BY <1>3 DEF Won
  <2>2. \A r \in Runtimes, c \in Calls : IsHosted(r, c)' => IsHosted(r, c)
    BY <1>3 DEF IsHosted, Step
  <2>3. CommitFailure(h) => pc[h] \notin ActivePcs
    BY DEF CommitFailure, ActivePcs
  <2>4. \A c \in Calls : \/ OutsideRow(c)
                         \/ /\ c = h[2] /\ winners[c] \subseteq {<<h[1], h[3]>>}
                            /\ \/ row'[c].endReason = row[c].endReason
                               \/ Won(h) /\ next \notin ActivePcs
    BY <1>3, <2>3, HandlerRow
  <2>. QED  BY <1>3, <2>1, <2>2, <2>4, MoveKeepsHosting
<1>4. ASSUME NEW next, NEW sel, NEW reason, Step(h, next, sel, reason),
             pc[h] \notin PastClaim, UNCHANGED <<winners, task>>, next # "start",
             next \in {"fail", "failing"} => reason \in {"no_capacity", "authorization_denied"}
      PROVE  HostingInvariant'
  BY <1>1, <1>3, <1>4 DEF HandlerHosting, PastClaim
<1>5. CASE Offer(h)
  BY <1>4, <1>5 DEF Offer, Goto, PastClaim, ActivePcs
<1>6. CASE RefuseRoute(h)
  BY <1>4, <1>6 DEF RefuseRoute, Goto, PastClaim, ActivePcs
<1>7. CASE CreateSession(h)
  <2>1. PICK next \in {"authorize", "done"} : Goto(h, next)
    BY <1>7 DEF CreateSession
  <2>. QED  BY <1>4, <1>7, <2>1 DEF CreateSession, Goto, PastClaim, ActivePcs
<1>8. CASE Authorize(h)
  BY <1>4, <1>8 DEF Authorize, Goto, GotoFail, PastClaim, ActivePcs
<1>9. CASE ReadHeartbeats(h)
  BY <1>4, <1>9 DEF ReadHeartbeats, GotoFail, PastClaim, ActivePcs
<1>10. CASE Assign(h)
  <2>1. PICK next \in {"claim", "done"} : Goto(h, next)
    BY <1>10 DEF Assign
  <2>. QED  BY <1>4, <1>10, <2>1 DEF Assign, Goto, PastClaim, ActivePcs
<1>11. CASE Claim(h)
  <2>1. CASE ~ MayActivate(row[h[2]])
    BY <1>4, <1>11, <2>1 DEF Claim, Goto, PastClaim, ActivePcs
  <2>2. CASE MayActivate(row[h[2]])
    <3>1. /\ Step(h, "answer", NoOwner, "none") /\ UNCHANGED task /\ pc[h] = "claim"
          /\ winners' = [winners EXCEPT ![h[2]] = @ \cup {<<h[1], h[3]>>}]
      BY <1>11, <2>2 DEF Claim, Goto
    <3>2. /\ \A c \in Calls : c # h[2] => winners'[c] = winners[c]
          /\ winners'[h[2]] = winners[h[2]] \cup {<<h[1], h[3]>>}
      BY <1>0, <3>1
    <3>3. \A g \in Handlers : Won(g)' <=> Won(g) \/ (g = h /\ Won(h)')
      <4> SUFFICES ASSUME NEW g \in Handlers
                   PROVE  Won(g)' <=> Won(g) \/ (g = h /\ Won(h)')
        OBVIOUS
      <4>1. CASE g[2] # h[2]
        <5>1. winners'[g[2]] = winners[g[2]]
          BY <3>2, <4>1
        <5>. QED  BY <4>1, <5>1 DEF Won
      <4>2. CASE g[2] = h[2]
        <5>1. Won(g)' <=> Won(g) \/ <<g[1], g[3]>> = <<h[1], h[3]>>
          BY <3>2, <4>2 DEF Won
        <5>2. Won(h)'
          BY <3>2 DEF Won
        <5>3. <<g[1], g[3]>> = <<h[1], h[3]>> <=> g = h
          BY <4>2 DEF Handlers
        <5>. QED  BY <5>1, <5>2, <5>3
      <4>. QED  BY <4>1, <4>2
    <3>4. \A r \in Runtimes, c \in Calls : IsHosted(r, c)' => IsHosted(r, c)
      BY <3>1 DEF IsHosted, Step
    <3>5. \A c \in Calls : \/ OutsideRow(c)
                           \/ /\ c = h[2] /\ winners[c] \subseteq {<<h[1], h[3]>>}
                              /\ row'[c].endReason = row[c].endReason
      BY <3>1, HandlerRow DEF CommitFailure
    <3>6. ~ Won(h)
      BY <1>1, <3>1 DEF HandlerHosting, PastClaim, ActivePcs
    <3>7. "answer" \in PastClaim
      BY DEF PastClaim, ActivePcs
    <3>. QED  BY <3>1, <3>3, <3>4, <3>5, <3>6, <3>7, MoveKeepsHosting
  <2>. QED  BY <2>1, <2>2
<1>12. CASE Answer(h)
  <2>1. PICK next, reason : /\ next = "waiting" \/ (next = "fail" /\ reason = "media_unavailable")
                            /\ Step(h, next, NoOwner, reason)
    BY <1>12 DEF Answer, Goto, GotoFail
  <2>. QED  BY <1>2, <1>3, <1>12, <2>1 DEF Answer, PastClaim, ActivePcs
<1>13. CASE WaitForAnswered(h)
  <2>1. PICK next, reason : /\ next = "mark" \/ (next = "fail" /\ reason = "media_unavailable")
                            /\ Step(h, next, NoOwner, reason)
    BY <1>13 DEF WaitForAnswered, Goto, GotoFail
  <2>. QED  BY <1>2, <1>3, <1>13, <2>1 DEF WaitForAnswered, PastClaim, ActivePcs
<1>14. CASE pc[h] \in ActivePcs
  <2>1. Won(h)
    BY <1>2, <1>14
  <2>2. row[h[2]].owner = h[1]
    <3>1. <<h[1], h[3]>>[1] = row[h[2]].owner
      BY <2>1 DEF OwnershipInvariant, OneWinner, Won
    <3>. QED  BY <3>1
  <2>3. row[h[2]].endReason \in Plain
    <3>1. \A g \in Handlers : g[2] = h[2] /\ Won(g) => g = h
      BY <2>1, OneWon
    <3>. QED  BY <1>1, <1>14, <3>1 DEF CallHosting
  <2>4. ASSUME UNCHANGED row, row[h[2]].status = "answered"
        PROVE  row'[h[2]] \in HandedOver(h[1])
    BY <1>0, <2>2, <2>3, <2>4, HandedOverIs DEF HandedOverRow
  <2>5. CASE MarkAnswered(h)
    <3>1. PICK next \in {"marking", "start", "aborted"} :
            /\ Step(h, next, NoOwner, "none") /\ UNCHANGED <<row, winners, task>>
            /\ next = "start" => Verdict(row[h[2]], "answered", h[1]) = "same"
      <4>1. CASE Verdict(row[h[2]], "answered", h[1]) = "write"
        BY <2>5, <4>1 DEF MarkAnswered, Goto
      <4>2. CASE Verdict(row[h[2]], "answered", h[1]) = "same"
        BY <2>5, <4>2 DEF MarkAnswered, Goto
      <4>3. CASE Verdict(row[h[2]], "answered", h[1]) \notin {"write", "same"}
        BY <2>5, <4>3 DEF MarkAnswered, Goto
      <4>. QED  BY <4>1, <4>2, <4>3
    <3>2. Verdict(row[h[2]], "answered", h[1]) = "same" => row[h[2]].status = "answered"
      BY DEF Verdict
    <3>3. next = "start" => row'[h[2]] \in HandedOver(h[1])
      BY <2>4, <3>1, <3>2
    <3>. QED  BY <1>3, <1>14, <3>1, <3>3 DEF PastClaim, ActivePcs
  <2>6. CASE CommitAnswered(h)
    <3> DEFINE s == Written(row[h[2]], "answered", "none")
    <3>1. /\ row' = [row EXCEPT ![h[2]] = s] /\ UNCHANGED <<winners, task>>
          /\ Step(h, "start", NoOwner, "none")
      BY <2>6 DEF CommitAnswered, Goto
    <3>2. s \in CallSession /\ s.owner = h[1] /\ s.status = "answered" /\ s.endReason \in Plain
      <4>1. "answered" \in VALID_STATUSES /\ "none" \in EndReasons
        BY DEF VALID_STATUSES, EndReasons
      <4>. QED  BY <1>0, <2>2, <2>3, <4>1, WrittenFields
    <3> HIDE DEF s
    <3>3. row'[h[2]] = s
      BY <1>0, <3>1
    <3>4. row'[h[2]] \in HandedOver(h[1])
      BY <3>2, <3>3, HandedOverIs DEF HandedOverRow
    <3>. QED  BY <1>3, <1>14, <3>1, <3>4 DEF PastClaim, ActivePcs
  <2>7. CASE StartCall(h)
    <3>1. /\ pc[h] = "start" /\ UNCHANGED <<row, winners, late>>
          /\ Step(h, "done", NoOwner, "none")
          /\ \A k \in Runtimes \X Calls : k # <<h[1], h[2]>> => task'[k] = task[k]
      BY <1>0, <2>7 DEF StartCall, Goto, Step
    <3>2. row'[h[2]].status \notin Unanswered
      <4>1. HandedOverRow(row[h[2]], h[1])
        BY <1>1, <3>1, HandedOverIs DEF HandlerHosting
      <4>. QED  BY <3>1, <4>1 DEF HandedOverRow, Unanswered
    <3>3. ASSUME NEW r \in Runtimes, NEW c \in Calls, IsHosted(r, c)'
          PROVE  IsHosted(r, c) \/ row'[c].status \notin Unanswered
      <4>1. CASE <<r, c>> = <<h[1], h[2]>>
        BY <3>2, <4>1
      <4>2. CASE <<r, c>> # <<h[1], h[2]>>
        BY <3>1, <3>3, <4>2 DEF IsHosted
      <4>. QED  BY <4>1, <4>2
    <3>4. \A c \in Calls : OutsideRow(c)
      BY <3>1 DEF OutsideRow
    <3>5. \A g \in Handlers : Won(g)' <=> Won(g)
      BY <3>1 DEF Won
    <3>6. "done" \in PastClaim /\ "done" \notin ActivePcs
      BY DEF PastClaim, ActivePcs
    <3>. QED  BY <3>1, <3>3, <3>4, <3>5, <3>6, MoveKeepsHosting
  <2>. QED
    BY <1>12, <1>13, <1>14, <2>5, <2>6, <2>7, <1>3
       DEF HandlerStep, Offer, RefuseRoute, CreateSession, Authorize, ReadHeartbeats, Assign,
           Claim, FailCall, CommitFailure, Reject, HandlerRaises, ActivePcs, PastClaim, Goto
<1>15. CASE FailCall(h)
  <2>1. PICK next \in {"failing", "reject", "aborted"} : Step(h, next, NoOwner, why[h])
    BY <1>15 DEF FailCall
  <2>. QED
    BY <1>1, <1>3, <1>15, <2>1 DEF FailCall, HandlerHosting, PastClaim, ActivePcs
<1>16. CASE CommitFailure(h)
  BY <1>3, <1>16 DEF CommitFailure, PastClaim, ActivePcs
<1>17. CASE Reject(h)
  BY <1>3, <1>17 DEF Reject, Goto, PastClaim, ActivePcs
<1>18. CASE HandlerRaises(h)
  BY <1>3, <1>18 DEF HandlerRaises, Live, LivePcs, DbPcs, Goto, PastClaim, ActivePcs
<1>. QED
  BY <1>5, <1>6, <1>7, <1>8, <1>9, <1>10, <1>11, <1>12, <1>13, <1>14, <1>15, <1>16, <1>17,
     <1>18 DEF HandlerStep, MarkAnswered, CommitAnswered, StartCall, ActivePcs

\* A write of a task leaves a call answered.
LEMMA TaskRow ==
  ASSUME NEW s \in CallSession, NEW w \in TaskWrites
  PROVE  /\ WrittenBy(s, w) \in CallSession /\ WrittenBy(s, w).status \notin Unanswered
         /\ WrittenBy(s, w).owner = s.owner
<1>1. WriteStatus[w] \in VALID_STATUSES /\ WriteReason[w] \in EndReasons
      /\ WriteStatus[w] \notin Unanswered
  BY WriteFacts DEF Unanswered, VALID_STATUSES
<1>. QED  BY <1>1, WrittenFields DEF WrittenBy

\* A task writes the row of no call but the one it hosts, and hosts no other.
LEMMA TaskKeepsHosting ==
  ASSUME OwnershipInvariant, HostingInvariant, NEW r \in Runtimes, NEW c \in Calls,
         TaskStep(r, c)
  PROVE  HostingInvariant'
<1>0. TypeOK /\ row \in [Calls -> CallSession]
  BY DEF OwnershipInvariant, TypeOK
<1>1. /\ UNCHANGED <<pc, why, winners>> /\ IsHosted(r, c)
      /\ \A k \in Runtimes \X Calls : k # <<r, c>> => task'[k] = task[k] /\ late'[k] = late[k]
      /\ UNCHANGED row \/ \E w \in TaskWrites : row' = [row EXCEPT ![c] = WrittenBy(@, w)]
  BY <1>0, TaskMoves
<1>2. ASSUME NEW q \in Runtimes, NEW d \in Calls, IsHosted(q, d)' PROVE IsHosted(q, d)
  <2>1. CASE <<q, d>> = <<r, c>>
    BY <1>1, <2>1
  <2>2. CASE <<q, d>> # <<r, c>>
    BY <1>1, <1>2, <2>2 DEF IsHosted
  <2>. QED  BY <2>1, <2>2
<1>3. ASSUME NEW d \in Calls
      PROVE  \/ OutsideRow(d)
             \/ (\E q \in Runtimes : IsHosted(q, d)) /\ row'[d].status \notin Unanswered
  <2>1. CASE UNCHANGED row
    BY <2>1 DEF OutsideRow
  <2>2. ASSUME NEW w \in TaskWrites, row' = [row EXCEPT ![c] = WrittenBy(@, w)]
        PROVE  \/ OutsideRow(d)
               \/ (\E q \in Runtimes : IsHosted(q, d)) /\ row'[d].status \notin Unanswered
    <3>1. CASE d # c
      <4>1. row'[d] = row[d]
        BY <1>0, <2>2, <3>1
      <4>. QED  BY <4>1 DEF OutsideRow
    <3>2. CASE d = c
      <4>1. row'[d] = WrittenBy(row[c], w)
        BY <1>0, <2>2, <3>2
      <4>. QED  BY <1>0, <1>1, <3>2, <4>1, TaskRow
    <3>. QED  BY <3>1, <3>2
  <2>. QED  BY <1>1, <2>1, <2>2
<1>. QED  BY <1>1, <1>2, <1>3, OthersKeepHosting

\* What the reconciler and the life of a process are to a call.
LEMMA ReconcileFacts ==
  ASSUME TypeOK, ReconcileNext
  PROVE  /\ UNCHANGED <<pc, why, winners, task, late, mode>>
         /\ \A c \in Calls : OutsideRow(c)
<1>1. CASE UNCHANGED row
  BY <1>1 DEF OutsideRow, ReconcileNext, ReconcileReadHeartbeats, ReconcileList,
              ReconcileRead, ReconcileCommit, handlerVars
<1>2. ASSUME NEW c \in Calls, ReconcileCommit(c)
      PROVE  /\ UNCHANGED <<pc, why, winners, task, late, mode>>
             /\ \A d \in Calls : OutsideRow(d)
  <2>1. PICK w \in OutsideReasons : w = "runtime_crashed"
    BY DEF OutsideReasons
  <2>2. WrittenOutside(row[c], w) = Written(row[c], "interrupted", "runtime_crashed")
    BY <2>1 DEF WrittenOutside
  <2>3. /\ row' = [row EXCEPT ![c] = Written(@, "interrupted", "runtime_crashed")]
        /\ UNCHANGED <<pc, why, winners, task, late, mode>>
    BY <1>2 DEF ReconcileCommit, handlerVars
  <2>4. row'[c] = WrittenOutside(row[c], w) /\ \A d \in Calls : d # c => row'[d] = row[d]
    BY <2>2, <2>3 DEF TypeOK
  <2>. QED  BY <2>3, <2>4 DEF OutsideRow
<1>. QED
  BY <1>1, <1>2 DEF ReconcileNext, ReconcileReadHeartbeats, ReconcileList, ReconcileRead

LEMMA RuntimeFacts ==
  ASSUME TypeOK, RuntimeNext
  PROVE  /\ UNCHANGED <<row, why, winners>>
         /\ \A h \in Handlers : pc'[h] \in {pc[h], "aborted"}
         /\ \A r \in Runtimes, c \in Calls :
              \/ /\ UNCHANGED <<task[<<r, c>>], late[<<r, c>>]>>
                 /\ mode'[r] = mode[r] \/ mode'[r] = "stopping"
                    \/ (mode[r] = "up" /\ mode'[r] = "draining")
              \/ task'[<<r, c>>] = "none" /\ late'[<<r, c>>] = {} /\ mode'[r] = "down"
<1>0. PICK q \in Runtimes : \/ WriteHeartbeat(q) \/ HeartbeatExpires(q) \/ Drain(q)
                            \/ StopRuntime(q) \/ Exit(q) \/ Crash(q)
  BY DEF RuntimeNext
<1>1. CASE WriteHeartbeat(q) \/ HeartbeatExpires(q)
  BY <1>1 DEF WriteHeartbeat, HeartbeatExpires, handlerVars
<1>2. CASE Drain(q)
  BY <1>2 DEF Drain, TypeOK
<1>3. CASE StopRuntime(q)
  BY <1>3 DEF StopRuntime, handlerVars, TypeOK
<1>4. CASE Exit(q) \/ Crash(q)
  <2>1. Ended(q)
    BY <1>4 DEF Exit, Crash
  <2>2. ASSUME NEW r \in Runtimes, NEW c \in Calls
        PROVE  IF r = q THEN task'[<<r, c>>] = "none" /\ late'[<<r, c>>] = {} /\ mode'[r] = "down"
               ELSE UNCHANGED <<task[<<r, c>>], late[<<r, c>>], mode[r]>>
    <3>1. /\ task' = [k \in Runtimes \X Calls |-> IF k[1] = q THEN "none" ELSE task[k]]
          /\ late' = [k \in Runtimes \X Calls |-> IF k[1] = q THEN {} ELSE late[k]]
      BY <2>1 DEF Ended
    <3>2. <<r, c>> \in Runtimes \X Calls /\ <<r, c>>[1] = r
      OBVIOUS
    <3>3. /\ task'[<<r, c>>] = IF r = q THEN "none" ELSE task[<<r, c>>]
          /\ late'[<<r, c>>] = IF r = q THEN {} ELSE late[<<r, c>>]
      BY <3>1, <3>2
    <3>4. mode'[r] = IF r = q THEN "down" ELSE mode[r]
      BY <2>1 DEF Ended, TypeOK
    <3>. QED  BY <3>3, <3>4
  <2>3. \A h \in Handlers : pc'[h] \in {pc[h], "aborted"}
    BY <2>1 DEF Ended
  <2>. QED  BY <2>1, <2>2, <2>3 DEF Ended
<1>. QED  BY <1>0, <1>1, <1>2, <1>3, <1>4

LEMMA HostingInductive ==
  ASSUME OwnershipInvariant, HostingInvariant, [Next]_vars
  PROVE  HostingInvariant'
<1>0. TypeOK
  BY DEF OwnershipInvariant
<1>1. CASE HandlerNext
  BY <1>1, HandlerKeepsHosting DEF HandlerNext
<1>2. CASE TaskNext
  BY <1>2, TaskKeepsHosting DEF TaskNext
<1>3. CASE ReconcileNext
  BY <1>0, <1>3, ReconcileFacts, OthersKeepHosting DEF IsHosted
<1>4. CASE RuntimeNext
  <2>1. \A c \in Calls : OutsideRow(c)
    BY <1>0, <1>4, RuntimeFacts DEF OutsideRow
  <2>2. \A r \in Runtimes, c \in Calls : IsHosted(r, c)' => IsHosted(r, c)
    BY <1>0, <1>4, RuntimeFacts DEF IsHosted
  <2>3. \A h \in Handlers : pc'[h] \in {pc[h], "aborted"} /\ why'[h] = why[h]
    BY <1>0, <1>4, RuntimeFacts
  <2>4. UNCHANGED winners
    BY <1>0, <1>4, RuntimeFacts
  <2>. QED  BY <2>1, <2>2, <2>3, <2>4, OthersKeepHosting
<1>5. CASE UNCHANGED vars
  BY <1>5, OthersKeepHosting DEF vars, handlerVars, IsHosted, OutsideRow
<1>. QED  BY <1>1, <1>2, <1>3, <1>4, <1>5 DEF Next

LEMMA InitHosting == Init => HostingInvariant
<1> SUFFICES ASSUME Init PROVE HostingInvariant
  OBVIOUS
<1>1. \A h \in Handlers : pc[h] = "none" /\ ~ Won(h)
  BY HandlerFields DEF Init, Won
<1>2. \A c \in Calls : row[c].endReason \in Plain
  <2>1. NoRow.endReason = "none"
    BY DEF NoRow
  <2>. QED  BY <2>1 DEF Init, Plain
<1>3. \A r \in Runtimes, c \in Calls : ~ IsHosted(r, c)
  BY DEF Init, IsHosted
<1>. QED  BY <1>1, <1>2, <1>3 DEF HostingInvariant, HandlerHosting, CallHosting

\* A step that leaves the task of a call alone keeps its contract, if it writes the row
\* like a stranger at most.
LEMMA FrameKeepsContract ==
  ASSUME NEW r \in Runtimes, NEW c \in Calls,
         IsHosted(r, c) => OutsideRow(c),
         UNCHANGED <<task[<<r, c>>], late[<<r, c>>], mode[r]>>
  PROVE  [KeepsContract(r, c)]_(Hosted(r, c)!vars)
<1>1. CASE ~ IsHosted(r, c)
  BY <1>1 DEF IsHosted, KeepsContract
<1>2. CASE IsHosted(r, c) /\ row'[c] = row[c]
  BY <1>2 DEF Hosted!vars
<1>3. ASSUME IsHosted(r, c), NEW w \in OutsideReasons, row'[c] = WrittenOutside(row[c], w)
      PROVE  KeepsContract(r, c)
  <2>1. w \in Hosted(r, c)!OutsideReasons
    BY SameWrites
  <2>2. Hosted(r, c)!WrittenOutside(row[c], w) = WrittenOutside(row[c], w)
    BY SameRows
  <2>3. Hosted(r, c)!OutsiderCommits
    BY <1>3, <2>1, <2>2 DEF Hosted!OutsiderCommits
  <2>. QED  BY <1>3, <2>3 DEF KeepsContract, Hosted!Next, Hosted!FleetNext
<1>. QED  BY <1>1, <1>2, <1>3 DEF OutsideRow

\* One process at most hosts a call.
LEMMA OneHost ==
  ASSUME OwnershipInvariant, NEW r \in Runtimes, NEW q \in Runtimes, NEW c \in Calls,
         IsHosted(r, c), IsHosted(q, c)
  PROVE  q = r
<1>1. PICK n \in Deliveries : <<r, n>> \in winners[c]
  BY HostedByWinner
<1>2. PICK m \in Deliveries : <<q, m>> \in winners[c]
  BY HostedByWinner
<1>3. <<r, n>>[1] = row[c].owner /\ <<q, m>>[1] = row[c].owner
  BY <1>1, <1>2 DEF OwnershipInvariant, OneWinner
<1>. QED  BY <1>3

\* A handler does to a hosted call what a stranger does, and takes it on once.
LEMMA HandlerKeepsContract ==
  ASSUME OwnershipInvariant, HostingInvariant, NEW h \in Handlers,
         Offer(h) \/ HandlerStep(h) \/ HandlerRaises(h),
         NEW r \in Runtimes, NEW c \in Calls
  PROVE  [KeepsContract(r, c)]_(Hosted(r, c)!vars)
<1> USE HandlerFields
<1>0. pc \in [Handlers -> HandlerPcs] /\ task \in [Runtimes \X Calls -> TaskPcs]
  BY DEF OwnershipInvariant, TypeOK
<1>1. pc[h] \notin {"done", "aborted"}
  BY DEF HandlerStep, Offer, RefuseRoute, CreateSession, Authorize, ReadHeartbeats, Assign,
         Claim, Answer, WaitForAnswered, MarkAnswered, CommitAnswered, StartCall, FailCall,
         CommitFailure, Reject, HandlerRaises, Live, LivePcs, DbPcs
<1>2. UNCHANGED <<late, mode>>
  BY DEF HandlerStep, Offer, RefuseRoute, CreateSession, Authorize, ReadHeartbeats, Assign,
         Claim, Answer, WaitForAnswered, MarkAnswered, CommitAnswered, StartCall, FailCall,
         CommitFailure, Reject, HandlerRaises, Goto, GotoFail, Step
<1>3. ASSUME IsHosted(r, c)
      PROVE  OutsideRow(c) /\ ~ (StartCall(h) /\ h[1] = r /\ h[2] = c)
  <2>1. PICK n \in Deliveries : /\ <<r, c, n>> \in Handlers /\ <<r, n>> \in winners[c]
                               /\ pc[<<r, c, n>>] \in {"done", "aborted"}
    BY <1>3, HostedByWinner
  <2>2. ASSUME c = h[2], winners[c] \subseteq {<<h[1], h[3]>>} PROVE FALSE
    <3>1. <<r, n>> = <<h[1], h[3]>>
      BY <2>1, <2>2
    <3>2. <<r, c, n>> = h
      BY <2>2, <3>1 DEF Handlers
    <3>. QED  BY <1>1, <2>1, <3>2
  <2>3. OutsideRow(c)
    BY <2>2, HandlerRow
  <2>4. ASSUME StartCall(h), h[2] = c PROVE FALSE
    <3>1. <<h[1], h[3]>> \in winners[c]
      BY <2>4 DEF StartCall, OwnershipInvariant, ActiveHandlersWon, ActivePcs
    <3>2. winners[c] \subseteq {<<h[1], h[3]>>}
      BY <3>1 DEF OwnershipInvariant, OneWinner
    <3>. QED  BY <2>2, <2>4, <3>2
  <2>. QED  BY <2>3, <2>4
<1>4. CASE UNCHANGED task[<<r, c>>]
  BY <1>2, <1>3, <1>4, FrameKeepsContract
<1>5. CASE ~ UNCHANGED task[<<r, c>>]
  <2>1. StartCall(h)
    BY <1>5 DEF HandlerStep, Offer, RefuseRoute, CreateSession, Authorize, ReadHeartbeats,
           Assign, Claim, Answer, WaitForAnswered, MarkAnswered, CommitAnswered, FailCall,
           CommitFailure, Reject, HandlerRaises
  <2>2. <<r, c>> = <<h[1], h[2]>>
    BY <1>0, <1>5, <2>1 DEF StartCall
  <2>3. ~ IsHosted(r, c)
    BY <1>3, <2>1, <2>2
  <2>4. task'[<<r, c>>] = "starting" /\ late'[<<r, c>>] = {}
    BY <1>0, <1>2, <2>1, <2>2, <2>3 DEF StartCall, IsHosted
  <2>5. row'[c] \in HandedOver(r)
    BY <2>1, <2>2 DEF StartCall, HostingInvariant, HandlerHosting
  <2>6. Hosted(r, c)!HandedOver(r) = HandedOver(r)
    <3>1. \A a, w : Hosted(r, c)!WrittenOutside(a, w) = WrittenOutside(a, w)
      BY SameRows
    <3>2. Hosted(r, c)!OutsideReasons = OutsideReasons
      BY SameWrites
    <3>. QED  BY <3>1, <3>2 DEF Hosted!HandedOver, HandedOver
  <2>7. Hosted(r, c)!Init'
    BY <2>4, <2>5, <2>6 DEF Hosted!Init
  <2>. QED  BY <2>3, <2>7 DEF KeepsContract
<1>. QED  BY <1>4, <1>5

\* Which writes the row of a hosted call is open to.
LEMMA HostedVerdict ==
  ASSUME NEW s \in CallSession, s.status \notin Unanswered, NEW r
  PROVE  /\ \A w \in FinalWrites :
              IF IsTerminal(s) THEN WriteVerdict(s, w, r) # "write"
                               ELSE WriteVerdict(s, w, r) = "write"
         /\ \A w \in OwnerWrites :
              WriteVerdict(s, w, r) = "same" => s.status = WriteStatus[w]
<1>1. s.status \in {"answered", "in_progress"} \cup TERMINAL_STATUSES
  BY DEF CallSession, VALID_STATUSES, Unanswered, TERMINAL_STATUSES
<1>2. \A w \in FinalWrites : WriteStatus[w] \in TERMINAL_STATUSES /\ w \notin OwnerWrites
  BY DEF FinalWrites, OwnerWrites, WriteStatus, TERMINAL_STATUSES
<1>3. ASSUME NEW w \in FinalWrites
      PROVE  IF IsTerminal(s) THEN WriteVerdict(s, w, r) # "write"
                              ELSE WriteVerdict(s, w, r) = "write"
  <2>1. WriteVerdict(s, w, r) = Verdict(s, WriteStatus[w], NoOwner)
    BY <1>2 DEF WriteVerdict
  <2>2. PICK to \in TERMINAL_STATUSES : to = WriteStatus[w]
    BY <1>2
  <2>3. CASE IsTerminal(s)
    BY <2>1, <2>2, <2>3
       DEF Verdict, IsTerminal, IsValidTransition, Transitions, TERMINAL_STATUSES
  <2>4. CASE ~ IsTerminal(s)
    BY <1>1, <2>1, <2>2, <2>4
       DEF Verdict, IsTerminal, IsValidTransition, Transitions, TERMINAL_STATUSES
  <2>. QED  BY <2>3, <2>4
<1>4. \A w \in OwnerWrites : WriteVerdict(s, w, r) = "same" => s.status = WriteStatus[w]
  BY DEF WriteVerdict, Verdict
<1>. QED  BY <1>3, <1>4

\* A decision of the task is one that the contract allows it: the row it reads has been
\* answered, so that a final target is refused only where nothing can be written.
LEMMA DecisionKeepsContract ==
  ASSUME OwnershipInvariant, HostingInvariant, NEW r \in Runtimes, NEW c \in Calls,
         TaskDecides(r, c)
  PROVE  Hosted(r, c)!Next
<1>0. /\ task \in [Runtimes \X Calls -> TaskPcs] /\ row[c] \in CallSession
      /\ UNCHANGED <<row, late, mode>>
  BY DEF OwnershipInvariant, TypeOK, TaskDecides, TaskGoto
<1> DEFINE verdict(e) == WriteVerdict(row[c], e, r)
<1>1. PICK w \in Hosted(r, c)!Open(task[<<r, c>>]) :
        TaskGoto(<<r, c>>,
            CASE verdict(w) = "write" -> w
              [] w = "progress" /\ verdict(w) = "same" -> "talking"
              [] w \in OwnerWrites /\ verdict(w) \notin {"write", "same"} -> "ending"
              [] /\ w \in FinalWrites /\ verdict(w) = "invalid"
                 /\ verdict("interrupting") = "write" -> "interrupting"
              [] OTHER -> "none")
  BY DEF TaskDecides
<1>2. task'[<<r, c>>] =
            CASE verdict(w) = "write" -> w
              [] w = "progress" /\ verdict(w) = "same" -> "talking"
              [] w \in OwnerWrites /\ verdict(w) \notin {"write", "same"} -> "ending"
              [] /\ w \in FinalWrites /\ verdict(w) = "invalid"
                 /\ verdict("interrupting") = "write" -> "interrupting"
              [] OTHER -> "none"
  BY <1>0, <1>1 DEF TaskGoto
<1>3. \/ task[<<r, c>>] = "starting" /\ w \in OwnerWrites /\ (w = "denying" => "deny" \in Faults)
      \/ task[<<r, c>>] = "ending" /\ w \in FinalWrites
  BY <1>1, SameWrites DEF Hosted!Open
<1>4. OwnerWrites = {"progress", "denying"} /\ \A e \in FinalWrites : e \notin OwnerWrites
      /\ "interrupting" \in FinalWrites
  BY DEF OwnerWrites, FinalWrites
<1>5. row[c].status \notin Unanswered
  BY <1>3 DEF HostingInvariant, CallHosting, IsHosted
<1>6. /\ \A e \in FinalWrites : IsTerminal(row[c]) <=> verdict(e) # "write"
      /\ \A e \in OwnerWrites : verdict(e) = "same" => row[c].status = WriteStatus[e]
  BY <1>0, <1>5, HostedVerdict
<1>7. WriteStatus["progress"] = "in_progress" /\ WriteStatus["denying"] = "failed"
  BY DEF WriteStatus
<1>8. Hosted(r, c)!WriteVerdict(row[c], w, r) = verdict(w)
  BY SameRows
<1>9. Hosted(r, c)!IsTerminal(row[c]) <=> IsTerminal(row[c])
  BY SameRows
<1> HIDE DEF verdict
<1>10. CASE verdict(w) = "write"
  <2>1. task'[<<r, c>>] = w
    BY <1>2, <1>10
  <2>2. Hosted(r, c)!Decides
    BY <1>0, <1>1, <1>8, <1>10, <2>1 DEF Hosted!Decides
  <2>. QED  BY <2>2 DEF Hosted!Next, Hosted!TaskNext
<1>11. CASE verdict(w) # "write" /\ task[<<r, c>>] = "ending"
  <2>1. w \in FinalWrites
    BY <1>3, <1>11
  <2>2. task'[<<r, c>>] = "none" /\ IsTerminal(row[c])
    BY <1>2, <1>4, <1>6, <1>11, <2>1
  <2>3. Hosted(r, c)!Leaves
    BY <1>0, <1>9, <1>11, <2>2 DEF Hosted!Leaves
  <2>. QED  BY <2>3 DEF Hosted!Next, Hosted!TaskNext
<1>12. CASE verdict(w) = "same" /\ task[<<r, c>>] = "starting"
  <2>1. w \in OwnerWrites /\ w \notin FinalWrites
    BY <1>3, <1>4, <1>12
  <2>2. \/ task'[<<r, c>>] = "talking" /\ row[c].status = "in_progress"
        \/ task'[<<r, c>>] = "none" /\ row[c].status = "failed" /\ "deny" \in Faults
    BY <1>2, <1>3, <1>4, <1>6, <1>7, <1>12, <2>1
  <2>3. Hosted(r, c)!Leaves
    BY <1>0, <1>12, <2>2 DEF Hosted!Leaves
  <2>. QED  BY <2>3 DEF Hosted!Next, Hosted!TaskNext
<1>13. CASE verdict(w) \notin {"write", "same"} /\ task[<<r, c>>] = "starting"
  <2>1. task'[<<r, c>>] = "ending"
    BY <1>2, <1>3, <1>4, <1>13
  <2>2. Hosted(r, c)!TearsDown
    BY <1>0, <1>13, <2>1 DEF Hosted!TearsDown
  <2>. QED  BY <2>2 DEF Hosted!Next, Hosted!TaskNext
<1>. QED  BY <1>3, <1>10, <1>11, <1>12, <1>13

\* So is every other step of the task, and what it leaves behind.
LEMMA TaskStepIsContract ==
  ASSUME OwnershipInvariant, HostingInvariant, NEW r \in Runtimes, NEW c \in Calls,
         TaskStep(r, c)
  PROVE  Hosted(r, c)!Next
<1> USE DEF TaskGoto
<1>0. /\ task \in [Runtimes \X Calls -> TaskPcs] /\ row \in [Calls -> CallSession]
      /\ late \in [Runtimes \X Calls -> SUBSET (TaskWrites \X BOOLEAN)]
      /\ <<r, c>> \in Runtimes \X Calls
  BY DEF OwnershipInvariant, TypeOK
<1>1. CASE TaskDecides(r, c)
  BY <1>1, DecisionKeepsContract
<1>2. CASE TaskCommits(r, c)
  <2>1. Hosted(r, c)!Commits
    BY <1>0, <1>2, SameWrites, SameRows DEF TaskCommits, Hosted!Commits
  <2>. QED  BY <2>1 DEF Hosted!Next, Hosted!TaskNext
<1>3. CASE TaskTearsDown(r, c)
  <2>1. Hosted(r, c)!TearsDown
    BY <1>0, <1>3 DEF TaskTearsDown, Hosted!TearsDown
  <2>. QED  BY <2>1 DEF Hosted!Next, Hosted!TaskNext
<1>4. CASE TaskDbFails(r, c)
  <2>1. Hosted(r, c)!DbFails
    BY <1>0, <1>4, SameWrites DEF TaskDbFails, Hosted!DbFails
  <2>. QED  BY <2>1 DEF Hosted!Next, Hosted!TaskNext
<1>5. CASE TaskCancelled(r, c)
  <2>1. Hosted(r, c)!Cancelled
    BY <1>0, <1>5, SameWrites DEF TaskCancelled, Hosted!Cancelled
  <2>. QED  BY <2>1 DEF Hosted!Next, Hosted!TaskNext
<1>6. ASSUME NEW w \in TaskWrites, LateReads(r, c, w) PROVE Hosted(r, c)!Next
  <2>1. PICK t \in BOOLEAN, f \in BOOLEAN : t = TRUE /\ f = FALSE
    OBVIOUS
  <2>2. Hosted(r, c)!WriteVerdict(row[c], w, r) = WriteVerdict(row[c], w, r)
    BY SameRows
  <2>3. PICK kept \in {{}, {<<w, t>>}} :
          kept = IF WriteVerdict(row[c], w, r) = "write" THEN {<<w, t>>} ELSE {}
    OBVIOUS
  <2>4. late' = [late EXCEPT ![<<r, c>>] = (@ \ {<<w, f>>}) \cup kept]
    BY <1>6, <2>1, <2>3 DEF LateReads
  <2>5. late'[<<r, c>>] = (late[<<r, c>>] \ {<<w, f>>}) \cup kept
    BY <1>0, <2>4
  <2>6. /\ <<w, f>> \in late[<<r, c>>] /\ UNCHANGED <<row, mode, task>>
    BY <1>6, <2>1 DEF LateReads
  <2>7. Hosted(r, c)!LateReads(w)
    BY <2>1, <2>2, <2>3, <2>5, <2>6 DEF Hosted!LateReads
  <2>. QED  BY <2>7, SameWrites DEF Hosted!Next, Hosted!TaskNext
<1>7. ASSUME NEW w \in TaskWrites, LateCommits(r, c, w) PROVE Hosted(r, c)!Next
  <2>1. Hosted(r, c)!LateCommits(w)
    BY <1>0, <1>7, SameWrites, SameRows DEF LateCommits, Hosted!LateCommits
  <2>. QED  BY <2>1, SameWrites DEF Hosted!Next, Hosted!TaskNext
<1>. QED  BY <1>1, <1>2, <1>3, <1>4, <1>5, <1>6, <1>7 DEF TaskStep

\* No task disturbs the call of another.
LEMMA TaskKeepsContract ==
  ASSUME OwnershipInvariant, HostingInvariant, NEW q \in Runtimes, NEW d \in Calls,
         TaskStep(q, d), NEW r \in Runtimes, NEW c \in Calls
  PROVE  [KeepsContract(r, c)]_(Hosted(r, c)!vars)
<1>0. TypeOK
  BY DEF OwnershipInvariant
<1>1. /\ UNCHANGED mode /\ IsHosted(q, d)
      /\ \A k \in Runtimes \X Calls : k # <<q, d>> => task'[k] = task[k] /\ late'[k] = late[k]
      /\ UNCHANGED row \/ \E w \in TaskWrites : row' = [row EXCEPT ![d] = WrittenBy(@, w)]
  BY <1>0, TaskMoves
<1>2. CASE <<r, c>> = <<q, d>>
  BY <1>1, <1>2, TaskStepIsContract DEF KeepsContract
<1>3. CASE <<r, c>> # <<q, d>>
  <2>1. UNCHANGED <<task[<<r, c>>], late[<<r, c>>], mode[r]>>
    BY <1>1, <1>3
  <2>2. ASSUME IsHosted(r, c) PROVE OutsideRow(c)
    <3>1. c # d
      BY <1>1, <1>3, <2>2, OneHost
    <3>2. row'[c] = row[c]
      BY <1>0, <1>1, <3>1 DEF TypeOK
    <3>. QED  BY <3>2 DEF OutsideRow
  <2>. QED  BY <2>1, <2>2, FrameKeepsContract
<1>. QED  BY <1>2, <1>3

\* A process that goes down takes its calls with it; telling it to stop cancels nothing yet.
LEMMA RuntimeKeepsContract ==
  ASSUME TypeOK, RuntimeNext, NEW r \in Runtimes, NEW c \in Calls
  PROVE  [KeepsContract(r, c)]_(Hosted(r, c)!vars)
<1>1. row'[c] = row[c]
  BY RuntimeFacts
<1>2. \/ /\ UNCHANGED <<task[<<r, c>>], late[<<r, c>>]>>
         /\ mode'[r] = mode[r] \/ mode'[r] = "stopping"
            \/ (mode[r] = "up" /\ mode'[r] = "draining")
      \/ task'[<<r, c>>] = "none" /\ late'[<<r, c>>] = {} /\ mode'[r] = "down"
  BY RuntimeFacts
<1>3. CASE ~ IsHosted(r, c)
  BY <1>2, <1>3 DEF IsHosted, KeepsContract
<1>4. CASE IsHosted(r, c) /\ UNCHANGED <<task[<<r, c>>], late[<<r, c>>], mode[r]>>
  BY <1>1, <1>4, FrameKeepsContract DEF OutsideRow
<1>5. CASE /\ IsHosted(r, c) /\ UNCHANGED <<task[<<r, c>>], late[<<r, c>>]>>
           /\ mode[r] = "up" /\ mode'[r] = "draining"
  BY <1>1, <1>5 DEF Hosted!vars
<1>6. CASE /\ IsHosted(r, c) /\ UNCHANGED <<task[<<r, c>>], late[<<r, c>>]>>
           /\ mode'[r] = "stopping"
  <2>1. Hosted(r, c)!Stops
    BY <1>1, <1>6 DEF Hosted!Stops
  <2>. QED  BY <1>6, <2>1 DEF KeepsContract, Hosted!Next, Hosted!FleetNext
<1>7. CASE /\ IsHosted(r, c)
           /\ task'[<<r, c>>] = "none" /\ late'[<<r, c>>] = {} /\ mode'[r] = "down"
  <2>1. Hosted(r, c)!Dies
    BY <1>1, <1>7 DEF Hosted!Dies
  <2>. QED  BY <1>7, <2>1 DEF KeepsContract, Hosted!Next, Hosted!FleetNext
<1>. QED  BY <1>2, <1>3, <1>4, <1>5, <1>6, <1>7

LEMMA StepKeepsContract ==
  ASSUME OwnershipInvariant, HostingInvariant, Next, NEW r \in Runtimes, NEW c \in Calls
  PROVE  [KeepsContract(r, c)]_(Hosted(r, c)!vars)
<1>0. TypeOK
  BY DEF OwnershipInvariant
<1>1. CASE HandlerNext
  BY <1>1, HandlerKeepsContract DEF HandlerNext
<1>2. CASE TaskNext
  BY <1>2, TaskKeepsContract DEF TaskNext
<1>3. CASE ReconcileNext
  BY <1>0, <1>3, ReconcileFacts, FrameKeepsContract
<1>4. CASE RuntimeNext
  BY <1>0, <1>4, RuntimeKeepsContract
<1>. QED  BY <1>1, <1>2, <1>3, <1>4 DEF Next

\* What CallTask assumes of the fleet and what the fleet assumes of CallTask hold in the
\* fleet, for every process and every call: a call is taken on answered and owned, its
\* task writes what HostedCall lets it, and duplicate handlers, other processes and the
\* reconciler write no more over it than refusals and repairs (orchestrator.py
\* _activate, supervisor.py start_call, calls/service.py transition_call_session).
THEOREM HostedCallsKeepContractHolds == Spec => HostedCallsKeepContract
<1>1. Init => HostingInvariant
  BY InitHosting
<1>2. OwnershipInvariant /\ HostingInvariant /\ [Next]_vars => HostingInvariant'
  BY HostingInductive
<1>3. OwnershipInvariant /\ HostingInvariant /\ [Next]_vars
        => [\A r \in Runtimes, c \in Calls : [KeepsContract(r, c)]_(Hosted(r, c)!vars)]_vars
  BY StepKeepsContract
<1>. QED  BY <1>1, <1>2, <1>3, OwnershipHolds, PTL DEF Spec, HostedCallsKeepContract
=============================================================================
