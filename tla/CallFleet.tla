------------------------------ MODULE CallFleet ------------------------------
(***************************************************************************)
(* The fleet of call-runtime processes reacting to one broadcast event     *)
(* stream.  Every process sees every OFFERED event and runs                *)
(* CallOrchestrator._handle_offer for it; the processes agree only through *)
(* the call_sessions row, and choose an assignee from heartbeats each of   *)
(* them reads on its own.                                                  *)
(*                                                                         *)
(* A handler <<r, c, n>> is the task process r runs for the n-th delivery  *)
(* of the offer of call c.  Its pc names the await it is at; what lies     *)
(* between two awaits is one step.  A call that has been started is        *)
(* followed only through what its task may write, see HostedCall.          *)
(***************************************************************************)
EXTENDS Naturals, Integers, FiniteSets, CallSessions

CONSTANTS
  Calls,        \* external calls, one channel each
  MaxOffers,    \* bound: deliveries of one offer to one process
  Capacity,     \* CallRuntime.capacity
  Faults        \* which faults the environment commits, a subset of FaultKinds

FaultKinds == {"lapse",     \* heartbeat writes fail past the TTL
               "error",     \* a database or Redis call raises
               "crash",     \* a process dies
               "shutdown",  \* a process is told to stop
               "deny",      \* the privacy decision is a denial
               "refuse",    \* routing or agent lookup refuses the offer
               "reconcile"} \* reconcile_tenant is run

ASSUME FleetAssumption ==
  /\ IsFiniteSet(Calls)
  /\ MaxOffers \in Nat \ {0}
  /\ Capacity \in Nat
  /\ Faults \subseteq FaultKinds

VARIABLES
  row,        \* [Calls -> CallSession]
  beat,       \* [Runtimes -> load in the heartbeat key, or NoBeat]
  mode,       \* [Runtimes -> "up" | "draining" | "stopping" | "down"]
  pc,         \* [Handlers -> HandlerPcs]
  choice,     \* [Handlers -> the instance the handler selected, or NoOwner]
  why,        \* [Handlers -> the end_reason of a handler that is failing its call]
  cancelled,  \* [Handlers -> cancelled while its database thread runs on]
  winners,    \* history: [Calls -> the <<r, n>> whose activation claim succeeded]
  task,       \* [Runtimes \X Calls -> TaskPcs], CallRuntime._tasks
  late,       \* [Runtimes \X Calls -> the writes whose awaiter was cancelled]
  missing,    \* runtimes without a heartbeat when the reconciler looked
  stale,      \* calls reconcile_tenant has still to repair
  repairing   \* the call whose row it has read and is about to write

vars == <<row, beat, mode, pc, choice, why, cancelled, winners, task, late,
          missing, stale, repairing>>

handlerVars == <<pc, choice, why, cancelled>>
reconcilerVars == <<missing, stale, repairing>>

Deliveries == 1..MaxOffers
Handlers == Runtimes \X Calls \X Deliveries
NoBeat == -1

DbPcs == {"offered", "authorize", "assign", "claim", "mark", "marking", "fail", "failing"}
LivePcs == DbPcs \cup {"heartbeats", "answer", "waiting", "start", "reject"}
HandlerPcs == LivePcs \cup {"none", "done", "aborted"}

TaskPcs == {"none", "starting", "talking", "ending"} \cup TaskWrites

\* What one process and one call are to each other.
Hosted(r, c) == INSTANCE HostedCall
                  WITH Self <- r, row <- row[c], task <- task[<<r, c>>],
                       late <- late[<<r, c>>], stopping <- mode[r] \in {"stopping", "down"}

TypeOK ==
  /\ row \in [Calls -> CallSession]
  /\ beat \in [Runtimes -> Nat \cup {NoBeat}]
  /\ mode \in [Runtimes -> {"up", "draining", "stopping", "down"}]
  /\ pc \in [Handlers -> HandlerPcs]
  /\ choice \in [Handlers -> Runtimes \cup {NoOwner}]
  /\ why \in [Handlers -> EndReasons]
  /\ cancelled \in [Handlers -> BOOLEAN]
  /\ winners \in [Calls -> SUBSET (Runtimes \X Deliveries)]
  /\ task \in [Runtimes \X Calls -> TaskPcs]
  /\ late \in [Runtimes \X Calls -> SUBSET (TaskWrites \X BOOLEAN)]
  /\ missing \subseteq Runtimes
  /\ stale \subseteq Calls
  /\ repairing \subseteq Calls

Init ==
  /\ row = [c \in Calls |-> NoRow]
  /\ beat = [r \in Runtimes |-> NoBeat]
  /\ mode = [r \in Runtimes |-> "up"]
  /\ pc = [h \in Handlers |-> "none"]
  /\ choice = [h \in Handlers |-> NoOwner]
  /\ why = [h \in Handlers |-> "none"]
  /\ cancelled = [h \in Handlers |-> FALSE]
  /\ winners = [c \in Calls |-> {}]
  /\ task = [k \in Runtimes \X Calls |-> "none"]
  /\ late = [k \in Runtimes \X Calls |-> {}]
  /\ missing = {} /\ stale = {} /\ repairing = {}

Live(h) == pc[h] \in LivePcs
Running(r) == mode[r] # "down"

-----------------------------------------------------------------------------
(* Heartbeats: supervisor.py, heartbeat.py, assignment.py                  *)

Load(r) == Cardinality({c \in Calls : task[<<r, c>>] # "none"})

\* One round of _run_heartbeat_loop; runtime.shutdown() cancels the loop first.
WriteHeartbeat(r) ==
  /\ mode[r] \in {"up", "draining"}
  /\ beat' = [beat EXCEPT ![r] = Load(r)]
  /\ UNCHANGED <<row, mode, handlerVars, winners, task, late, reconcilerVars>>

\* The Redis key expires: the process is gone, or its writes keep failing.
HeartbeatExpires(r) ==
  /\ mode[r] = "down" \/ "lapse" \in Faults
  /\ beat[r] # NoBeat
  /\ beat' = [beat EXCEPT ![r] = NoBeat]
  /\ UNCHANGED <<row, mode, handlerVars, winners, task, late, reconcilerVars>>

HasCapacity(r) == beat[r] # NoBeat /\ beat[r] < Capacity

\* min() over a dict in SCAN order: any least loaded candidate.
Selectable ==
  {r \in Runtimes : HasCapacity(r)
     /\ \A q \in Runtimes : HasCapacity(q) => beat[r] <= beat[q]}

-----------------------------------------------------------------------------
(* CallOrchestrator._handle_offer.  Step moves a handler on, or ends it    *)
(* when it was cancelled while its database thread was still running; a    *)
(* thread that has read the row goes on to write it all the same.          *)

Step(h, next, sel, reason) ==
  /\ pc' = [pc EXCEPT ![h] = IF cancelled[h] /\ next \notin {"marking", "failing"}
                              THEN "aborted" ELSE next]
  /\ choice' = [choice EXCEPT ![h] = sel]
  /\ why' = [why EXCEPT ![h] = reason]
  /\ UNCHANGED <<cancelled, beat, mode, late, reconcilerVars>>

Goto(h, next) == Step(h, next, NoOwner, "none")
GotoFail(h, reason) == Step(h, "fail", NoOwner, reason)

\* The router hands an offer to the orchestrator only while nothing in this
\* process subscribes to the call's events.
Subscribed(r, c) ==
  \/ task[<<r, c>>] = "talking"
  \/ \E n \in Deliveries :
       \/ pc[<<r, c, n>>] \in {"answer", "waiting"}
       \/ /\ pc[<<r, c, n>>] \in {"fail", "failing", "reject"}
          /\ why[<<r, c, n>>] = "media_unavailable" /\ ~ cancelled[<<r, c, n>>]

Offer(h) ==
  /\ pc[h] = "none"
  /\ Running(h[1])
  /\ \A n \in 1..(h[3] - 1) : pc[<<h[1], h[2], n>>] # "none"
  /\ ~ Subscribed(h[1], h[2])
  /\ Goto(h, "offered")
  /\ UNCHANGED <<row, winners, task>>

\* Unknown or disabled route, inactive agent, no usable version.
RefuseRoute(h) ==
  /\ pc[h] = "offered" /\ "refuse" \in Faults
  /\ Goto(h, "reject")
  /\ UNCHANGED <<row, winners, task>>

CreateSession(h) ==
  /\ pc[h] = "offered"
  /\ row' = [row EXCEPT ![h[2]] = CreateCallSession(@)]
  /\ Goto(h, IF row'[h[2]].status = "initiated" THEN "authorize" ELSE "done")
  /\ UNCHANGED <<winners, task>>

\* Mutation: a denied call is hung up, its row is not failed.
AuthorizeHangsUp(h) ==
  /\ pc[h] = "authorize"
  /\ \/ Goto(h, "heartbeats")
     \/ "deny" \in Faults /\ Goto(h, "reject")
  /\ UNCHANGED <<row, winners, task>>

Authorize(h) ==
  /\ pc[h] = "authorize"
  /\ \/ Goto(h, "heartbeats")
     \/ "deny" \in Faults /\ GotoFail(h, "authorization_denied")
  /\ UNCHANGED <<row, winners, task>>

ReadHeartbeats(h) ==
  /\ pc[h] = "heartbeats"
  /\ \/ \E r \in Selectable : Step(h, "assign", r, "none")
     \/ Selectable = {} /\ GotoFail(h, "no_capacity")
  /\ UNCHANGED <<row, winners, task>>

\* Mutation: the handler goes on whoever was selected.
AssignGoesOn(h) ==
  /\ pc[h] = "assign"
  /\ MayOwn(row[h[2]], choice[h])
  /\ row' = [row EXCEPT ![h[2]] = ClaimRuntimeOwnership(@, choice[h])]
  /\ Goto(h, "claim")
  /\ UNCHANGED <<winners, task>>

\* assign_call_to_runtime claims the row for the selected instance, whichever
\* process runs it; a handler goes on only when the selected instance is its own.
Assign(h) ==
  /\ pc[h] = "assign"
  /\ IF MayOwn(row[h[2]], choice[h])
     THEN /\ row' = [row EXCEPT ![h[2]] = ClaimRuntimeOwnership(@, choice[h])]
          /\ Goto(h, IF choice[h] = h[1] THEN "claim" ELSE "done")
     ELSE /\ Goto(h, "done")
          /\ UNCHANGED row
  /\ UNCHANGED <<winners, task>>

Claim(h) ==
  /\ pc[h] = "claim"
  /\ IF MayActivate(row[h[2]])
     THEN /\ row' = [row EXCEPT ![h[2]] = ClaimCallForActivation(@)]
          /\ winners' = [winners EXCEPT ![h[2]] = @ \cup {<<h[1], h[3]>>}]
          /\ Goto(h, "answer")
     ELSE /\ Goto(h, "done")
          /\ UNCHANGED <<row, winners>>
  /\ UNCHANGED task

-----------------------------------------------------------------------------
(* CallOrchestrator._activate, and the failing transitions of both         *)

\* answer() and start_media_stream() succeed, or one raises TransportError.
Answer(h) ==
  /\ pc[h] = "answer"
  /\ Goto(h, "waiting") \/ GotoFail(h, "media_unavailable")
  /\ UNCHANGED <<row, winners, task>>

\* ANSWERED arrives, or the wait times out.
WaitForAnswered(h) ==
  /\ pc[h] = "waiting"
  /\ Goto(h, "mark") \/ GotoFail(h, "media_unavailable")
  /\ UNCHANGED <<row, winners, task>>

\* transition_call_session(to_status="answered", expected=self), its read...
MarkAnswered(h) ==
  /\ pc[h] = "mark"
  /\ Goto(h, CASE Verdict(row[h[2]], "answered", h[1]) = "write" -> "marking"
               [] Verdict(row[h[2]], "answered", h[1]) = "same"  -> "start"
               [] OTHER -> "aborted")
  /\ UNCHANGED <<row, winners, task>>

\* ...and its write.
CommitAnswered(h) ==
  /\ pc[h] = "marking"
  /\ row' = [row EXCEPT ![h[2]] = Written(@, "answered", "none")]
  /\ Goto(h, "start")
  /\ UNCHANGED <<winners, task>>

\* CallRuntime.start_call does nothing for a call that is running already.
StartCall(h) ==
  /\ pc[h] = "start"
  /\ task' = [task EXCEPT ![<<h[1], h[2]>>] = IF @ = "none" THEN "starting" ELSE @]
  /\ Goto(h, "done")
  /\ UNCHANGED <<row, winners>>

\* Only the media failure is written under the ownership check.
Expected(h) == IF why[h] = "media_unavailable" THEN h[1] ELSE NoOwner

\* Mutation: the call is hung up without a transition.
FailCallHangsUp(h) ==
  /\ pc[h] = "fail"
  /\ Step(h, "reject", NoOwner, why[h])
  /\ UNCHANGED <<row, winners, task>>

\* transition_call_session(to_status="failed", end_reason=why), its read...
FailCall(h) ==
  /\ pc[h] = "fail"
  /\ LET verdict == Verdict(row[h[2]], "failed", Expected(h))
     IN Step(h, CASE verdict = "write" -> "failing"
                  [] verdict = "same"  -> "reject"
                  [] OTHER             -> "aborted",
             NoOwner, why[h])
  /\ UNCHANGED <<row, winners, task>>

\* ...and its write.
CommitFailure(h) ==
  /\ pc[h] = "failing"
  /\ row' = [row EXCEPT ![h[2]] = Written(@, "failed", why[h])]
  /\ Step(h, "reject", NoOwner, why[h])
  /\ UNCHANGED <<winners, task>>

\* Hang up; a TelephonyError is suppressed.
Reject(h) ==
  /\ pc[h] = "reject"
  /\ Goto(h, "done")
  /\ UNCHANGED <<row, winners, task>>

\* Anything else that raises ends in the outer except: nothing is undone, and the
\* channel is left to FreeSWITCH.
HandlerRaises(h) ==
  /\ "error" \in Faults
  /\ Live(h) /\ pc[h] # "reject"
  /\ Goto(h, "aborted")
  /\ UNCHANGED <<row, winners, task>>

HandlerStep(h) ==
  \/ RefuseRoute(h) \/ CreateSession(h) \/ Authorize(h) \/ ReadHeartbeats(h)
  \/ Assign(h) \/ Claim(h) \/ Answer(h) \/ WaitForAnswered(h)
  \/ MarkAnswered(h) \/ CommitAnswered(h) \/ StartCall(h)
  \/ FailCall(h) \/ CommitFailure(h) \/ Reject(h)

-----------------------------------------------------------------------------
(* A started call, seen through the transitions run_call_task makes: to    *)
(* in_progress, or to failed on a denial, as the owner; at last to a       *)
(* terminal status as anybody, after which _wrap_call_task drops it from   *)
(* _tasks.  CallTask has the rest, and HostedCall what holds them together. *)

TaskGoto(k, next) ==
  /\ task' = [task EXCEPT ![k] = next]
  /\ UNCHANGED <<beat, mode, handlerVars, winners, reconcilerVars>>

\* A transition reads the row.  One that is refused to the owner ends the body; a final
\* target the row cannot reach is replaced by interrupted, and when that is refused as
\* well the task leaves the row alone.
TaskDecides(r, c) ==
  /\ \E w \in Hosted(r, c)!Open(task[<<r, c>>]) :
       LET verdict(e) == WriteVerdict(row[c], e, r)
       IN TaskGoto(<<r, c>>,
            CASE verdict(w) = "write" -> w
              [] w = "progress" /\ verdict(w) = "same" -> "talking"
              [] w \in OwnerWrites /\ verdict(w) \notin {"write", "same"} -> "ending"
              [] /\ w \in FinalWrites /\ verdict(w) = "invalid"
                 /\ verdict("interrupting") = "write" -> "interrupting"
              [] OTHER -> "none")
  /\ UNCHANGED <<row, late>>

TaskCommits(r, c) ==
  /\ task[<<r, c>>] \in TaskWrites
  /\ row' = [row EXCEPT ![c] = WrittenBy(@, task[<<r, c>>])]
  /\ TaskGoto(<<r, c>>, IF task[<<r, c>>] = "progress" THEN "talking" ELSE "none")
  /\ UNCHANGED late

\* The body is left for the finally block.
TaskTearsDown(r, c) ==
  /\ task[<<r, c>>] \in {"starting", "talking"}
  /\ TaskGoto(<<r, c>>, "ending")
  /\ UNCHANGED <<row, late>>

\* A failing database ends the body, and past it the task.
TaskDbFails(r, c) ==
  /\ "error" \in Faults
  /\ task[<<r, c>>] \in TaskWrites \cup {"ending"}
  /\ TaskGoto(<<r, c>>, IF task[<<r, c>>] \in OwnerWrites THEN "ending" ELSE "none")
  /\ UNCHANGED <<row, late>>

\* Shutdown cancels the task, once or again: the task goes on to its end, and a thread
\* that had taken up its transition to the end of that.
TaskCancelled(r, c) ==
  /\ mode[r] = "stopping" /\ task[<<r, c>>] # "none"
  /\ TaskGoto(<<r, c>>, IF task[<<r, c>>] \in OwnerWrites \cup {"starting", "talking"}
                        THEN "ending" ELSE "none")
  /\ \E writes \in Hosted(r, c)!Abandoned :
       late' = [late EXCEPT ![<<r, c>>] = @ \cup writes]
  /\ UNCHANGED row

LateReads(r, c, w) ==
  /\ <<w, FALSE>> \in late[<<r, c>>]
  /\ late' = [late EXCEPT ![<<r, c>>] =
                (@ \ {<<w, FALSE>>})
                \cup IF WriteVerdict(row[c], w, r) = "write" THEN {<<w, TRUE>>} ELSE {}]
  /\ UNCHANGED <<row, beat, mode, handlerVars, winners, task, reconcilerVars>>

LateCommits(r, c, w) ==
  /\ <<w, TRUE>> \in late[<<r, c>>]
  /\ row' = [row EXCEPT ![c] = WrittenBy(@, w)]
  /\ late' = [late EXCEPT ![<<r, c>>] = @ \ {<<w, TRUE>>}]
  /\ UNCHANGED <<beat, mode, handlerVars, winners, task, reconcilerVars>>

TaskStep(r, c) ==
  \/ TaskDecides(r, c) \/ TaskCommits(r, c) \/ TaskTearsDown(r, c)
  \/ TaskDbFails(r, c) \/ TaskCancelled(r, c)
  \/ \E w \in TaskWrites : LateReads(r, c, w) \/ LateCommits(r, c, w)

-----------------------------------------------------------------------------
(* reconciliation.py.  Nothing in the repository schedules it: only a       *)
(* configuration with "reconcile" among its faults runs it.                *)

ReconcileReadHeartbeats ==
  /\ "reconcile" \in Faults
  /\ missing = {} /\ stale = {} /\ repairing = {}
  /\ missing' = {r \in Runtimes : beat[r] = NoBeat}
  /\ missing' # {}
  /\ UNCHANGED <<row, beat, mode, handlerVars, winners, task, late, stale, repairing>>

ReconcileList ==
  /\ missing # {}
  /\ stale' = {c \in Calls : /\ row[c].status \notin TERMINAL_STATUSES
                             /\ row[c].owner \in missing}
  /\ missing' = {}
  /\ UNCHANGED <<row, beat, mode, handlerVars, winners, task, late, repairing>>

ReconcileRead(c) ==
  /\ c \in stale /\ repairing = {}
  /\ stale' = stale \ {c}
  /\ repairing' = IF Verdict(row[c], "interrupted", NoOwner) = "write" THEN {c} ELSE {}
  /\ UNCHANGED <<row, beat, mode, handlerVars, winners, task, late, missing>>

ReconcileCommit(c) ==
  /\ c \in repairing
  /\ row' = [row EXCEPT ![c] = Written(@, "interrupted", "runtime_crashed")]
  /\ repairing' = {}
  /\ UNCHANGED <<beat, mode, handlerVars, winners, task, late, missing, stale>>

-----------------------------------------------------------------------------
(* scripts/run_call_runtime.py stops the orchestrator, then the runtime,   *)
(* then the event stream; a process may also die at any point.             *)

\* orchestrator.shutdown() cancels the handlers there are.  A database call that
\* has started runs on in its thread; one that has not is dropped.
Drain(r) ==
  /\ "shutdown" \in Faults /\ mode[r] = "up"
  /\ mode' = [mode EXCEPT ![r] = "draining"]
  /\ \E running \in SUBSET {h \in Handlers : h[1] = r /\ pc[h] \in DbPcs} :
       /\ cancelled' = [h \in Handlers |-> cancelled[h] \/ h \in running]
       /\ pc' = [h \in Handlers |-> IF h[1] = r /\ Live(h) /\ h \notin running
                                    THEN "aborted" ELSE pc[h]]
  /\ UNCHANGED <<row, beat, choice, why, winners, task, late, reconcilerVars>>

\* CallRuntime.shutdown() stops the heartbeat and cancels the tasks.
StopRuntime(r) ==
  /\ mode[r] = "draining"
  /\ mode' = [mode EXCEPT ![r] = "stopping"]
  /\ UNCHANGED <<row, beat, handlerVars, winners, task, late, reconcilerVars>>

\* Everything the process was running is gone.
Ended(r) ==
  /\ mode' = [mode EXCEPT ![r] = "down"]
  /\ pc' = [h \in Handlers |-> IF h[1] = r /\ Live(h) THEN "aborted" ELSE pc[h]]
  /\ task' = [k \in Runtimes \X Calls |-> IF k[1] = r THEN "none" ELSE task[k]]
  /\ late' = [k \in Runtimes \X Calls |-> IF k[1] = r THEN {} ELSE late[k]]
  /\ UNCHANGED <<row, choice, why, cancelled, winners, reconcilerVars>>

\* The waits for the tasks are over, done or timed out; the key is removed.
Exit(r) ==
  /\ mode[r] = "stopping"
  /\ beat' = [beat EXCEPT ![r] = NoBeat]
  /\ Ended(r)

Crash(r) ==
  /\ "crash" \in Faults /\ Running(r)
  /\ Ended(r)
  /\ UNCHANGED beat

-----------------------------------------------------------------------------
HandlerNext == \E h \in Handlers : Offer(h) \/ HandlerStep(h) \/ HandlerRaises(h)
TaskNext == \E r \in Runtimes, c \in Calls : TaskStep(r, c)
ReconcileNext ==
  \/ ReconcileReadHeartbeats \/ ReconcileList
  \/ \E c \in Calls : ReconcileRead(c) \/ ReconcileCommit(c)
RuntimeNext ==
  \E r \in Runtimes : \/ WriteHeartbeat(r) \/ HeartbeatExpires(r)
                      \/ Drain(r) \/ StopRuntime(r) \/ Exit(r) \/ Crash(r)

Next == HandlerNext \/ TaskNext \/ ReconcileNext \/ RuntimeNext

Spec == Init /\ [][Next]_vars

\* A process is scheduled: every handler that can take its next step takes it (the
\* database and telephony calls it awaits are bounded by timeouts), and so does a
\* started task up to the conversation and from the finally block on, whose steps are
\* bounded.  Conversations may last, nobody has to call, and no fault has to happen.
Fairness ==
  /\ \A h \in Handlers : WF_vars(HandlerStep(h))
  /\ \A r \in Runtimes, c \in Calls :
       WF_vars(TaskDecides(r, c) \/ TaskCommits(r, c))

FairSpec == Spec /\ Fairness

-----------------------------------------------------------------------------
(* Properties                                                              *)

\* ADR-0008 point 10: a call gets one owner for good, and one handler of that owner
\* activates it, once, whatever the processes believe about each other's load.
Ownership == INSTANCE CallOwnership
               WITH holder <- [c \in Calls |-> row[c].owner], activations <- winners
ImplementsOwnership == Ownership!Spec

\* A process hosts a call only as its owner, after winning its activation; hence no
\* two processes ever hold an engine session for the same call.
ExclusiveTask ==
  \A r \in Runtimes, c \in Calls :
    task[<<r, c>>] # "none" =>
      row[c].owner = r /\ \E n \in Deliveries : winners[c] = {<<r, n>>}

\* A row that says the call is being answered or talked on was put there by a handler
\* that claimed it; no refusal, repair or late write can produce such a row.
ActiveRowWasClaimed ==
  \A c \in Calls :
    row[c].status \in {"ringing", "answered", "in_progress"} => winners[c] # {}

\* Why ExclusiveTask and ImplementsOwnership hold.  A handler about to claim the
\* activation belongs to the owner, which cannot change any more; whoever is past the
\* claim is the one recorded winner; and a claimed row never again looks initiated, so
\* no second claim succeeds.
ClaimingPc == "claim"
ActivePcs == {"answer", "waiting", "mark", "marking", "start"}

ClaimersOwn ==
  \A h \in Handlers : pc[h] = ClaimingPc => row[h[2]].owner = h[1]
ActiveHandlersWon ==
  \A h \in Handlers : pc[h] \in ActivePcs => <<h[1], h[3]>> \in winners[h[2]]
ClaimIsSpent ==
  \A c \in Calls : winners[c] # {} => row[c].status \notin {"absent", "initiated"}
OneWinner ==
  \A c \in Calls : \A w \in winners[c] : winners[c] = {w} /\ w[1] = row[c].owner
IsHosted(r, c) == task[<<r, c>>] # "none" \/ late[<<r, c>>] # {}
HostsWon ==
  \A r \in Runtimes, c \in Calls :
    IsHosted(r, c) =>
      \E n \in Deliveries :
        <<r, n>> \in winners[c] /\ pc[<<r, c, n>>] \in {"done", "aborted"}

OwnershipInvariant ==
  /\ TypeOK /\ ClaimersOwn /\ ActiveHandlersWon /\ ClaimIsSpent /\ OneWinner
  /\ HostsWon /\ ActiveRowWasClaimed

\* A process takes a call on with a row it may have to share but owns, and from then on
\* everything that happens to the row, to the task and to what outlives the task is what
\* the contract of the task with the rest of the fleet allows.
KeepsContract(r, c) ==
  IF IsHosted(r, c) THEN Hosted(r, c)!Next
  ELSE ~ IsHosted(r, c)' \/ Hosted(r, c)!Init'
HostedCallsKeepContract ==
  [][\A r \in Runtimes, c \in Calls : [KeepsContract(r, c)]_(Hosted(r, c)!vars)]_vars

\* Until the owner is told to stop, and while its database works, a call whose
\* activation ran to its end is either still hosted or has a terminal row: no
\* interleaving of unlocked writes by other processes, duplicate handlers or the
\* reconciler leaves an open row nobody works on.
ActivatedCallIsNotLeft ==
  \A h \in Handlers :
    /\ <<h[1], h[3]>> \in winners[h[2]] /\ pc[h] = "done"
    /\ mode[h[1]] \in {"up", "draining"} /\ task[<<h[1], h[2]>>] = "none"
    => IsTerminal(row[h[2]])

\* orchestrator.py: when every process has dealt with the offer and the runtime that
\* was given the call lives, that runtime has acted on it.
OwnerActs ==
  \A c \in Calls :
    (\A r \in Runtimes, n \in Deliveries : pc[<<r, c, n>>] = "done")
      => row[c].status # "initiated"

\* An offer that passed routing is brought to a conversation or to a terminal row.
OfferedCallIsSettled ==
  \A c \in Calls :
    (\E r \in Runtimes, n \in Deliveries : pc[<<r, c, n>>] = "authorize")
      ~> \/ IsTerminal(row[c])
         \/ \E r \in Runtimes : task[<<r, c>>] = "talking"
=============================================================================
