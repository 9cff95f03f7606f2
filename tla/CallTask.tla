------------------------------- MODULE CallTask -------------------------------
(***************************************************************************)
(* run_call_task: one call, from the moment CallRuntime.start_call creates *)
(* its task to the task's end, under everything that can interrupt it.     *)
(*                                                                         *)
(* pc names the await the task is at; what lies between two awaits is one  *)
(* step.  Cancellation is a CancelledError raised at that await: in the    *)
(* body it leads to the finally block, in the finally block it leaves it.  *)
(* A database call runs in a thread of DatabaseBoundary; cancelling its    *)
(* awaiter drops a call still queued, and leaves a started one running.    *)
(***************************************************************************)
EXTENDS CallSessions

CONSTANTS
  Self,     \* this runtime's instance_id, the owner of the call
  Faults    \* which faults the environment commits, a subset of FaultKinds

FaultKinds == {"deny",       \* the privacy decision is a denial
               "error",      \* a database call raises
               "media",      \* the media transport raises TransportError
               "engine",     \* the conversation engine raises
               "shutdown",   \* the process is told to stop
               "outsider"}   \* another process or the reconciler writes the row

ASSUME TaskAssumption == Self \in Runtimes /\ Faults \subseteq FaultKinds

VARIABLES
  row,        \* the call's CallSession
  pc,
  stage,      \* how far the awaited database call is: Stages
  reason,     \* CancellationSignal.reason
  media,      \* media_stream: "none" | "open" | "closed"
  engine,     \* engine_session: "none" | "open" | "closed"
  writer,     \* the call's conversation worker: "none" | "open" | "closed"
  hangup,     \* the remote HUNGUP: "none" | "queued" | "seen" | "lost"
  raised,     \* what the ending pumps raise: "nothing" | "transport" | "other"
  orphans,    \* row writes whose awaiter was cancelled
  process,    \* "running" | "stopping" | "closed" | "exiting"
  lost,       \* history: the pumps ended in a TransportError
  denied,     \* history: the authorization was denied
  overwritten,\* history: another process wrote the row
  cut         \* history: what kept the finally block from doing its work

vars == <<row, pc, stage, reason, media, engine, writer, hangup,
          raised, orphans, process, lost, denied, overwritten, cut>>

history == <<lost, denied, overwritten, cut>>
resources == <<media, engine, writer>>

BodyPcs == {"load", "version", "authorize", "deny", "engine", "answered", "in_progress"}
TeardownPcs == {"flush", "close", "detach", "finalize", "fallback", "analysis"}
DbPcs == {"load", "version", "authorize", "deny", "answered", "in_progress",
          "finalize", "fallback", "analysis"}
RowPcs == {"deny", "answered", "in_progress", "finalize", "fallback"}
Stages == {"queued", "running", "read"}
Reasons == {"hangup", "runtime_shutdown", "media_disconnect"}
Cuts == {"cancelled", "db_error", "orphan"}

\* _final_status
FinalStatus == [hangup           |-> "completed",
                runtime_shutdown |-> "interrupted",
                media_disconnect |-> "failed"]
FinalReason == [hangup           |-> "completed",
                runtime_shutdown |-> "runtime_shutdown",
                media_disconnect |-> "media_disconnect"]

\* The transition_call_session the task awaits at pc.  Finalization skips the
\* ownership check.
RowWrites == [to : VALID_STATUSES, why : EndReasons, expected : {Self, NoOwner},
              read : BOOLEAN]

Awaited ==
  [to       |-> CASE pc = "deny"     -> "failed"
                  [] pc = "finalize" -> FinalStatus[reason]
                  [] pc = "fallback" -> "interrupted"
                  [] OTHER           -> pc,
   why      |-> CASE pc = "deny" -> "authorization_denied"
                  [] pc \in {"finalize", "fallback"} -> FinalReason[reason]
                  [] OTHER -> "none",
   expected |-> IF pc \in {"finalize", "fallback"} THEN NoOwner ELSE Self,
   read     |-> stage = "read"]

TypeOK ==
  /\ row \in CallSession
  /\ pc \in BodyPcs \cup TeardownPcs \cup {"talking", "unwinding", "ended"}
  /\ stage \in Stages
  /\ reason \in Reasons
  /\ media \in {"none", "open", "closed"}
  /\ engine \in {"none", "open", "closed"}
  /\ writer \in {"none", "open", "closed"}
  /\ hangup \in {"none", "queued", "seen", "lost"}
  /\ raised \in {"nothing", "transport", "other"}
  /\ orphans \subseteq RowWrites
  /\ process \in {"running", "stopping", "closed", "exiting"}
  /\ lost \in BOOLEAN /\ denied \in BOOLEAN /\ overwritten \in BOOLEAN
  /\ cut \subseteq Cuts

\* The orchestrator starts a call it has just moved to answered.  start_call does not ask
\* whether the runtime is shutting down: a call that shutdown() did not find is started
\* all the same, and nobody cancels it before the process exits.
Init ==
  /\ row \in IF "outsider" \in Faults THEN HandedOver(Self)
             ELSE {[status |-> "answered", owner |-> Self, endReason |-> "none"]}
  /\ pc = "load" /\ stage = "queued"
  /\ reason = "hangup"
  /\ media = "none" /\ engine = "none" /\ writer = "none"
  /\ hangup = "none" /\ raised = "nothing"
  /\ orphans = {}
  /\ process \in {"running"} \cup IF "shutdown" \in Faults THEN {"stopping", "closed"} ELSE {}
  /\ lost = FALSE /\ denied = FALSE /\ cut = {}
  /\ overwritten = (row.endReason # "none")

-----------------------------------------------------------------------------
(* Moving on.  A database call starts out queued for a thread.             *)

Goto(next) == pc' = next /\ stage' = "queued"

\* The finally block goes on to the first step, from this one on, that has something
\* to do.  detach() forgets the stream before it awaits its close.  Only a recorded
\* denial, which has nothing to release, sets finalized and skips finalize.
Flushes == writer = "open"
Closes == engine = "open"
Detaches == media = "open"

\* Mutation: only a call that had its media attached is finalized.
ToDetachOnly ==
  IF Detaches THEN Goto("detach") /\ media' = "closed"
  ELSE Goto(IF media = "closed" THEN "finalize" ELSE "analysis") /\ UNCHANGED media

ToDetach ==
  IF Detaches THEN Goto("detach") /\ media' = "closed"
  ELSE Goto("finalize") /\ UNCHANGED media

ToClose ==
  IF Closes THEN Goto("close") /\ UNCHANGED media ELSE ToDetach

ToTeardown ==
  IF Flushes THEN Goto("flush") /\ UNCHANGED media ELSE ToClose

-----------------------------------------------------------------------------
(* The body                                                                *)

\* A pool thread takes the call up; after db.close() there is none.
DbStart ==
  /\ pc \in DbPcs /\ stage = "queued" /\ process \in {"running", "stopping"}
  /\ stage' = "running"
  /\ UNCHANGED <<row, pc, reason, resources, hangup, raised, orphans,
                 process, history>>

Load ==
  /\ pc \in {"load", "version"} /\ stage = "running"
  /\ Goto(IF pc = "load" THEN "version" ELSE "authorize")
  /\ UNCHANGED <<row, reason, resources, hangup, raised, orphans,
                 process, history>>

Deny ==
  /\ pc = "authorize" /\ stage = "running" /\ "deny" \in Faults
  /\ Goto("deny")
  /\ denied' = TRUE
  /\ UNCHANGED <<row, reason, resources, hangup, raised, orphans,
                 process, lost, overwritten, cut>>

\* attach() does not suspend, so the call goes straight on to start the engine.
Attach ==
  /\ pc = "authorize" /\ stage = "running"
  /\ Goto("engine")
  /\ media' = "open"
  /\ UNCHANGED <<row, reason, engine, writer, hangup, raised, orphans,
                 process, history>>

\* Its TransportError is outside the try that would change the reason.
AttachFails ==
  /\ pc = "authorize" /\ stage = "running" /\ "media" \in Faults
  /\ ToTeardown
  /\ UNCHANGED <<row, reason, engine, writer, hangup, raised, orphans,
                 process, history>>

StartEngine ==
  /\ pc = "engine"
  /\ engine' = "open" /\ writer' = "open"
  /\ Goto("answered")
  /\ UNCHANGED <<row, reason, media, hangup, raised, orphans, process, history>>

StartEngineFails ==
  /\ pc = "engine" /\ "engine" \in Faults
  /\ ToTeardown
  /\ UNCHANGED <<row, reason, engine, writer, hangup, raised, orphans,
                 process, history>>

-----------------------------------------------------------------------------
(* transition_call_session, awaited or orphaned                            *)

VerdictOf(write) == Verdict(row, write.to, write.expected)

\* What follows a transition that ended without an error...
Accepted ==
  CASE pc = "answered"    -> Goto("in_progress") /\ UNCHANGED media
    [] pc = "in_progress" -> Goto("talking") /\ UNCHANGED media
    [] pc = "deny"        -> Goto("analysis") /\ UNCHANGED media
    [] OTHER              -> Goto("analysis") /\ UNCHANGED media

\* Mutation: the final transition falls back on any error.
AlwaysFallsBack(verdict) ==
  CASE pc = "finalize" -> Goto("fallback") /\ UNCHANGED media
    [] pc = "fallback" -> Goto("analysis") /\ UNCHANGED media
    [] OTHER           -> ToTeardown

\* ...and one that raised: the final transition falls back to interrupted on an
\* invalid transition, and lets go of the row on any other error.
Refused(verdict) ==
  CASE pc = "finalize" /\ verdict = "invalid" -> Goto("fallback") /\ UNCHANGED media
    [] pc = "fallback" \/ (pc = "finalize" /\ verdict # "invalid")
         -> Goto("analysis") /\ UNCHANGED media
    [] OTHER -> ToTeardown

ReadRow ==
  /\ pc \in RowPcs /\ stage = "running"
  /\ LET verdict == VerdictOf(Awaited)
     IN CASE verdict = "write" -> stage' = "read" /\ UNCHANGED <<pc, media>>
          [] verdict = "same"  -> Accepted
          [] OTHER             -> Refused(verdict)
  /\ UNCHANGED <<row, reason, engine, writer, hangup, raised, orphans, process, history>>

CommitRow ==
  /\ pc \in RowPcs /\ stage = "read"
  /\ row' = Written(row, Awaited.to, Awaited.why)
  /\ Accepted
  /\ UNCHANGED <<reason, engine, writer, hangup, raised, orphans, process, history>>

\* The database raises, or submitting to the closed executor does.
DbFails ==
  /\ pc \in DbPcs
  /\ \/ "error" \in Faults
     \/ stage = "queued" /\ process \in {"closed", "exiting"}
  /\ IF pc = "analysis" THEN Goto("ended") /\ UNCHANGED media
                        ELSE Refused("error")
  /\ cut' = IF pc \in {"deny", "finalize", "fallback"} THEN cut \cup {"db_error"} ELSE cut
  /\ UNCHANGED <<row, reason, engine, writer, hangup, raised, orphans, process,
                 lost, denied, overwritten>>

OrphanReads(write) ==
  /\ ~ write.read
  /\ orphans' = IF VerdictOf(write) = "write"
                THEN (orphans \ {write}) \cup {[write EXCEPT !.read = TRUE]}
                ELSE orphans \ {write}
  /\ UNCHANGED <<row, pc, stage, reason, resources, hangup, raised,
                 process, history>>

OrphanCommits(write) ==
  /\ write.read
  /\ row' = Written(row, write.to, write.why)
  /\ orphans' = orphans \ {write}
  /\ UNCHANGED <<pc, stage, reason, resources, hangup, raised,
                 process, history>>

OutsiderCommits ==
  /\ "outsider" \in Faults
  /\ \E why \in OutsideReasons : row' = WrittenOutside(row, why)
  /\ overwritten' = TRUE
  /\ UNCHANGED <<pc, stage, reason, resources, hangup, raised, orphans, process,
                 lost, denied, cut>>

-----------------------------------------------------------------------------
(* _run_pumps_with_remote_hangup_detection                                 *)

Unwind(exception) == Goto("unwinding") /\ raised' = exception

\* The caller hangs up; the event reaches the task only while it subscribes.
HangupArrives ==
  /\ hangup = "none" /\ process \in {"running", "stopping"} /\ pc # "ended"
  /\ hangup' = IF pc \in {"talking", "unwinding"} THEN "queued" ELSE "lost"
  /\ UNCHANGED <<row, pc, stage, reason, resources, raised, orphans,
                 process, history>>

\* Mutation: the watcher notes the reason and leaves the pumps running.
WatcherNotes ==
  /\ hangup = "queued" /\ pc \in {"talking", "unwinding"}
  /\ hangup' = "seen"
  /\ reason' = "hangup"
  /\ UNCHANGED <<row, pc, stage, raised, resources, orphans, process, history>>

\* The watcher stops the pumps; the CancelledError that follows is swallowed, as is
\* any other that comes with it.
WatcherStops ==
  /\ hangup = "queued" /\ pc \in {"talking", "unwinding"}
  /\ hangup' = "seen"
  /\ reason' = "hangup"
  /\ Unwind("nothing")
  /\ UNCHANGED <<row, resources, orphans, process, history>>

\* Both pumps end, or one raises.
PumpsEnd ==
  /\ pc = "talking"
  /\ \/ Unwind("nothing")
     \/ "media" \in Faults /\ Unwind("transport")
     \/ "engine" \in Faults /\ Unwind("other")
  /\ UNCHANGED <<row, reason, resources, hangup, orphans, process, history>>

\* Mutation: a TransportError leaves the reason at its default.
UnwoundAsHangup ==
  /\ pc = "unwinding"
  /\ lost' = (raised = "transport")
  /\ hangup' = IF hangup = "queued" THEN "lost" ELSE hangup
  /\ ToTeardown
  /\ UNCHANGED <<row, reason, engine, writer, raised, orphans, process,
                 denied, overwritten, cut>>

\* The pumps are gone, the watcher is cancelled and the queue given up.
Unwound ==
  /\ pc = "unwinding"
  /\ reason' = IF raised = "transport" THEN "media_disconnect" ELSE reason
  /\ lost' = (raised = "transport")
  /\ hangup' = IF hangup = "queued" THEN "lost" ELSE hangup
  /\ ToTeardown
  /\ UNCHANGED <<row, engine, writer, raised, orphans, process,
                 denied, overwritten, cut>>

-----------------------------------------------------------------------------
(* The finally block                                                       *)

\* conversation_persistence.finish(): drained, or cut off by its timeout.
Flush ==
  /\ pc = "flush"
  /\ writer' = "closed"
  /\ ToClose
  /\ UNCHANGED <<row, reason, engine, hangup, raised, orphans, process, history>>

\* Mutation: a close that raises skips the steps up to the finalization.
CloseSkipsDetach ==
  /\ pc = "close"
  /\ engine' = "closed"
  /\ Goto("finalize") /\ UNCHANGED media
  /\ UNCHANGED <<row, reason, writer, hangup, raised, orphans, process, history>>

\* engine_session.close() returns, raises or times out.
Close ==
  /\ pc = "close"
  /\ engine' = "closed"
  /\ ToDetach
  /\ UNCHANGED <<row, reason, writer, hangup, raised, orphans, process, history>>

\* media.detach() returns, raises or times out.
Detach ==
  /\ pc = "detach"
  /\ Goto("finalize")
  /\ UNCHANGED <<row, reason, resources, hangup, raised, orphans, process, history>>

Analyse ==
  /\ pc = "analysis" /\ stage = "running"
  /\ Goto("ended")
  /\ UNCHANGED <<row, reason, resources, hangup, raised, orphans, process, history>>

-----------------------------------------------------------------------------
(* Cancellation.  What is done about it depends only on where it lands.    *)

\* Only a transition that has started survives its awaiter and matters to the row.
Orphaned ==
  IF pc \in RowPcs /\ stage # "queued" THEN orphans \cup {Awaited} ELSE orphans

\* The end of the pumps may come first: then their own exception goes on.
CancelsPumps ==
  /\ pc \in {"talking", "unwinding"}
  /\ \/ Unwind("nothing")
     \/ pc = "unwinding" /\ Unwind(raised)
  /\ UNCHANGED <<resources, orphans, cut>>

CancelsBody ==
  /\ pc \in BodyPcs
  /\ orphans' = Orphaned
  /\ cut' = IF Orphaned # orphans THEN cut \cup {"orphan"} ELSE cut
  /\ ToTeardown
  /\ UNCHANGED <<engine, writer, raised>>

\* The conversation worker's shutdown() swallows the CancelledError.
CancelsFlush ==
  /\ pc = "flush"
  /\ writer' = "closed"
  /\ ToClose
  /\ UNCHANGED <<engine, raised, orphans, cut>>

\* Nothing else in the finally block catches it.
CancelsTeardown ==
  /\ pc \in TeardownPcs \ {"flush"}
  /\ Goto("ended")
  /\ orphans' = Orphaned
  /\ cut' = cut \cup {"cancelled"}
  /\ UNCHANGED <<resources, raised>>

Cancel == CancelsPumps \/ CancelsBody \/ CancelsFlush \/ CancelsTeardown

Undisturbed == UNCHANGED <<pc, stage, resources, raised, orphans, cut>>

\* CallRuntime.shutdown() cancels the call with the reason runtime_shutdown.
Shutdown ==
  /\ "shutdown" \in Faults /\ process = "running" /\ pc # "ended"
  /\ process' = "stopping"
  /\ reason' = "runtime_shutdown"
  /\ Cancel
  /\ UNCHANGED <<row, hangup, lost, denied, overwritten>>

\* cancel_call() has waited long enough.  db.close() cancels what no thread has taken
\* up, which cancels whoever awaits it.
CloseDatabase ==
  /\ process = "stopping"
  /\ process' = "closed"
  /\ IF pc \in DbPcs /\ stage = "queued" THEN Cancel ELSE Undisturbed
  /\ UNCHANGED <<row, reason, hangup, lost, denied, overwritten>>

\* asyncio.run() cancels every task that is left, and waits for it.
ExitProcess ==
  /\ process = "closed"
  /\ process' = "exiting"
  /\ IF pc # "ended" THEN Cancel ELSE Undisturbed
  /\ UNCHANGED <<row, reason, hangup, lost, denied, overwritten>>

-----------------------------------------------------------------------------
DbStep == DbStart \/ Load \/ Deny \/ ReadRow \/ CommitRow \/ DbFails \/ Analyse
TaskStep ==
  \/ DbStep \/ Attach \/ AttachFails \/ StartEngine \/ StartEngineFails
  \/ WatcherStops \/ Unwound \/ Flush \/ Close \/ Detach
OrphanStep == \E write \in orphans : OrphanReads(write) \/ OrphanCommits(write)

Next ==
  \/ TaskStep \/ OrphanStep \/ PumpsEnd
  \/ HangupArrives \/ OutsiderCommits
  \/ Shutdown \/ CloseDatabase \/ ExitProcess

Spec == Init /\ [][Next]_vars

\* The task is scheduled and what it awaits is bounded, except for the conversation:
\* nobody has to hang up and no pump has to end.  Threads finish what they started.  A
\* shutdown that has begun goes on: all it waits for is bounded.
ProcessEnds == CloseDatabase \/ ExitProcess
FairSpec ==
  Spec /\ WF_vars(TaskStep) /\ WF_vars(OrphanStep) /\ WF_vars(ProcessEnds)

-----------------------------------------------------------------------------
(* What the rest of the fleet sees of the task.  Past its last write there  *)
(* is nothing to see, and of an abandoned write only what it may become.    *)

AsWrite(w, decided) ==
  [to |-> WriteStatus[w], why |-> WriteReason[w],
   expected |-> IF w \in OwnerWrites THEN Self ELSE NoOwner, read |-> decided]

FinalWrite == [hangup           |-> "completing",
               runtime_shutdown |-> "interrupting",
               media_disconnect |-> "failing"]

AwaitedWrite ==
  CASE pc = "deny"        -> "denying"
    [] pc = "in_progress" -> "progress"
    [] pc = "finalize"    -> FinalWrite[reason]
    [] OTHER              -> "interrupting"

Decided == pc \in RowPcs /\ stage = "read"

SeenTask ==
  CASE pc \in {"analysis", "ended"}     -> "none"
    [] pc \in {"talking", "unwinding"}  -> "talking"
    [] Decided                         -> AwaitedWrite
    [] pc \in BodyPcs /\ ~ Decided     -> "starting"
    [] OTHER                           -> "ending"

SeenLate == {k \in TaskWrites \X BOOLEAN : AsWrite(k[1], k[2]) \in orphans}

Hosted == INSTANCE HostedCall
            WITH task <- SeenTask, late <- SeenLate, stopping <- process # "running"

-----------------------------------------------------------------------------
(* Properties                                                              *)

\* The task keeps its side of the contract with the rest of the fleet: whatever interrupts
\* it, it decides on no write out of turn, and nothing outlives it but what it had started.
ImplementsHostedCall == Hosted!Spec

Ended == pc = "ended" /\ orphans = {}

\* A call whose task has ended is in a terminal status, whatever was raised, denied,
\* lost or written by others on the way, unless a cancellation hit the finally block
\* past its first step, the database refused the final write, or a write whose
\* awaiter had been cancelled was still running when the row was finalized.
FinalizedUnlessCutShort == Ended /\ cut = {} => IsTerminal(row)

\* The ended task holds nothing: the conversation worker is gone however the task
\* ended, the engine session and the media stream unless the finally block was left.
Released ==
  pc = "ended" =>
    /\ writer # "open"
    /\ "cancelled" \notin cut => engine # "open" /\ media # "open"

\* The row of a call that neither a shutdown nor a failed write cut short tells why it
\* ended, unless another process overwrote it: the denial, the loss of the media the
\* pumps reported, or else a normal end.  No race of a HUNGUP with a media failure
\* makes the row tell anything but what the pumps ended with.
OutcomeMatchesCause ==
  Ended /\ cut = {} /\ process = "running"
    /\ ~ (overwritten /\ row.endReason \in OutsideReasons) =>
    row.endReason = IF denied THEN "authorization_denied"
                    ELSE IF lost THEN "media_disconnect" ELSE "completed"

\* A hangup the task was told of, and a shutdown, end the task.
StopsWhenTold == (hangup = "queued" \/ process # "running") ~> pc = "ended"

\* runtime/call_task.py: wherever cancellation lands, the CallSession is always
\* finalized.  Asked only of a process whose database boundary is still open.
AlwaysFinalized ==
  Ended /\ process \in {"running", "stopping"} => IsTerminal(row)
=============================================================================
