---------------------------- MODULE WorkerProcess -----------------------------
(***************************************************************************)
(* A background worker process, from its start to its exit: the scripts     *)
(* run_followup_worker and run_call_intelligence_worker, the polling loop   *)
(* of FollowUpWorker and CallAiAnalysisWorker, the threads of their         *)
(* DatabaseBoundary and the health listener.  The two scripts and the two   *)
(* pollers are alike, but that a follow-up is executed by one call in a     *)
(* thread and an analysis by a coroutine that makes several.  FollowUps and *)
(* AnalysisJobs have what one execution does to its row.                    *)
(***************************************************************************)
EXTENDS Integers, FiniteSets

CONSTANTS
  TenantIds,      \* the tenants the operator lists
  Busy,           \* tenants that always have something due
  MaxConcurrent,  \* max_concurrent_tenants
  MaxClaims,      \* max_claims_per_tenant_per_tick
  Threads,        \* _DB_POOL_SIZE
  MaxDue,         \* bound: executions that become due for a tenant
  MaxErrors       \* bound: executions that raise

ASSUME WorkerProcessAssumption ==
  /\ Busy \subseteq TenantIds
  /\ MaxConcurrent \in Nat \ {0} /\ MaxClaims \in Nat \ {0} /\ Threads \in Nat \ {0}
  /\ MaxDue \in Nat /\ MaxErrors \in Nat

VARIABLES
  script,    \* which of the two scripts runs
  main,      \* where _run is
  ready,     \* HealthState
  stop,      \* stop_event
  poll,      \* the task of _run_loop
  drain,     \* [TenantIds -> where _bounded is in this tick]
  claims,    \* [TenantIds -> executions in this tick]
  run,       \* [TenantIds -> the execution of the tenant]
  due,       \* [TenantIds -> what is due]
  appeared,  \* [TenantIds -> what has become due so far]
  errors,
  probe      \* the connection of a probe of /readyz

workerVars == <<script, main, ready, stop, poll, drain, claims, run, due, appeared,
                errors, probe>>
tickVars == <<drain, claims, run, due, appeared, errors>>
shellVars == <<script, main, ready, stop>>

WorkerTypeOK ==
  /\ script \in {"followups", "analysis"}
  /\ main \in {"booting", "listening", "running", "draining", "closing", "ended",
                  "exited", "killed"}
  /\ ready \in BOOLEAN /\ stop \in BOOLEAN
  /\ poll \in {"none", "begun", "tick", "sleep"}
  /\ drain \in [TenantIds -> {"rest", "waiting", "draining"}]
  /\ claims \in [TenantIds -> 0..MaxClaims]
  /\ run \in [TenantIds -> {"none", "queued", "running", "executed", "nothing", "raised"}]
  /\ due \in [TenantIds -> 0..MaxDue + 1] /\ appeared \in [TenantIds -> 0..MaxDue]
  /\ errors \in 0..MaxErrors
  /\ probe \in {"none", "reading"}

WorkerInit ==
  /\ script \in {"followups", "analysis"}
  /\ main = "booting" /\ ready = FALSE /\ stop = FALSE
  /\ poll = "none"
  /\ drain = [t \in TenantIds |-> "rest"] /\ claims = [t \in TenantIds |-> 0]
  /\ run = [t \in TenantIds |-> "none"]
  /\ due = [t \in TenantIds |-> IF t \in Busy THEN 1 ELSE 0]
  /\ appeared = [t \in TenantIds |-> 0]
  /\ errors = 0 /\ probe = "none"

-----------------------------------------------------------------------------
(* _run: the start                                                         *)

\* Liveness is answered from here on.
ServeHealth ==
  /\ main = "booting"
  /\ main' = "listening"
  /\ UNCHANGED <<script, ready, stop, poll, tickVars, probe>>

\* validate_deployment_readiness() before the listener, a missing or malformed variable
\* after it.
ConfigurationFails ==
  /\ main \in {"booting", "listening"}
  /\ main' = "ended"
  /\ UNCHANGED <<script, ready, stop, poll, tickVars, probe>>

\* Nothing is awaited from start() to stop_event.wait(): the loop is created, readiness
\* declared and the signal handlers installed in one step.
Start ==
  /\ main = "listening"
  /\ main' = "running"
  /\ poll' = "begun"
  /\ ready' = TRUE
  /\ UNCHANGED <<script, stop, tickVars, probe>>

\* SIGTERM or SIGINT: until its handler is installed it ends the process.
Signal ==
  /\ \/ /\ main \in {"booting", "listening"}
        /\ main' = "killed"
        /\ UNCHANGED stop
     \/ /\ main = "running"
        /\ stop' = TRUE
        /\ UNCHANGED main
  /\ UNCHANGED <<script, ready, poll, tickVars, probe>>

-----------------------------------------------------------------------------
(* _run_loop, poll_once, _drain_one_tenant                                 *)

Polls == main = "running"

BeginTick ==
  /\ Polls /\ poll \in {"begun", "sleep"}
  /\ poll' = "tick"
  /\ drain' = [t \in TenantIds |-> "waiting"]
  /\ claims' = [t \in TenantIds |-> 0]
  /\ UNCHANGED <<shellVars, run, due, appeared, errors, probe>>

Draining == {t \in TenantIds : drain[t] = "draining"}
Running == {t \in TenantIds : run[t] = "running"}

\* A thread has to take a follow-up up, an analysis is run by the loop itself.
FirstStep == IF script = "followups" THEN "queued" ELSE "running"

\* The semaphore of the tick admits the tenant.
AdmitTenant(t) ==
  /\ Polls /\ drain[t] = "waiting" /\ Cardinality(Draining) < MaxConcurrent
  /\ drain' = [drain EXCEPT ![t] = "draining"]
  /\ run' = [run EXCEPT ![t] = FirstStep]
  /\ UNCHANGED <<shellVars, poll, claims, due, appeared, errors, probe>>

ThreadTakes(t) ==
  /\ run[t] = "queued" /\ Cardinality(Running) < Threads
  /\ run' = [run EXCEPT ![t] = "running"]
  /\ UNCHANGED <<shellVars, poll, drain, claims, due, appeared, errors, probe>>

\* Something due was executed, nothing was due, or the execution raised.  Nobody hears of
\* an execution whose awaiter was cancelled.
EndsExecution(t, how) ==
  run' = [run EXCEPT ![t] = IF drain[t] = "draining" THEN how ELSE "none"]

Executed(t) ==
  /\ run[t] = "running"
  /\ IF due[t] > 0
       THEN /\ EndsExecution(t, "executed")
            /\ due' = [due EXCEPT ![t] = IF t \in Busy THEN @ ELSE @ - 1]
       ELSE EndsExecution(t, "nothing") /\ UNCHANGED due
  /\ UNCHANGED <<shellVars, poll, drain, claims, appeared, errors, probe>>

Raises(t) ==
  /\ run[t] = "running" /\ errors < MaxErrors
  /\ errors' = errors + 1
  /\ EndsExecution(t, "raised")
  /\ UNCHANGED <<shellVars, poll, drain, claims, due, appeared, probe>>

\* Mutation: a tenant is drained until nothing is due.
ClaimsOn(t) == run[t] = "executed"
ClaimsAgain(t) == run[t] = "executed" /\ claims[t] + 1 < MaxClaims

\* An error is caught here, so that it ends the tick of this tenant only.
HearOutcome(t) ==
  /\ Polls /\ drain[t] = "draining" /\ run[t] \in {"executed", "nothing", "raised"}
  /\ claims' = [claims EXCEPT ![t] = IF run[t] = "executed" /\ @ < MaxClaims THEN @ + 1
                                                                          ELSE @]
  /\ IF ClaimsAgain(t)
       THEN run' = [run EXCEPT ![t] = FirstStep] /\ UNCHANGED drain
       ELSE /\ run' = [run EXCEPT ![t] = "none"]
            /\ drain' = [drain EXCEPT ![t] = "rest"]
  /\ UNCHANGED <<shellVars, poll, due, appeared, errors, probe>>

\* gather() returns when every tenant has been drained.
EndTick ==
  /\ Polls /\ poll = "tick" /\ \A t \in TenantIds : drain[t] = "rest"
  /\ poll' = "sleep"
  /\ UNCHANGED <<shellVars, tickVars, probe>>

BecomesDue(t) ==
  /\ appeared[t] < MaxDue
  /\ appeared' = [appeared EXCEPT ![t] = @ + 1]
  /\ due' = [due EXCEPT ![t] = @ + 1]
  /\ UNCHANGED <<shellVars, poll, drain, claims, run, errors, probe>>

-----------------------------------------------------------------------------
(* _run: the shutdown                                                      *)

\* Not ready before anything else; then shutdown() cancels the loop, and with it the
\* tick and what it awaits.
BeginShutdown ==
  /\ main = "running" /\ stop
  /\ main' = "draining"
  /\ ready' = FALSE
  /\ poll' = "none"
  /\ drain' = [t \in TenantIds |-> "rest"]
  /\ UNCHANGED <<script, stop, claims, run, due, appeared, errors, probe>>

\* A thread goes on, a coroutine ends at once or with the call it awaits.
AfterCancel(r) ==
  IF r # "running" THEN {"none"}
  ELSE IF script = "followups" THEN {"running"} ELSE {"running", "none"}

\* shutdown() has returned: db.close(), which waits for no thread, and the listener.
CloseListener ==
  /\ main = "draining"
  /\ main' = "closing"
  /\ \E left \in [TenantIds -> {"none", "queued", "running"}] :
       /\ \A t \in TenantIds : left[t] \in AfterCancel(run[t])
       /\ run' = left
  /\ UNCHANGED <<script, ready, stop, poll, drain, claims, due, appeared, errors, probe>>

\* wait_closed() waits for the connections that are open.
EndRun ==
  /\ main = "closing" /\ probe = "none"
  /\ main' = "ended"
  /\ UNCHANGED <<script, ready, stop, poll, tickVars, probe>>

\* The interpreter joins the threads.
Exit ==
  /\ main = "ended" /\ Running = {}
  /\ main' = "exited"
  /\ UNCHANGED <<script, ready, stop, poll, tickVars, probe>>

-----------------------------------------------------------------------------
(* The health listener                                                     *)

Listening == main \in {"listening", "running", "draining"}

ProbeConnects ==
  /\ Listening /\ probe = "none"
  /\ probe' = "reading"
  /\ UNCHANGED <<shellVars, poll, tickVars>>

\* The latch is read when the request has been.
AnswerProbe ==
  /\ probe = "reading"
  /\ probe' = "none"
  /\ UNCHANGED <<shellVars, poll, tickVars>>

\* Mutation: a request may take as long as it likes.
WaitsForRequest == FALSE
\* A line of the request does not come within _READ_TIMEOUT_SECONDS: closed without an
\* answer.  A request that comes line by line, each in time, takes as long as it likes.
GivesUpOnProbe == probe = "reading"

ProbeStalls ==
  /\ GivesUpOnProbe
  /\ probe' = "none"
  /\ UNCHANGED <<shellVars, poll, tickVars>>

-----------------------------------------------------------------------------
WorkerNext ==
  \/ ServeHealth \/ ConfigurationFails \/ Start \/ Signal
  \/ BeginTick \/ EndTick
  \/ \E t \in TenantIds : \/ AdmitTenant(t) \/ ThreadTakes(t) \/ Executed(t) \/ Raises(t)
                        \/ HearOutcome(t) \/ BecomesDue(t)
  \/ BeginShutdown \/ CloseListener \/ EndRun \/ Exit
  \/ ProbeConnects \/ AnswerProbe \/ ProbeStalls

WorkerSpec == WorkerInit /\ [][WorkerNext]_workerVars

\* The event loop runs whatever is ready to, the semaphore and the executor serve whoever
\* waits, and an execution ends.  Whoever probes may send nothing.
WorkerFairness ==
  /\ WF_workerVars(BeginTick) /\ WF_workerVars(EndTick)
  /\ WF_workerVars(BeginShutdown) /\ WF_workerVars(CloseListener)
  /\ WF_workerVars(EndRun) /\ WF_workerVars(Exit)
  /\ \A t \in TenantIds :
       /\ WF_workerVars(AdmitTenant(t)) /\ WF_workerVars(HearOutcome(t))
       /\ SF_workerVars(ThreadTakes(t)) /\ WF_workerVars(Executed(t))
  /\ WF_workerVars(ProbeStalls)

FairWorkerSpec == WorkerSpec /\ WorkerFairness

-----------------------------------------------------------------------------
(* Properties                                                              *)

\* worker.py: the ceiling is there so that a tenant "with many due follow-ups cannot
\* starve every other tenant's own tick", and errors are isolated: whatever the other
\* tenants have due, and whoever's executions raise, what is due is executed while the
\* process is not told to stop.
EveryTenantIsServed ==
  \A t \in TenantIds \ Busy : due[t] > 0 /\ main = "running" ~> due[t] = 0 \/ stop

\* A process that is told to stop exits: no queue, tick, slow thread or probe that says
\* nothing holds it up.
StopCompletes == stop ~> main = "exited"
===============================================================================
