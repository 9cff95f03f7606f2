----------------------------- MODULE AnalysisJobs -----------------------------
(***************************************************************************)
(* call_ai_analyses of one ended call: the versions that API requests ask  *)
(* for and the workers that claim and run them.                            *)
(*                                                                         *)
(* As with follow-ups, a claim locks its row, and an outcome is decided on *)
(* a row that was read without a lock: its write waits in `verdict`.  Two  *)
(* rules of the table hold whoever writes: a completed row is immutable    *)
(* (a trigger), and a row has a failure reason exactly when it has failed, *)
(* which turns away a completion that meets a failed row.                  *)
(*                                                                         *)
(* Time is what next_attempt_at says of it: never (NULL), later or now.    *)
(***************************************************************************)
EXTENDS Naturals

CONSTANTS
  Analysts,      \* CallAiAnalysisWorker processes, each runs one analysis at a time
  Requesters,    \* API requests between their read and their insert
  MaxVersion,    \* bound: versions of the call's analysis
  AttemptLimit,  \* retry_policy.MAX_ATTEMPTS
  MaxMishaps     \* bound: analyses whose process dies or whose tick raises

ASSUME AnalysisAssumption ==
  /\ MaxVersion \in Nat \ {0}
  /\ AttemptLimit \in Nat \ {0}
  /\ MaxMishaps \in Nat

VARIABLES
  job,        \* [Versions -> CallAiAnalysis]
  busy,       \* [Analysts -> the version it runs, 0 when idle]
  stage,      \* [Analysts -> how far run_call_ai_analysis is]
  verdict,    \* [Analysts -> the Outcome it is about to write, or NoOutcome]
  asking,     \* [Requesters -> the version it is about to insert, 0 when none]
  mishaps,    \* analyses abandoned so far
  overtaken   \* history: versions that had failed when their successor was asked for

analysisVars == <<job, busy, stage, verdict, asking, mishaps, overtaken>>

Versions == 1..MaxVersion
Stages == {"idle", "prepare", "analyze", "complete", "fail"}

CallAiAnalysis ==
  [status   : {"absent", "pending", "processing", "completed", "failed"},
   attempts : Nat,
   due      : {"never", "later", "now"}]

\* The columns an outcome writes.
Outcomes == [status : {"completed", "failed"}, due : {"never", "later"}]
NoOutcome == [status |-> "none", due |-> "none"]

AnalysisTypeOK ==
  /\ job \in [Versions -> CallAiAnalysis]
  /\ busy \in [Analysts -> Versions \cup {0}]
  /\ stage \in [Analysts -> Stages]
  /\ verdict \in [Analysts -> Outcomes \cup {NoOutcome}]
  /\ asking \in [Requesters -> Versions \cup {0}]
  /\ mishaps \in 0..MaxMishaps
  /\ overtaken \subseteq Versions

AnalysisInit ==
  /\ job = [v \in Versions |-> [status |-> "absent", attempts |-> 0, due |-> "never"]]
  /\ busy = [w \in Analysts |-> 0]
  /\ stage = [w \in Analysts |-> "idle"]
  /\ verdict = [w \in Analysts |-> NoOutcome]
  /\ asking = [q \in Requesters |-> 0]
  /\ mishaps = 0
  /\ overtaken = {}

analystVars == <<busy, stage, verdict>>

-----------------------------------------------------------------------------
(* request_analysis, which the rebuild route calls with force_rebuild      *)

Existing == {v \in Versions : job[v].status # "absent"}
Latest(v) == v \in Existing \cup {0} /\ \A u \in Existing : u <= v

\* Mutation: the state of the latest version is not looked at.
AlwaysMayFollow(v) == TRUE
MayFollow(v) == v # 0 => job[v].status \in {"completed", "failed"}

\* Another version is wanted, after the latest that the request has read; a request
\* without force_rebuild, or for a version under way, ends with the latest.
RequestAnalysis(q) ==
  /\ asking[q] = 0
  /\ \E v \in 0..(MaxVersion - 1) :
       /\ Latest(v) /\ MayFollow(v)
       /\ asking' = [asking EXCEPT ![q] = v + 1]
       /\ overtaken' = overtaken \cup {u \in {v} \cap Versions : job[u].status = "failed"}
  /\ UNCHANGED <<job, analystVars, mishaps>>

\* uq_call_ai_analyses_call_session_version.
VersionIsFree(v) == job[v].status = "absent"

\* The insert, or an IntegrityError that nothing catches.
InsertAnalysis(q) ==
  /\ asking[q] # 0
  /\ asking' = [asking EXCEPT ![q] = 0]
  /\ job' = IF VersionIsFree(asking[q])
              THEN [job EXCEPT ![asking[q]] =
                     [status |-> "pending", attempts |-> 0, due |-> "now"]]
              ELSE job
  /\ UNCHANGED <<analystVars, mishaps, overtaken>>

\* A backoff or a lease runs out.
AnalysisElapse(v) ==
  /\ job[v].due = "later"
  /\ job' = [job EXCEPT ![v].due = "now"]
  /\ UNCHANGED <<analystVars, asking, mishaps, overtaken>>

-----------------------------------------------------------------------------
(* CallAiAnalysisWorker and run_call_ai_analysis                           *)

\* Mutation: a row whose worker died is left in processing.
AnalysisUnderWayOrDue(v) == job[v].status \in {"pending", "failed"} /\ job[v].due = "now"
AnalysisIsDue(v) ==
  job[v].status \in {"pending", "processing", "failed"} /\ job[v].due = "now"

ClaimPendingAnalysis(w) ==
  /\ stage[w] = "idle"
  /\ \E v \in Versions :
       /\ AnalysisIsDue(v)
       /\ job' = [job EXCEPT ![v] = [status |-> "processing", attempts |-> @.attempts + 1,
                                     due |-> "later"]]
       /\ busy' = [busy EXCEPT ![w] = v]
       /\ stage' = [stage EXCEPT ![w] = "prepare"]
  /\ UNCHANGED <<verdict, asking, mishaps, overtaken>>

ToStage(w, s) ==
  /\ stage' = [stage EXCEPT ![w] = s]
  /\ UNCHANGED <<job, busy, verdict, asking, mishaps, overtaken>>

\* Authorize the use of the transcript, then read it: either may fail the analysis.
Prepare(w) == stage[w] = "prepare" /\ \E s \in {"analyze", "fail"} : ToStage(w, s)

\* A result; or a timeout, a provider error or an answer that is not a result.
Analyze(w) == stage[w] = "analyze" /\ \E s \in {"complete", "fail"} : ToStage(w, s)

\* The guard both outcomes share; execution_id always matches.
Owned(w) == job[busy[w]].status = "processing"

CompleteAnalysis == [status |-> "completed", due |-> "never"]

FailAnalysis(j) ==
  [status |-> "failed", due |-> IF j.attempts >= AttemptLimit THEN "never" ELSE "later"]

Conclude(w) ==
  /\ stage[w] \in {"complete", "fail"} /\ verdict[w] = NoOutcome
  /\ Owned(w)
  /\ verdict' = [verdict EXCEPT ![w] =
       IF stage[w] = "complete" THEN CompleteAnalysis ELSE FailAnalysis(job[busy[w]])]
  /\ UNCHANGED <<job, busy, stage, asking, mishaps, overtaken>>

AnalystIdle(w) ==
  /\ busy' = [busy EXCEPT ![w] = 0]
  /\ stage' = [stage EXCEPT ![w] = "idle"]
  /\ verdict' = [verdict EXCEPT ![w] = NoOutcome]
  /\ UNCHANGED <<asking, overtaken>>

\* CallAiAnalysisExecutionConflictError ends the tick.
AnalysisConflict(w) ==
  /\ stage[w] \in {"complete", "fail"} /\ verdict[w] = NoOutcome
  /\ ~ Owned(w)
  /\ AnalystIdle(w)
  /\ UNCHANGED <<job, mishaps>>

\* The trigger on completed rows, and the check constraint of failure_reason.
Allowed(j, outcome) ==
  /\ j.status # "completed"
  /\ ~ (j.status = "failed" /\ outcome.status = "completed")

\* A write the table refuses raises, and ends the tick.
CommitVerdict(w) ==
  /\ verdict[w] # NoOutcome
  /\ job' = IF Allowed(job[busy[w]], verdict[w])
              THEN [job EXCEPT ![busy[w]].status = verdict[w].status,
                               ![busy[w]].due = verdict[w].due]
              ELSE job
  /\ AnalystIdle(w)
  /\ UNCHANGED mishaps

\* The process dies or is shut down, or something raises that run_call_ai_analysis does
\* not catch: the row waits for its lease.
AbandonAnalysis(w) ==
  /\ stage[w] # "idle"
  /\ mishaps < MaxMishaps
  /\ mishaps' = mishaps + 1
  /\ AnalystIdle(w)
  /\ UNCHANGED job

-----------------------------------------------------------------------------
AnalystStep(w) ==
  \/ ClaimPendingAnalysis(w) \/ Prepare(w) \/ Analyze(w)
  \/ Conclude(w) \/ AnalysisConflict(w) \/ CommitVerdict(w)

AnalysisNext ==
  \/ \E w \in Analysts : AnalystStep(w) \/ AbandonAnalysis(w)
  \/ \E q \in Requesters : RequestAnalysis(q) \/ InsertAnalysis(q)
  \/ \E v \in Versions : AnalysisElapse(v)

AnalysisSpec == AnalysisInit /\ [][AnalysisNext]_analysisVars

\* Time passes and every worker polls and goes on; nobody has to request anything.
AnalysisFairness ==
  /\ \A w \in Analysts : WF_analysisVars(AnalystStep(w))
  /\ \A v \in Versions : WF_analysisVars(AnalysisElapse(v))

-----------------------------------------------------------------------------
(* Properties                                                              *)

\* service.py, request_analysis: an older version is under way beside a newer one only
\* if it had failed, with attempts left or a late outcome to come, when the newer one
\* was asked for.
ConcurrentAnalysesAreExcused ==
  \A v, u \in Versions :
    v < u /\ u \in Existing /\ job[v].status \in {"pending", "processing"} => v \in overtaken

AnalysisIsOver(v) ==
  \/ job[v].status = "completed"
  \/ job[v].status = "failed" /\ job[v].due = "never"

\* Whenever an analysis that was requested is neither completed nor failed for good, all of
\* them come to be: no worker that dies, and no late verdict of one, leaves a row behind.
JobIsSettled ==
  (\E v \in Existing : ~ AnalysisIsOver(v)) ~> (\A v \in Existing : AnalysisIsOver(v))
=============================================================================
