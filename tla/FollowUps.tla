------------------------------ MODULE FollowUps ------------------------------
(***************************************************************************)
(* follow_up_actions of one tenant: the workers that claim due rows under  *)
(* a lease and execute them, and the API requests that complete, cancel    *)
(* and reprocess the same rows.                                            *)
(*                                                                         *)
(* claim_due_follow_up locks the row it takes, so reading and writing are  *)
(* one step.  Every other function reads the row without a lock, decides,  *)
(* and at commit writes only the columns it changed: its write is a Change *)
(* that waits in `pending` or `requests`, and lands on whatever the row    *)
(* holds by then.                                                          *)
(*                                                                         *)
(* Time is what next_attempt_at says of it: never (NULL), later or now.    *)
(* execution_id is left out: a row has one for good, so no comparison with *)
(* it ever tells two executions apart.                                     *)
(***************************************************************************)
EXTENDS Naturals, FiniteSets

CONSTANTS
  Rows,          \* ids of follow-ups
  Workers,       \* FollowUpWorker processes, each executes one row at a time
  NoRow,         \* the row of an idle worker
  MaxAttempts,   \* retry_policy.MAX_ATTEMPTS
  MaxRequests,   \* bound: API requests between their read and their write
  MaxAbandons    \* bound: executions that die or whose database call raises

ASSUME FollowUpAssumption ==
  /\ NoRow \notin Rows
  /\ IsFiniteSet(Workers)
  /\ MaxAttempts \in Nat \ {0}
  /\ MaxRequests \in Nat
  /\ MaxAbandons \in Nat

VARIABLES
  row,        \* [Rows -> FollowUpAction]
  running,    \* [Workers -> Rows \cup {NoRow}], the row a worker executes
  attempt,    \* [Workers -> the attempt_count of its claim]
  pending,    \* [Workers -> the Change it is about to write, or Nothing]
  requests,   \* API requests that are about to write, <<row, Change>>
  abandons,   \* executions abandoned so far
  excused     \* history: [Rows -> leases that ran out, or were cut by a late reprocess]

vars == <<row, running, attempt, pending, requests, abandons, excused>>

-----------------------------------------------------------------------------
(* followups/lifecycle.py, followups/models.py                             *)

VALID_STATUSES == {"pending", "processing", "completed", "cancelled", "failed"}
TERMINAL_STATUSES == {"completed", "cancelled"}

Transitions(status) ==
  CASE status = "pending"    -> {"processing", "completed", "cancelled"}
    [] status = "processing" -> {"completed", "failed"}
    [] status = "failed"     -> {"processing", "cancelled"}
    [] OTHER                 -> {}

Dues == {"never", "later", "now"}

\* Only appointments with a due_at are ever due; status "absent" is no row yet.
FollowUpAction == [status   : VALID_STATUSES \cup {"absent"},
                   attempts : Nat,
                   due      : Dues]

\* The columns of a write; "keep" is a column that is not in it.
Changes == [status : VALID_STATUSES \cup {"keep"}, due : Dues \cup {"keep"}]
Nothing == [status |-> "keep", due |-> "keep"]

Applied(r, change) ==
  [r EXCEPT !.status = IF change.status = "keep" THEN @ ELSE change.status,
            !.due    = IF change.due = "keep" THEN @ ELSE change.due]

TypeOK ==
  /\ row \in [Rows -> FollowUpAction]
  /\ running \in [Workers -> Rows \cup {NoRow}]
  /\ attempt \in [Workers -> Nat]
  /\ pending \in [Workers -> Changes]
  /\ requests \subseteq Rows \X Changes
  /\ abandons \in 0..MaxAbandons
  /\ excused \in [Rows -> Nat]

Init ==
  /\ row = [f \in Rows |-> [status |-> "absent", attempts |-> 0, due |-> "never"]]
  /\ running = [w \in Workers |-> NoRow]
  /\ attempt = [w \in Workers |-> 0]
  /\ pending = [w \in Workers |-> Nothing]
  /\ requests = {}
  /\ abandons = 0
  /\ excused = [f \in Rows |-> 0]

workerVars == <<running, attempt, pending>>

-----------------------------------------------------------------------------
(* Rows and time                                                           *)

CreateFollowUp(f) ==
  /\ row[f].status = "absent"
  /\ \E due \in {"never", "later"} :
       row' = [row EXCEPT ![f].status = "pending", ![f].due = due]
  /\ UNCHANGED <<workerVars, requests, abandons, excused>>

\* A due date, a backoff or a lease runs out.
Elapse(f) ==
  /\ row[f].due = "later"
  /\ row' = [row EXCEPT ![f].due = "now"]
  /\ excused' = [excused EXCEPT ![f] = IF row[f].status = "processing" THEN @ + 1 ELSE @]
  /\ UNCHANGED <<workerVars, requests, abandons>>

-----------------------------------------------------------------------------
(* FollowUpWorker and execute_due_follow_up                                *)

\* Mutation: a row whose worker died is left in processing.
ClaimableFresh(f) == row[f].status \in {"pending", "failed"} /\ row[f].due = "now"
Claimable(f) == row[f].status \in {"pending", "processing", "failed"} /\ row[f].due = "now"

\* Mutations: the claim is not counted, it takes no lease, or drops next_attempt_at.
ClaimUncounted(r) == [r EXCEPT !.status = "processing", !.due = "later"]
ClaimUnleased(r) == [r EXCEPT !.status = "processing", !.attempts = @ + 1]
ClaimNever(r) == [r EXCEPT !.status = "processing", !.attempts = @ + 1, !.due = "never"]

Claimed(r) == [r EXCEPT !.status = "processing", !.attempts = @ + 1, !.due = "later"]

ClaimDueFollowUp(w) ==
  /\ running[w] = NoRow
  /\ \E f \in Rows :
       /\ Claimable(f)
       /\ row' = [row EXCEPT ![f] = Claimed(@)]
       /\ running' = [running EXCEPT ![w] = f]
       /\ attempt' = [attempt EXCEPT ![w] = row'[f].attempts]
  /\ UNCHANGED <<pending, requests, abandons, excused>>

\* The guard both outcomes share; execution_id always matches.
StillProcessing(f) == row[f].status = "processing"

\* complete_follow_up_execution and fail_follow_up_execution, as decided on the row read.
\* Mutation: the status is a word of call_outcomes.
ResolvedChange == [status |-> "resolved", due |-> "never"]
CompletedChange == [status |-> "completed", due |-> "never"]
\* Mutation: the ceiling is one attempt higher.
FailedOneMore(r) ==
  [status |-> "failed", due |-> IF r.attempts > MaxAttempts THEN "never" ELSE "later"]
FailedChange(r) ==
  [status |-> "failed", due |-> IF r.attempts >= MaxAttempts THEN "never" ELSE "later"]

\* The calendar event stands, or not; the outcome function reads the row.
ReachOutcome(w) ==
  LET f == running[w]
  IN /\ f # NoRow /\ pending[w] = Nothing
     /\ StillProcessing(f)
     /\ \E change \in {CompletedChange, FailedChange(row[f])} :
          pending' = [pending EXCEPT ![w] = change]
     /\ UNCHANGED <<row, running, attempt, requests, abandons, excused>>

Idle(w) ==
  /\ running' = [running EXCEPT ![w] = NoRow]
  /\ attempt' = [attempt EXCEPT ![w] = 0]
  /\ pending' = [pending EXCEPT ![w] = Nothing]

\* FollowUpExecutionConflictError ends the tick.
Conflict(w) ==
  /\ running[w] # NoRow /\ pending[w] = Nothing
  /\ ~ StillProcessing(running[w])
  /\ Idle(w)
  /\ UNCHANGED <<row, requests, abandons, excused>>

CommitOutcome(w) ==
  /\ pending[w] # Nothing
  /\ row' = [row EXCEPT ![running[w]] = Applied(@, pending[w])]
  /\ Idle(w)
  /\ UNCHANGED <<requests, abandons, excused>>

\* The process dies, or the transaction fails: nothing is written.
Abandon(w) ==
  /\ running[w] # NoRow
  /\ abandons < MaxAbandons
  /\ abandons' = abandons + 1
  /\ Idle(w)
  /\ UNCHANGED <<row, requests, excused>>

-----------------------------------------------------------------------------
(* The API: complete_follow_up, cancel_follow_up, reprocess_follow_up      *)

\* _transition_follow_up; a transition to the current status writes nothing.
TransitionChange(r, to) ==
  [status |-> to, due |-> IF r.due = "never" THEN "keep" ELSE "never"]

ReprocessChange == [status |-> "keep", due |-> "now"]

Retryable(r) == r.status = "failed" /\ r.attempts < MaxAttempts

Request(f, change) ==
  /\ Cardinality(requests) < MaxRequests
  /\ requests' = requests \cup {<<f, change>>}
  /\ UNCHANGED <<row, workerVars, abandons, excused>>

RequestTransition(f) ==
  \E to \in TERMINAL_STATUSES :
    /\ to \in Transitions(row[f].status)
    /\ Request(f, TransitionChange(row[f], to))

RequestReprocess(f) ==
  /\ Retryable(row[f])
  /\ Request(f, ReprocessChange)

\* A reprocess that lands on anything but a waiting failed row came too late.
CommitRequest(f, change) ==
  /\ <<f, change>> \in requests
  /\ row' = [row EXCEPT ![f] = Applied(@, change)]
  /\ requests' = requests \ {<<f, change>>}
  /\ excused' = [excused EXCEPT ![f] =
       IF change = ReprocessChange /\ (row[f].status # "failed" \/ row[f].due = "never")
         THEN @ + 1 ELSE @]
  /\ UNCHANGED <<workerVars, abandons>>

-----------------------------------------------------------------------------
WorkerStep(w) ==
  \/ ClaimDueFollowUp(w) \/ ReachOutcome(w) \/ Conflict(w) \/ CommitOutcome(w)

RequestStep == \E q \in requests : CommitRequest(q[1], q[2])

Next ==
  \/ \E w \in Workers : WorkerStep(w) \/ Abandon(w)
  \/ \E f \in Rows : \/ CreateFollowUp(f) \/ Elapse(f)
                     \/ RequestTransition(f) \/ RequestReprocess(f)
  \/ RequestStep

Spec == Init /\ [][Next]_vars

\* Time passes, every worker polls and gets on with what it claimed, and a request that
\* has read its row writes it.  Nobody has to create a follow-up or to request anything.
FairSpec ==
  /\ Spec
  /\ \A w \in Workers : WF_vars(WorkerStep(w))
  /\ \A f \in Rows : WF_vars(Elapse(f))
  /\ WF_vars(RequestStep)

-----------------------------------------------------------------------------
(* Properties                                                              *)

\* No two workers are on the same attempt of a row, however many leases run out and
\* however late the unlocked writes of others land: an attempt is counted under the
\* lock, and nothing else writes the count.
AttemptsAreUnique ==
  \A w, v \in Workers :
    /\ w # v /\ running[w] = running[v] /\ running[w] # NoRow
    => attempt[w] # attempt[v]

\* Two workers are on the same row only after a lease of it ran out, or after a
\* reprocess that was decided before the claim and written after it.
OverlapIsExcused ==
  \A w, v \in Workers :
    w # v /\ running[w] = running[v] /\ running[w] # NoRow
      => excused[running[w]] > 0

\* brief 8, "no infinite retry loop": every attempt past the ceiling is paid for by a
\* lease that ran out or a late reprocess.
CeilingIsExcused ==
  \A f \in Rows : row[f].attempts <= MaxAttempts + excused[f]

\* A row in processing, or failed with attempts left, has a next_attempt_at: whatever
\* writes overtook each other, some poll comes back to it.
NoRowIsStranded ==
  \A f \in Rows :
    row[f].status \in {"processing", "failed"} /\ row[f].due = "never"
      => row[f].status = "failed" /\ row[f].attempts >= MaxAttempts

\* A scheduled follow-up is completed, cancelled or given up.
Settled(f) == row[f].status \in TERMINAL_STATUSES \/ row[f].due = "never"
IsSettled == \A f \in Rows : row[f].due # "never" ~> Settled(f)
=============================================================================
