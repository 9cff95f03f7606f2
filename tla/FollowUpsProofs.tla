--------------------------- MODULE FollowUpsProofs ---------------------------
(***************************************************************************)
(* Theorems about FollowUps, for any number of rows and workers, any       *)
(* ceiling of attempts and any bound on requests and abandoned executions. *)
(***************************************************************************)
EXTENDS FollowUps, FiniteSetTheorems, TLAPS

\* What a change makes of a row.
LEMMA AppliedRow ==
  ASSUME NEW r \in FollowUpAction, NEW change \in Changes
  PROVE  /\ Applied(r, change) \in FollowUpAction
         /\ Applied(r, change).attempts = r.attempts
         /\ Applied(r, change).status = IF change.status = "keep" THEN r.status
                                                                 ELSE change.status
         /\ Applied(r, change).due = IF change.due = "keep" THEN r.due ELSE change.due
BY DEF Applied, FollowUpAction, Changes, VALID_STATUSES, Dues

\* What a claim makes of a row.
LEMMA ClaimedRow ==
  ASSUME NEW r \in FollowUpAction
  PROVE  /\ Claimed(r) \in FollowUpAction
         /\ Claimed(r).attempts = r.attempts + 1
         /\ Claimed(r).status = "processing"
         /\ Claimed(r).due = "later"
<1>1. ASSUME NEW n \in Nat
      PROVE  [r EXCEPT !.status = "processing", !.attempts = n, !.due = "later"]
               \in FollowUpAction
  BY DEF FollowUpAction, VALID_STATUSES, Dues
<1>2. r.attempts + 1 \in Nat
  BY DEF FollowUpAction
<1>3. Claimed(r) \in FollowUpAction
  BY <1>1, <1>2 DEF Claimed
<1>4. Claimed(r).attempts = r.attempts + 1
  BY DEF Claimed, FollowUpAction, VALID_STATUSES, Dues
<1>5. Claimed(r).status = "processing" /\ Claimed(r).due = "later"
  BY DEF Claimed, FollowUpAction, VALID_STATUSES, Dues
<1>. QED  BY <1>3, <1>4, <1>5

\* The changes the functions decide on are changes.
LEMMA ChangeTypes ==
  /\ Nothing \in Changes /\ CompletedChange \in Changes /\ ReprocessChange \in Changes
  /\ \A r \in FollowUpAction : FailedChange(r) \in Changes
  /\ \A r \in FollowUpAction, to \in TERMINAL_STATUSES : TransitionChange(r, to) \in Changes
BY DEF Nothing, CompletedChange, ReprocessChange, FailedChange, TransitionChange, Changes,
       VALID_STATUSES, TERMINAL_STATUSES, Dues

-----------------------------------------------------------------------------
(* Types                                                                    *)

\* The initial state is well typed.
LEMMA InitType == Init => TypeOK
BY FollowUpAssumption, ChangeTypes
   DEF Init, TypeOK, FollowUpAction, Dues

\* A worker that goes idle stays well typed.
LEMMA IdleType ==
  ASSUME TypeOK, NEW w \in Workers, Idle(w)
  PROVE  /\ running' \in [Workers -> Rows \cup {NoRow}]
         /\ attempt' \in [Workers -> Nat]
         /\ pending' \in [Workers -> Changes]
BY ChangeTypes DEF Idle, TypeOK

\* Every step of a worker keeps every type.
LEMMA WorkerType ==
  ASSUME TypeOK, NEW w \in Workers, WorkerStep(w) \/ Abandon(w)
  PROVE  TypeOK'
<1>1. CASE ClaimDueFollowUp(w)
  BY <1>1, ClaimedRow DEF ClaimDueFollowUp, TypeOK, FollowUpAction
<1>2. CASE ReachOutcome(w)
  BY <1>2, ChangeTypes DEF ReachOutcome, TypeOK
<1>3. CASE Conflict(w)
  BY <1>3, IdleType DEF Conflict, TypeOK
<1>4. CASE CommitOutcome(w)
  BY <1>4, IdleType, AppliedRow DEF CommitOutcome, TypeOK
<1>5. CASE Abandon(w)
  BY <1>5, IdleType, FollowUpAssumption DEF Abandon, TypeOK
<1>. QED  BY <1>1, <1>2, <1>3, <1>4, <1>5 DEF WorkerStep

\* So does every other step on a row,
LEMMA RowType ==
  ASSUME TypeOK, NEW f \in Rows,
         CreateFollowUp(f) \/ Elapse(f) \/ RequestTransition(f) \/ RequestReprocess(f)
  PROVE  TypeOK'
<1>1. CASE CreateFollowUp(f)
  BY <1>1 DEF CreateFollowUp, workerVars, TypeOK, FollowUpAction, Dues, VALID_STATUSES
<1>2. CASE Elapse(f)
  BY <1>2 DEF Elapse, workerVars, TypeOK, FollowUpAction, Dues
<1>3. CASE RequestTransition(f)
  BY <1>3, ChangeTypes DEF RequestTransition, Request, workerVars, TypeOK
<1>4. CASE RequestReprocess(f)
  BY <1>4, ChangeTypes DEF RequestReprocess, Request, workerVars, TypeOK
<1>. QED  BY <1>1, <1>2, <1>3, <1>4

\* and the write of a request.
LEMMA RequestType ==
  ASSUME TypeOK, NEW f \in Rows, NEW change \in Changes, CommitRequest(f, change)
  PROVE  TypeOK'
<1>1. row' \in [Rows -> FollowUpAction]
  BY AppliedRow DEF CommitRequest, TypeOK
<1>2. excused' \in [Rows -> Nat]
  BY DEF CommitRequest, TypeOK
<1>. QED  BY <1>1, <1>2 DEF CommitRequest, workerVars, TypeOK

\* A request in flight names a row and a change.
LEMMA RequestFields ==
  ASSUME TypeOK, NEW q \in requests
  PROVE  q[1] \in Rows /\ q[2] \in Changes /\ <<q[1], q[2]>> = q
BY DEF TypeOK

\* Hence TypeOK is inductive.
LEMMA TypeInductive == TypeOK /\ [Next]_vars => TypeOK'
<1> SUFFICES ASSUME TypeOK, [Next]_vars PROVE TypeOK'
  OBVIOUS
<1>1. CASE RequestStep
  BY <1>1, RequestFields, RequestType DEF RequestStep
<1>2. CASE UNCHANGED vars
  BY <1>2 DEF vars, TypeOK
<1>. QED  BY <1>1, <1>2, WorkerType, RowType DEF Next

\* Every variable keeps its type.
THEOREM TypeCorrect == Spec => []TypeOK
BY InitType, TypeInductive, PTL DEF Spec

-----------------------------------------------------------------------------
(* Attempts are unique                                                      *)

\* The count on the row is the latest attempt, and all workers on it hold
\* different ones.
AttemptsInvariant ==
  /\ AttemptsAreUnique
  /\ \A w \in Workers : running[w] # NoRow => attempt[w] <= row[running[w]].attempts

\* A step that claims nothing, and lowers no count, keeps that.
LEMMA NoClaimKeepsAttempts ==
  ASSUME TypeOK, TypeOK', AttemptsInvariant,
         \A f \in Rows : row'[f].attempts = row[f].attempts,
         \A w \in Workers : running'[w] # NoRow
                              => running'[w] = running[w] /\ attempt'[w] = attempt[w]
  PROVE  AttemptsInvariant'
BY DEF AttemptsInvariant, AttemptsAreUnique, TypeOK

\* A claim takes the next number.
LEMMA ClaimKeepsAttempts ==
  ASSUME TypeOK, TypeOK', AttemptsInvariant, NEW w \in Workers, ClaimDueFollowUp(w)
  PROVE  AttemptsInvariant'
<1>1. PICK f \in Rows : /\ row' = [row EXCEPT ![f] = Claimed(@)]
                        /\ running' = [running EXCEPT ![w] = f]
                        /\ attempt' = [attempt EXCEPT ![w] = row'[f].attempts]
  BY DEF ClaimDueFollowUp
<1>2. /\ row'[f].attempts = row[f].attempts + 1
      /\ \A g \in Rows \ {f} : row'[g] = row[g]
      /\ \A g \in Rows : row[g].attempts \in Nat /\ row'[g].attempts \in Nat
      /\ \A v \in Workers : attempt[v] \in Nat
  BY <1>1, ClaimedRow DEF TypeOK, FollowUpAction
<1>3. /\ running'[w] = f /\ attempt'[w] = row[f].attempts + 1
      /\ \A v \in Workers \ {w} : running'[v] = running[v] /\ attempt'[v] = attempt[v]
      /\ \A v \in Workers : running[v] # NoRow => running[v] \in Rows
  BY <1>1, <1>2 DEF TypeOK
<1>4. \A v \in Workers : running'[v] # NoRow => attempt'[v] <= row'[running'[v]].attempts
  BY <1>2, <1>3 DEF AttemptsInvariant
<1>5. \A v \in Workers \ {w} : running'[v] = f => attempt'[v] < attempt'[w]
  BY <1>2, <1>3, FollowUpAssumption DEF AttemptsInvariant
<1>6. AttemptsAreUnique'
  <2> SUFFICES ASSUME NEW u \in Workers, NEW v \in Workers, u # v,
                      running'[u] = running'[v], running'[u] # NoRow
               PROVE  attempt'[u] # attempt'[v]
    BY DEF AttemptsAreUnique
  <2>1. CASE u = w
    BY <2>1, <1>3, <1>5, <1>2
  <2>2. CASE v = w
    BY <2>2, <1>3, <1>5, <1>2
  <2>3. CASE u # w /\ v # w
    BY <2>3, <1>3 DEF AttemptsInvariant, AttemptsAreUnique
  <2>. QED  BY <2>1, <2>2, <2>3
<1>. QED  BY <1>4, <1>6 DEF AttemptsInvariant

\* No step writes the count but a claim, and no step but a claim starts an execution.
LEMMA OnlyClaimsCount ==
  ASSUME TypeOK, [Next]_vars, \A w \in Workers : ~ ClaimDueFollowUp(w)
  PROVE  /\ \A f \in Rows : row'[f].attempts = row[f].attempts
         /\ \A w \in Workers : running'[w] # NoRow
                                => running'[w] = running[w] /\ attempt'[w] = attempt[w]
<1> DEFINE Kept == /\ \A f \in Rows : row'[f].attempts = row[f].attempts
                   /\ \A w \in Workers : running'[w] # NoRow
                        => running'[w] = running[w] /\ attempt'[w] = attempt[w]
<1>1. ASSUME NEW w \in Workers, ReachOutcome(w) \/ Conflict(w) \/ Abandon(w) PROVE Kept
  BY <1>1 DEF ReachOutcome, Conflict, Abandon, Idle, TypeOK
<1>2. ASSUME NEW w \in Workers, CommitOutcome(w) PROVE Kept
  <2>1. \A f \in Rows : row[f] \in FollowUpAction /\ pending[w] \in Changes
    BY DEF TypeOK
  <2>2. \A f \in Rows : row'[f] = row[f] \/ row'[f] = Applied(row[f], pending[w])
    BY <1>2 DEF CommitOutcome, TypeOK
  <2>3. \A f \in Rows : row'[f].attempts = row[f].attempts
    BY <2>1, <2>2, AppliedRow
  <2>. QED  BY <1>2, <2>3 DEF CommitOutcome, Idle, TypeOK
<1>3. ASSUME NEW f \in Rows,
             CreateFollowUp(f) \/ Elapse(f) \/ RequestTransition(f) \/ RequestReprocess(f)
      PROVE  Kept
  BY <1>3 DEF CreateFollowUp, Elapse, RequestTransition, RequestReprocess, Request,
              workerVars, TypeOK, FollowUpAction
<1>4. ASSUME NEW f \in Rows, NEW change \in Changes, CommitRequest(f, change) PROVE Kept
  <2>1. \A g \in Rows : row[g] \in FollowUpAction
    BY DEF TypeOK
  <2>2. \A g \in Rows : row'[g] = row[g] \/ row'[g] = Applied(row[g], change)
    BY <1>4 DEF CommitRequest, TypeOK
  <2>3. \A g \in Rows : row'[g].attempts = row[g].attempts
    BY <2>1, <2>2, AppliedRow
  <2>. QED  BY <1>4, <2>3 DEF CommitRequest, workerVars
<1>5. CASE RequestStep
  BY <1>4, <1>5, RequestFields DEF RequestStep
<1>6. CASE UNCHANGED vars
  BY <1>6 DEF vars
<1>. QED  BY <1>1, <1>2, <1>3, <1>5, <1>6 DEF Next, WorkerStep

\* Hence AttemptsInvariant is inductive, relative to the types.
LEMMA AttemptsInductive ==
  TypeOK /\ TypeOK' /\ AttemptsInvariant /\ [Next]_vars => AttemptsInvariant'
<1> SUFFICES ASSUME TypeOK, TypeOK', AttemptsInvariant, [Next]_vars PROVE AttemptsInvariant'
  OBVIOUS
<1>1. CASE \E w \in Workers : ClaimDueFollowUp(w)
  BY <1>1, ClaimKeepsAttempts
<1>2. CASE \A w \in Workers : ~ ClaimDueFollowUp(w)
  BY <1>2, OnlyClaimsCount, NoClaimKeepsAttempts
<1>. QED  BY <1>1, <1>2

\* No two executions of a row ever share an attempt number.
THEOREM AttemptsAreUniqueHolds == Spec => []AttemptsAreUnique
<1>1. Init => AttemptsInvariant
  BY DEF Init, AttemptsInvariant, AttemptsAreUnique
<1>2. AttemptsInvariant => AttemptsAreUnique
  BY DEF AttemptsInvariant
<1>. QED  BY <1>1, <1>2, AttemptsInductive, TypeCorrect, PTL DEF Spec

-----------------------------------------------------------------------------
(* No row is stranded                                                       *)

Stranded(r) ==
  /\ r.status \in {"processing", "failed"} /\ r.due = "never"
  /\ ~ (r.status = "failed" /\ r.attempts >= MaxAttempts)

\* A change that strands no row of n attempts, whatever status it finds.
SafeChange(change, n) ==
  \/ change.status \in TERMINAL_STATUSES
  \/ change.due \in {"later", "now"}
  \/ change.status = "failed" /\ n >= MaxAttempts

\* Whatever waits to be written strands nothing when it lands: the row may have
\* moved on, but it can only have more attempts.
StrandInvariant ==
  /\ \A f \in Rows : ~ Stranded(row[f])
  /\ \A w \in Workers : pending[w] # Nothing
       => running[w] \in Rows /\ SafeChange(pending[w], row[running[w]].attempts)
  /\ \A q \in requests : SafeChange(q[2], row[q[1]].attempts)

\* A safe change strands no row.
LEMMA SafeChangeStrandsNot ==
  ASSUME NEW r \in FollowUpAction, NEW change \in Changes, SafeChange(change, r.attempts)
  PROVE  ~ Stranded(Applied(r, change))
<1>1. Applied(r, change) \in FollowUpAction /\ Applied(r, change).attempts = r.attempts
  BY AppliedRow
<1>2. CASE change.status \in TERMINAL_STATUSES
  <2>1. Applied(r, change).status = change.status
    BY <1>2, AppliedRow DEF TERMINAL_STATUSES
  <2>. QED  BY <1>2, <2>1 DEF Stranded, TERMINAL_STATUSES
<1>3. CASE change.due \in {"later", "now"}
  <2>1. Applied(r, change).due = change.due
    BY <1>3, AppliedRow
  <2>. QED  BY <1>3, <2>1 DEF Stranded
<1>4. CASE change.status = "failed" /\ r.attempts >= MaxAttempts
  <2>1. Applied(r, change).status = "failed"
    BY <1>4, AppliedRow
  <2>. QED  BY <1>1, <1>4, <2>1 DEF Stranded
<1>. QED  BY <1>2, <1>3, <1>4 DEF SafeChange

\* The changes the functions decide on are safe for the row they were decided on.
LEMMA DecidedChangesAreSafe ==
  ASSUME NEW r \in FollowUpAction
  PROVE  /\ SafeChange(CompletedChange, r.attempts)
         /\ SafeChange(FailedChange(r), r.attempts)
         /\ SafeChange(ReprocessChange, r.attempts)
         /\ \A to \in TERMINAL_STATUSES : SafeChange(TransitionChange(r, to), r.attempts)
BY DEF SafeChange, CompletedChange, FailedChange, ReprocessChange, TransitionChange,
       TERMINAL_STATUSES

\* A change stays safe as attempts grow.
LEMMA SafeChangeKept ==
  ASSUME NEW n \in Nat, NEW m \in Nat, n <= m, NEW change, SafeChange(change, n)
  PROVE  SafeChange(change, m)
BY FollowUpAssumption DEF SafeChange

\* No step lowers a count of attempts.
LEMMA AttemptsGrow ==
  ASSUME TypeOK, TypeOK', [Next]_vars, NEW f \in Rows
  PROVE  /\ row[f].attempts \in Nat /\ row'[f].attempts \in Nat
         /\ row[f].attempts <= row'[f].attempts
<1>1. row[f] \in FollowUpAction /\ row[f].attempts \in Nat /\ row'[f].attempts \in Nat
  BY DEF TypeOK, FollowUpAction
<1>2. CASE \A w \in Workers : ~ ClaimDueFollowUp(w)
  BY <1>1, <1>2, OnlyClaimsCount
<1>3. ASSUME NEW w \in Workers, ClaimDueFollowUp(w)
      PROVE  row[f].attempts <= row'[f].attempts
  <2>1. row'[f] = row[f] \/ row'[f] = Claimed(row[f])
    BY <1>3 DEF ClaimDueFollowUp, TypeOK
  <2>. QED  BY <1>1, <2>1, ClaimedRow
<1>. QED  BY <1>1, <1>2, <1>3

\* No step strands a row,
LEMMA RowsNotStranded ==
  ASSUME TypeOK, StrandInvariant, [Next]_vars, NEW f \in Rows
  PROVE  ~ Stranded(row'[f])
<1>1. row[f] \in FollowUpAction /\ ~ Stranded(row[f])
  BY DEF TypeOK, StrandInvariant
<1>2. ASSUME NEW w \in Workers, ClaimDueFollowUp(w) PROVE ~ Stranded(row'[f])
  <2>1. row'[f] = row[f] \/ row'[f] = Claimed(row[f])
    BY <1>2 DEF ClaimDueFollowUp, TypeOK
  <2>. QED  BY <1>1, <2>1, ClaimedRow DEF Stranded
<1>3. ASSUME NEW w \in Workers, CommitOutcome(w) PROVE ~ Stranded(row'[f])
  <2>1. row'[f] = row[f] \/ (f = running[w] /\ row'[f] = Applied(row[f], pending[w]))
    BY <1>3 DEF CommitOutcome, TypeOK
  <2>2. pending[w] \in Changes /\ SafeChange(pending[w], row[running[w]].attempts)
    BY <1>3 DEF CommitOutcome, TypeOK, StrandInvariant
  <2>. QED  BY <1>1, <2>1, <2>2, SafeChangeStrandsNot
<1>4. ASSUME NEW w \in Workers, ReachOutcome(w) \/ Conflict(w) \/ Abandon(w)
      PROVE  ~ Stranded(row'[f])
  BY <1>1, <1>4 DEF ReachOutcome, Conflict, Abandon
<1>5. ASSUME NEW g \in Rows, CreateFollowUp(g) \/ Elapse(g) PROVE ~ Stranded(row'[f])
  BY <1>1, <1>5 DEF CreateFollowUp, Elapse, Stranded, TypeOK, FollowUpAction
<1>6. ASSUME NEW g \in Rows, RequestTransition(g) \/ RequestReprocess(g)
      PROVE  ~ Stranded(row'[f])
  BY <1>1, <1>6 DEF RequestTransition, RequestReprocess, Request
<1>7. ASSUME NEW q \in requests, CommitRequest(q[1], q[2]) PROVE ~ Stranded(row'[f])
  <2>1. q[2] \in Changes /\ SafeChange(q[2], row[q[1]].attempts)
    BY RequestFields DEF StrandInvariant
  <2>2. row'[f] = row[f] \/ (f = q[1] /\ row'[f] = Applied(row[f], q[2]))
    BY <1>7 DEF CommitRequest, TypeOK
  <2>. QED  BY <1>1, <2>1, <2>2, SafeChangeStrandsNot
<1>8. CASE UNCHANGED vars
  BY <1>1, <1>8 DEF vars
<1>. QED  BY <1>2, <1>3, <1>4, <1>5, <1>6, <1>7, <1>8 DEF Next, WorkerStep, RequestStep

\* no outcome becomes unsafe,
LEMMA OutcomesStaySafe ==
  ASSUME TypeOK, TypeOK', StrandInvariant, [Next]_vars, NEW w \in Workers, pending'[w] # Nothing
  PROVE  running'[w] \in Rows /\ SafeChange(pending'[w], row'[running'[w]].attempts)
<1>1. CASE pending'[w] = pending[w] /\ running'[w] = running[w]
  BY <1>1, AttemptsGrow, SafeChangeKept DEF StrandInvariant
<1>2. CASE ReachOutcome(w)
  <2>1. /\ running[w] \in Rows /\ running'[w] = running[w] /\ row' = row
        /\ pending'[w] \in {CompletedChange, FailedChange(row[running[w]])}
    BY <1>2 DEF ReachOutcome, TypeOK
  <2>2. row[running[w]] \in FollowUpAction
    BY <2>1 DEF TypeOK
  <2>. QED  BY <2>1, <2>2, DecidedChangesAreSafe
<1>3. ASSUME NEW v \in Workers, Idle(v)
      PROVE  pending'[w] = pending[w] /\ running'[w] = running[w]
  BY <1>3 DEF Idle, TypeOK
<1>4. ASSUME NEW v \in Workers, ClaimDueFollowUp(v)
      PROVE  pending'[w] = pending[w] /\ (running'[w] = running[w] \/ running[w] = NoRow)
  BY <1>4 DEF ClaimDueFollowUp, TypeOK
<1>5. running[w] # NoRow \/ pending[w] = Nothing
  BY FollowUpAssumption DEF StrandInvariant
<1>6. ASSUME NEW v \in Workers, v # w, ReachOutcome(v)
      PROVE  pending'[w] = pending[w] /\ running'[w] = running[w]
  BY <1>6 DEF ReachOutcome, TypeOK
<1>7. ASSUME NEW v \in Workers, WorkerStep(v) \/ Abandon(v), ~ ReachOutcome(w)
      PROVE  pending'[w] = pending[w] /\ running'[w] = running[w]
  BY <1>3, <1>4, <1>5, <1>6, <1>7 DEF WorkerStep, Abandon, Conflict, CommitOutcome
<1>8. CASE UNCHANGED workerVars
  BY <1>1, <1>8 DEF workerVars
<1>9. ASSUME NEW f \in Rows, CreateFollowUp(f) \/ Elapse(f) \/ RequestTransition(f)
                                \/ RequestReprocess(f)
      PROVE  UNCHANGED workerVars
  BY <1>9 DEF CreateFollowUp, Elapse, RequestTransition, RequestReprocess, Request
<1>10. CASE RequestStep
  BY <1>10, <1>8 DEF RequestStep, CommitRequest
<1>11. CASE UNCHANGED vars
  BY <1>11, <1>8 DEF vars, workerVars
<1>. QED  BY <1>1, <1>2, <1>7, <1>8, <1>9, <1>10, <1>11 DEF Next

\* and no request does.
LEMMA RequestsStaySafe ==
  ASSUME TypeOK, TypeOK', StrandInvariant, [Next]_vars, NEW q \in requests'
  PROVE  SafeChange(q[2], row'[q[1]].attempts)
<1>1. CASE q \in requests
  <2>1. q[1] \in Rows /\ SafeChange(q[2], row[q[1]].attempts)
    BY <1>1, RequestFields DEF StrandInvariant
  <2>. QED  BY <2>1, AttemptsGrow, SafeChangeKept
<1>2. ASSUME NEW f \in Rows, RequestTransition(f)
      PROVE  q \in requests \/ SafeChange(q[2], row'[q[1]].attempts)
  <2>1. row[f] \in FollowUpAction
    BY DEF TypeOK
  <2>2. PICK to \in TERMINAL_STATUSES :
          row' = row /\ requests' = requests \cup {<<f, TransitionChange(row[f], to)>>}
    BY <1>2 DEF RequestTransition, Request
  <2>. QED  BY <2>1, <2>2, DecidedChangesAreSafe
<1>3. ASSUME NEW f \in Rows, RequestReprocess(f)
      PROVE  q \in requests \/ SafeChange(q[2], row'[q[1]].attempts)
  <2>1. row[f] \in FollowUpAction
    BY DEF TypeOK
  <2>2. row' = row /\ requests' = requests \cup {<<f, ReprocessChange>>}
    BY <1>3 DEF RequestReprocess, Request
  <2>. QED  BY <2>1, <2>2, DecidedChangesAreSafe
<1>4. ASSUME NEW f \in Rows, CreateFollowUp(f) \/ Elapse(f) PROVE q \in requests
  BY <1>4 DEF CreateFollowUp, Elapse
<1>5. ASSUME NEW w \in Workers, WorkerStep(w) \/ Abandon(w) PROVE q \in requests
  BY <1>5 DEF WorkerStep, Abandon, ClaimDueFollowUp, ReachOutcome, Conflict, CommitOutcome
<1>6. CASE RequestStep
  BY <1>1, <1>6 DEF RequestStep, CommitRequest
<1>7. CASE UNCHANGED vars
  BY <1>1, <1>7 DEF vars
<1>. QED  BY <1>1, <1>2, <1>3, <1>4, <1>5, <1>6, <1>7 DEF Next

\* Every row in processing, or failed with attempts left, keeps a next_attempt_at.
THEOREM NoRowIsStrandedHolds == Spec => []NoRowIsStranded
<1>1. Init => StrandInvariant
  BY FollowUpAssumption DEF Init, StrandInvariant, Stranded
<1>2. TypeOK /\ TypeOK' /\ StrandInvariant /\ [Next]_vars => StrandInvariant'
  BY RowsNotStranded, OutcomesStaySafe, RequestsStaySafe DEF StrandInvariant
<1>3. StrandInvariant => NoRowIsStranded
  BY DEF StrandInvariant, Stranded, NoRowIsStranded
<1>. QED  BY <1>1, <1>2, <1>3, TypeCorrect, PTL DEF Spec

-----------------------------------------------------------------------------
(* Two workers overlap only with an excuse                                  *)

\* The row is out of every claim's reach: settled, or under a lease that still runs.
Guarded(r) == r.status \in TERMINAL_STATUSES \/ (r.status = "processing" /\ r.due = "later")

\* An unexcused row is guarded for as long as someone executes it.
OverlapInvariant ==
  /\ OverlapIsExcused
  /\ \A w \in Workers : running[w] # NoRow /\ excused[running[w]] = 0
                          => Guarded(row[running[w]])
  /\ \A q \in requests : q[2] = ReprocessChange \/ q[2].status \in TERMINAL_STATUSES

\* A guarded row can be neither created nor claimed.
LEMMA GuardedIsOutOfReach ==
  ASSUME NEW f \in Rows, Guarded(row[f])
  PROVE  row[f].status # "absent" /\ ~ Claimable(f)
BY DEF Guarded, Claimable, TERMINAL_STATUSES

\* No step excuses less, and one that leaves a row unexcused and executed by the same
\* workers leaves it guarded.
LEMMA StaysGuarded ==
  ASSUME TypeOK, OverlapInvariant, [Next]_vars, NEW f \in Rows, excused'[f] = 0,
         NEW w \in Workers, running[w] = f, running'[w] = f
  PROVE  excused[f] = 0 /\ Guarded(row'[f])
<1>1. row[f] \in FollowUpAction /\ excused[f] \in Nat /\ f # NoRow
  BY FollowUpAssumption DEF TypeOK
<1> DEFINE Goal == excused[f] = 0 /\ Guarded(row'[f])
<1>2. excused[f] = 0 => Guarded(row[f])
  BY <1>1 DEF OverlapInvariant
<1>3. excused'[f] = excused[f] /\ row'[f] = row[f] => Goal
  BY <1>2
<1>4. ASSUME NEW v \in Workers, ClaimDueFollowUp(v) PROVE Goal
  <2>1. excused'[f] = excused[f] /\ ~ Claimable(f)
    BY <1>2, <1>4, GuardedIsOutOfReach DEF ClaimDueFollowUp
  <2>2. row'[f] = row[f]
    BY <1>4, <2>1 DEF ClaimDueFollowUp, TypeOK
  <2>. QED  BY <1>3, <2>1, <2>2
<1>5. ASSUME NEW v \in Workers, CommitOutcome(v) PROVE Goal
  <2>1. excused'[f] = excused[f] /\ v # w
    BY <1>1, <1>5 DEF CommitOutcome, Idle, TypeOK
  <2>2. running[v] # f
    BY <1>1, <2>1 DEF OverlapInvariant, OverlapIsExcused
  <2>3. row'[f] = row[f]
    BY <1>5, <2>2 DEF CommitOutcome, TypeOK
  <2>. QED  BY <1>3, <2>1, <2>3
<1>6. ASSUME NEW v \in Workers, ReachOutcome(v) \/ Conflict(v) \/ Abandon(v) PROVE Goal
  BY <1>3, <1>6 DEF ReachOutcome, Conflict, Abandon
<1>7. ASSUME NEW g \in Rows, CreateFollowUp(g) PROVE Goal
  <2>1. excused'[f] = excused[f] /\ g # f
    BY <1>2, <1>7, GuardedIsOutOfReach DEF CreateFollowUp
  <2>2. row'[f] = row[f]
    BY <1>7, <2>1 DEF CreateFollowUp, TypeOK
  <2>. QED  BY <1>3, <2>1, <2>2
<1>8. ASSUME NEW g \in Rows, Elapse(g) PROVE Goal
  <2>1. CASE g # f
    BY <1>3, <1>8, <2>1 DEF Elapse, TypeOK
  <2>2. CASE g = f
    <3>1. excused[f] = 0 /\ row[f].status # "processing"
      BY <1>1, <1>8, <2>2 DEF Elapse, TypeOK
    <3>2. row[f].status \in TERMINAL_STATUSES /\ row'[f].status = row[f].status
      BY <1>1, <1>2, <1>8, <2>2, <3>1 DEF Guarded, Elapse, TypeOK, FollowUpAction
    <3>. QED  BY <3>1, <3>2 DEF Guarded
  <2>. QED  BY <2>1, <2>2
<1>9. ASSUME NEW g \in Rows, RequestTransition(g) \/ RequestReprocess(g) PROVE Goal
  BY <1>3, <1>9 DEF RequestTransition, RequestReprocess, Request
<1>10. ASSUME NEW q \in requests, CommitRequest(q[1], q[2]) PROVE Goal
  <2>1. CASE q[1] # f
    BY <1>3, <1>10, <2>1 DEF CommitRequest, TypeOK
  <2>2. CASE q[1] = f /\ q[2] = ReprocessChange
    <3>1. row[f].status = "failed" /\ excused[f] = 0
      BY <1>1, <1>10, <2>2 DEF CommitRequest, TypeOK
    <3>. QED  BY <1>2, <3>1 DEF Guarded, TERMINAL_STATUSES
  <2>3. CASE q[1] = f /\ q[2] # ReprocessChange
    <3>1. q[2] \in Changes /\ q[2].status \in TERMINAL_STATUSES
      BY <2>3, RequestFields DEF OverlapInvariant
    <3>2. excused'[f] = excused[f] /\ row'[f] = Applied(row[f], q[2])
      BY <1>10, <2>3 DEF CommitRequest, TypeOK
    <3>3. row'[f].status \in TERMINAL_STATUSES
      BY <1>1, <3>1, <3>2, AppliedRow DEF TERMINAL_STATUSES
    <3>. QED  BY <3>2, <3>3 DEF Guarded
  <2>. QED  BY <2>1, <2>2, <2>3
<1>11. CASE UNCHANGED vars
  BY <1>3, <1>11 DEF vars
<1>. QED  BY <1>4, <1>5, <1>6, <1>7, <1>8, <1>9, <1>10, <1>11
          DEF Next, WorkerStep, RequestStep

\* A worker that has just claimed a row holds its lease, and was alone to want it
\* unless the row is excused.
LEMMA ClaimIsGuarded ==
  ASSUME TypeOK, OverlapInvariant, NEW w \in Workers, ClaimDueFollowUp(w), running'[w] # NoRow
  PROVE  /\ Guarded(row'[running'[w]]) /\ excused' = excused
         /\ \A v \in Workers \ {w} : /\ running'[v] = running[v]
                                     /\ running[v] = running'[w] => excused[running'[w]] # 0
<1>1. PICK f \in Rows : Claimable(f) /\ running'[w] = f /\ row'[f] = Claimed(row[f])
  BY DEF ClaimDueFollowUp, TypeOK
<1>2. Guarded(row'[f])
  BY <1>1, ClaimedRow DEF Guarded, TypeOK
<1>3. \A v \in Workers \ {w} : running'[v] = running[v]
  BY DEF ClaimDueFollowUp, TypeOK
<1>4. \A v \in Workers : running[v] = f => excused[f] # 0
  BY <1>1, GuardedIsOutOfReach, FollowUpAssumption DEF OverlapInvariant
<1>. QED  BY <1>1, <1>2, <1>3, <1>4 DEF ClaimDueFollowUp

\* Only a claim starts an execution.
LEMMA ExecutionsStart ==
  ASSUME TypeOK, [Next]_vars, NEW w \in Workers, running'[w] # NoRow
  PROVE  running'[w] = running[w] \/ ClaimDueFollowUp(w)
<1>1. CASE \A v \in Workers : ~ ClaimDueFollowUp(v)
  BY <1>1, OnlyClaimsCount
<1>2. ASSUME NEW v \in Workers, ClaimDueFollowUp(v)
      PROVE  v = w \/ running'[w] = running[w]
  BY <1>2 DEF ClaimDueFollowUp, TypeOK
<1>. QED  BY <1>1, <1>2

\* Every request in flight is one the API makes.
LEMMA RequestsStayKnown ==
  ASSUME TypeOK, OverlapInvariant, [Next]_vars, NEW q \in requests'
  PROVE  q[2] = ReprocessChange \/ q[2].status \in TERMINAL_STATUSES
<1>1. CASE q \in requests
  BY <1>1 DEF OverlapInvariant
<1>2. ASSUME NEW f \in Rows, RequestTransition(f) \/ RequestReprocess(f)
      PROVE  q \in requests \/ q[2] = ReprocessChange \/ q[2].status \in TERMINAL_STATUSES
  BY <1>2 DEF RequestTransition, RequestReprocess, Request, TransitionChange
<1>3. ASSUME NEW f \in Rows, CreateFollowUp(f) \/ Elapse(f) PROVE q \in requests
  BY <1>3 DEF CreateFollowUp, Elapse
<1>4. ASSUME NEW w \in Workers, WorkerStep(w) \/ Abandon(w) PROVE q \in requests
  BY <1>4 DEF WorkerStep, Abandon, ClaimDueFollowUp, ReachOutcome, Conflict, CommitOutcome
<1>5. CASE RequestStep
  BY <1>1, <1>5 DEF RequestStep, CommitRequest
<1>6. CASE UNCHANGED vars
  BY <1>1, <1>6 DEF vars
<1>. QED  BY <1>1, <1>2, <1>3, <1>4, <1>5, <1>6 DEF Next

\* OverlapInvariant is inductive, relative to the types.
LEMMA OverlapInductive ==
  TypeOK /\ TypeOK' /\ OverlapInvariant /\ [Next]_vars => OverlapInvariant'
<1> SUFFICES ASSUME TypeOK, TypeOK', OverlapInvariant, [Next]_vars PROVE OverlapInvariant'
  OBVIOUS
<1>0. \A w \in Workers : running'[w] # NoRow => running'[w] \in Rows
  BY DEF TypeOK
<1>1. ASSUME NEW w \in Workers, running'[w] # NoRow, excused'[running'[w]] = 0
      PROVE  Guarded(row'[running'[w]])
  <2>1. CASE running'[w] = running[w]
    BY <1>0, <1>1, <2>1, StaysGuarded
  <2>2. CASE ClaimDueFollowUp(w)
    BY <1>1, <2>2, ClaimIsGuarded
  <2>. QED  BY <1>1, <2>1, <2>2, ExecutionsStart
<1>2. ASSUME NEW w \in Workers, NEW v \in Workers, w # v,
             running'[w] = running'[v], running'[w] # NoRow
      PROVE  excused'[running'[w]] > 0
  <2>0. excused'[running'[w]] \in Nat
    BY <1>0, <1>2 DEF TypeOK
  <2>1. CASE ClaimDueFollowUp(w)
    <3>1. /\ excused' = excused
          /\ \A u \in Workers \ {w} : /\ running'[u] = running[u]
                                      /\ running[u] = running'[w] => excused[running'[w]] # 0
      BY <1>2, <2>1, ClaimIsGuarded
    <3>2. excused'[running'[w]] # 0
      BY <1>2, <3>1
    <3>. QED  BY <2>0, <3>2
  <2>2. CASE ClaimDueFollowUp(v)
    <3>1. /\ excused' = excused
          /\ \A u \in Workers \ {v} : /\ running'[u] = running[u]
                                      /\ running[u] = running'[v] => excused[running'[v]] # 0
      BY <1>2, <2>2, ClaimIsGuarded
    <3>2. excused'[running'[w]] # 0
      BY <1>2, <3>1
    <3>. QED  BY <2>0, <3>2
  <2>3. CASE running'[w] = running[w] /\ running'[v] = running[v]
    <3>1. excused[running'[w]] > 0
      BY <1>2, <2>3 DEF OverlapInvariant, OverlapIsExcused
    <3>2. excused'[running'[w]] = 0 => excused[running'[w]] = 0
      BY <1>0, <1>2, <2>3, StaysGuarded
    <3>. QED  BY <2>0, <3>1, <3>2
  <2>. QED  BY <1>2, <2>1, <2>2, <2>3, ExecutionsStart
<1>. QED  BY <1>1, <1>2, RequestsStayKnown DEF OverlapInvariant, OverlapIsExcused

\* Two workers are on the same row only if a lease of it ran out, or a reprocess
\* landed after the claim it did not know of.
THEOREM OverlapIsExcusedHolds == Spec => []OverlapIsExcused
<1>1. Init => OverlapInvariant
  BY DEF Init, OverlapInvariant, OverlapIsExcused
<1>2. OverlapInvariant => OverlapIsExcused
  BY DEF OverlapInvariant
<1>. QED  BY <1>1, <1>2, OverlapInductive, TypeCorrect, PTL DEF Spec

-----------------------------------------------------------------------------
(* Attempts past the ceiling have an excuse                                 *)

\* The executions of a row, and those of them that are about to have it tried again.
Executing(f) == {w \in Workers : running[w] = f}
Retrying(f) == {w \in Workers : running[w] = f /\ pending[w].due = "later"}

\* The claims a row has in store without a further excuse: one if it is still to be
\* created, waits, or has lost its lease.
InStore(r) ==
  IF \/ r.status = "absent"
     \/ r.status \in {"pending", "failed"} /\ r.due # "never"
     \/ r.status = "processing" /\ r.due = "now"
    THEN 1 ELSE 0

\* What execute_due_follow_up writes.
IsOutcome(change) ==
  /\ change.status \in {"completed", "failed"}
  /\ change.due = "never" \/ (change.due = "later" /\ change.status = "failed")

\* Every execution but one has its excuse, and so has every attempt past the ceiling, those
\* that are in store or will be included.
CeilingInvariant ==
  /\ \A w \in Workers :
       pending[w] # Nothing => running[w] \in Rows /\ IsOutcome(pending[w])
  /\ \A q \in requests : q[2] = ReprocessChange \/ q[2].status \in TERMINAL_STATUSES
  /\ \A f \in Rows :
       /\ Cardinality(Executing(f)) + InStore(row[f]) <= 1 + excused[f]
       /\ row[f].attempts + InStore(row[f]) + Cardinality(Retrying(f))
            <= MaxAttempts + excused[f]

\* What a step may do about a row: nothing that counts,
Quiet(f) ==
  /\ row'[f].attempts = row[f].attempts
  /\ Executing(f)' \subseteq Executing(f) /\ Retrying(f)' \subseteq Retrying(f)
  /\ \/ InStore(row'[f]) <= InStore(row[f]) /\ excused'[f] = excused[f]
     \/ excused'[f] = excused[f] + 1

\* a claim,
TakesUp(f, w) ==
  /\ row'[f].attempts = row[f].attempts + 1
  /\ Executing(f)' = Executing(f) \cup {w} /\ Retrying(f)' = Retrying(f)
  /\ InStore(row[f]) = 1 /\ InStore(row'[f]) = 0
  /\ excused'[f] = excused[f]

\* the decision to try again,
Decides(f, w) ==
  /\ row'[f] = row[f] /\ row[f].attempts < MaxAttempts
  /\ w \in Executing(f) \ Retrying(f)
  /\ Executing(f)' = Executing(f) /\ Retrying(f)' = Retrying(f) \cup {w}
  /\ excused'[f] = excused[f]

\* or the write of what was decided.
Delivers(f, w) ==
  /\ row'[f].attempts = row[f].attempts
  /\ w \in Executing(f) /\ Executing(f)' = Executing(f) \ {w}
  /\ \/ w \in Retrying(f) /\ Retrying(f)' = Retrying(f) \ {w}
     \/ InStore(row'[f]) = 0 /\ Retrying(f)' \subseteq Retrying(f)
  /\ excused'[f] = excused[f]

\* The sets that are counted are finite, and change by one element.
LEMMA CountsOfWorkers ==
  ASSUME NEW S \in SUBSET Workers
  PROVE  /\ Cardinality(S) \in Nat
         /\ \A T : T \subseteq S => Cardinality(T) <= Cardinality(S)
         /\ \A w \in Workers : Cardinality(S \cup {w}) <= Cardinality(S) + 1
         /\ \A w \in S : Cardinality(S \ {w}) = Cardinality(S) - 1
<1>1. IsFiniteSet(S)
  BY FollowUpAssumption, FS_Subset
<1>2. Cardinality(S) \in Nat
  BY <1>1, FS_CardinalityType
<1>3. \A T : T \subseteq S => Cardinality(T) <= Cardinality(S)
  BY <1>1, FS_Subset
<1>4. ASSUME NEW w \in Workers PROVE Cardinality(S \cup {w}) <= Cardinality(S) + 1
  <2>1. Cardinality(S \cup {w}) = IF w \in S THEN Cardinality(S) ELSE Cardinality(S) + 1
    BY <1>1, FS_AddElement
  <2>. QED  BY <1>2, <2>1
<1>5. ASSUME NEW w \in S PROVE Cardinality(S \ {w}) = Cardinality(S) - 1
  BY <1>1, FS_RemoveElement
<1>. QED  BY <1>2, <1>3, <1>4, <1>5

\* Each of these keeps the two inequalities of a row.
LEMMA CountsStayExcused ==
  ASSUME TypeOK, TypeOK', NEW f \in Rows,
         Cardinality(Executing(f)) + InStore(row[f]) <= 1 + excused[f],
         row[f].attempts + InStore(row[f]) + Cardinality(Retrying(f))
            <= MaxAttempts + excused[f],
         Quiet(f) \/ \E w \in Workers : TakesUp(f, w) \/ Decides(f, w) \/ Delivers(f, w)
  PROVE  /\ Cardinality(Executing(f)') + InStore(row'[f]) <= 1 + excused'[f]
         /\ row'[f].attempts + InStore(row'[f]) + Cardinality(Retrying(f)')
              <= MaxAttempts + excused'[f]
<1> DEFINE E == Executing(f)
           R == Retrying(f)
           n == row[f].attempts
           x == excused[f]
           s == InStore(row[f])
           t == InStore(row'[f])
<1>1. E \in SUBSET Workers /\ R \in SUBSET Workers /\ R \in SUBSET E
  BY DEF Executing, Retrying
<1>2. n \in Nat /\ x \in Nat /\ s \in {0, 1} /\ t \in {0, 1} /\ MaxAttempts \in Nat
  BY FollowUpAssumption DEF TypeOK, FollowUpAction, InStore
<1>3. Cardinality(E) \in Nat /\ Cardinality(R) \in Nat
  BY <1>1, CountsOfWorkers
<1>4. CASE Quiet(f)
  <2>1. Executing(f)' \in SUBSET Workers /\ Retrying(f)' \in SUBSET Workers
    BY <1>1, <1>4 DEF Quiet
  <2>2. /\ Cardinality(Executing(f)') \in Nat /\ Cardinality(Executing(f)') <= Cardinality(E)
        /\ Cardinality(Retrying(f)') \in Nat /\ Cardinality(Retrying(f)') <= Cardinality(R)
    BY <1>1, <1>4, <2>1, CountsOfWorkers DEF Quiet
  <2>. QED  BY <1>2, <1>3, <1>4, <2>2 DEF Quiet
<1>5. ASSUME NEW w \in Workers, TakesUp(f, w)
      PROVE  /\ Cardinality(Executing(f)') + t <= 1 + excused'[f]
             /\ row'[f].attempts + t + Cardinality(Retrying(f)') <= MaxAttempts + excused'[f]
  <2>1. Cardinality(E \cup {w}) <= Cardinality(E) + 1 /\ Cardinality(E \cup {w}) \in Nat
    <3>1. E \cup {w} \in SUBSET Workers
      BY <1>1
    <3>. QED  BY <1>1, <3>1, CountsOfWorkers
  <2>. QED  BY <1>2, <1>3, <1>5, <2>1 DEF TakesUp
<1>6. ASSUME NEW w \in Workers, Decides(f, w)
      PROVE  /\ Cardinality(Executing(f)') + t <= 1 + excused'[f]
             /\ row'[f].attempts + t + Cardinality(Retrying(f)') <= MaxAttempts + excused'[f]
  <2>1. R \subseteq E \ {w} /\ R \cup {w} \in SUBSET Workers /\ w \in E
    BY <1>1, <1>6 DEF Decides
  <2>2. Cardinality(R) <= Cardinality(E) - 1
    <3>1. Cardinality(E \ {w}) = Cardinality(E) - 1
      BY <1>1, <2>1, CountsOfWorkers
    <3>2. E \ {w} \in SUBSET Workers
      BY <1>1
    <3>. QED  BY <2>1, <3>1, <3>2, CountsOfWorkers
  <2>3. Cardinality(R \cup {w}) <= Cardinality(R) + 1 /\ Cardinality(R \cup {w}) \in Nat
    BY <1>1, <2>1, CountsOfWorkers
  <2>. QED  BY <1>2, <1>3, <1>6, <2>2, <2>3 DEF Decides
<1>7. ASSUME NEW w \in Workers, Delivers(f, w)
      PROVE  /\ Cardinality(Executing(f)') + t <= 1 + excused'[f]
             /\ row'[f].attempts + t + Cardinality(Retrying(f)') <= MaxAttempts + excused'[f]
  <2>1. Cardinality(Executing(f)') = Cardinality(E) - 1
    BY <1>1, <1>7, CountsOfWorkers DEF Delivers
  <2>2. CASE w \in R /\ Retrying(f)' = R \ {w}
    <3>1. Cardinality(Retrying(f)') = Cardinality(R) - 1
      BY <1>1, <2>2, CountsOfWorkers
    <3>. QED  BY <1>2, <1>3, <1>7, <2>1, <3>1 DEF Delivers
  <2>3. CASE t = 0 /\ Retrying(f)' \subseteq R
    <3>1. Cardinality(Retrying(f)') <= Cardinality(R) /\ Cardinality(Retrying(f)') \in Nat
      BY <1>1, <2>3, CountsOfWorkers
    <3>. QED  BY <1>2, <1>3, <1>7, <2>1, <2>3, <3>1 DEF Delivers
  <2>. QED  BY <1>7, <2>2, <2>3 DEF Delivers
<1>. QED  BY <1>4, <1>5, <1>6, <1>7

\* A row that keeps its columns and its executions, while no lease is lost, is left as it was.
LEMMA UntouchedIsQuiet ==
  ASSUME NEW f \in Rows, row'[f] = row[f], excused'[f] = excused[f],
         \A w \in Workers : running'[w] = f => running[w] = f /\ pending'[w] = pending[w]
  PROVE  Quiet(f)
BY DEF Quiet, Executing, Retrying, InStore

\* What a worker does about a row,
LEMMA WorkerMoves ==
  ASSUME TypeOK, CeilingInvariant, NEW f \in Rows, NEW w \in Workers,
         WorkerStep(w) \/ Abandon(w)
  PROVE  Quiet(f) \/ TakesUp(f, w) \/ Decides(f, w) \/ Delivers(f, w)
<1>1. /\ row[f] \in FollowUpAction /\ row[f].attempts \in Nat /\ f # NoRow
      /\ \A v \in Workers : pending[v] \in Changes
      /\ \A v \in Workers : running[v] \in Rows \/ pending[v] = Nothing
      /\ Nothing.due = "keep"
  BY FollowUpAssumption DEF TypeOK, CeilingInvariant, FollowUpAction, Nothing
<1>2. CASE ClaimDueFollowUp(w)
  <2>1. PICK g \in Rows : /\ Claimable(g) /\ row' = [row EXCEPT ![g] = Claimed(@)]
                          /\ running' = [running EXCEPT ![w] = g]
    BY <1>2 DEF ClaimDueFollowUp
  <2>2. /\ running[w] = NoRow /\ pending' = pending /\ excused' = excused
        /\ pending[w] = Nothing
    BY <1>1, <1>2, FollowUpAssumption DEF ClaimDueFollowUp
  <2>3. running'[w] = g /\ \A v \in Workers \ {w} : running'[v] = running[v]
    BY <2>1 DEF TypeOK
  <2>4. CASE g # f
    <3>1. row'[f] = row[f]
      BY <2>1, <2>4 DEF TypeOK
    <3>. QED  BY <2>2, <2>3, <2>4, <3>1, UntouchedIsQuiet
  <2>5. CASE g = f
    <3>1. row'[f] = Claimed(row[f])
      BY <2>1, <2>5 DEF TypeOK
    <3>2. row'[f].attempts = row[f].attempts + 1 /\ InStore(row'[f]) = 0
      BY <1>1, <3>1, ClaimedRow DEF InStore
    <3>3. InStore(row[f]) = 1
      BY <2>1, <2>5 DEF InStore, Claimable
    <3>4. Executing(f)' = Executing(f) \cup {w}
      BY <2>3, <2>5 DEF Executing
    <3>5. Retrying(f)' = Retrying(f)
      BY <1>1, <2>2, <2>3 DEF Retrying
    <3>. QED  BY <2>2, <3>2, <3>3, <3>4, <3>5 DEF TakesUp
  <2>. QED  BY <2>4, <2>5
<1>3. CASE ReachOutcome(w)
  <2>1. PICK change \in {CompletedChange, FailedChange(row[running[w]])} :
          pending' = [pending EXCEPT ![w] = change]
    BY <1>3 DEF ReachOutcome
  <2>2. /\ pending'[w] = change /\ pending[w] = Nothing
        /\ \A v \in Workers \ {w} : pending'[v] = pending[v]
        /\ row' = row /\ running' = running /\ excused' = excused
    BY <1>3, <2>1 DEF ReachOutcome, TypeOK
  <2>3. CASE running[w] = f /\ change.due = "later"
    <3>1. row[f].attempts < MaxAttempts
      BY <1>1, <2>1, <2>3, FollowUpAssumption DEF CompletedChange, FailedChange
    <3>2. w \in Executing(f) \ Retrying(f)
      BY <1>1, <2>2, <2>3 DEF Executing, Retrying
    <3>3. Executing(f)' = Executing(f) /\ Retrying(f)' = Retrying(f) \cup {w}
      BY <2>2, <2>3 DEF Executing, Retrying
    <3>. QED  BY <2>2, <3>1, <3>2, <3>3 DEF Decides
  <2>4. CASE ~ (running[w] = f /\ change.due = "later")
    <3>1. Executing(f)' \subseteq Executing(f) /\ Retrying(f)' \subseteq Retrying(f)
      BY <2>2, <2>4 DEF Executing, Retrying
    <3>. QED  BY <1>1, <2>2, <3>1 DEF Quiet, InStore
  <2>. QED  BY <2>3, <2>4
<1>4. CASE Conflict(w) \/ Abandon(w)
  <2>1. Idle(w) /\ row' = row /\ excused' = excused
    BY <1>4 DEF Conflict, Abandon
  <2>2. \A v \in Workers : running'[v] = f => running[v] = f /\ pending'[v] = pending[v]
    BY <1>1, <2>1 DEF Idle, TypeOK
  <2>. QED  BY <2>1, <2>2, UntouchedIsQuiet
<1>5. CASE CommitOutcome(w)
  <2>1. /\ pending[w] # Nothing /\ excused' = excused
        /\ row' = [row EXCEPT ![running[w]] = Applied(@, pending[w])]
        /\ running[w] \in Rows /\ IsOutcome(pending[w])
    BY <1>5 DEF CommitOutcome, CeilingInvariant
  <2>2. /\ running'[w] = NoRow
        /\ \A v \in Workers \ {w} : running'[v] = running[v] /\ pending'[v] = pending[v]
    BY <1>5 DEF CommitOutcome, Idle, TypeOK
  <2>3. CASE running[w] # f
    <3>1. row'[f] = row[f]
      BY <2>1, <2>3 DEF TypeOK
    <3>. QED  BY <1>1, <2>1, <2>2, <2>3, <3>1, UntouchedIsQuiet
  <2>4. CASE running[w] = f
    <3>1. row'[f] = Applied(row[f], pending[w])
      BY <2>1, <2>4 DEF TypeOK
    <3>2. /\ row'[f].attempts = row[f].attempts
          /\ row'[f].status = pending[w].status /\ row'[f].due = pending[w].due
      BY <1>1, <2>1, <3>1, AppliedRow DEF IsOutcome
    <3>3. w \in Executing(f) /\ Executing(f)' = Executing(f) \ {w}
      BY <1>1, <2>2, <2>4 DEF Executing
    <3>4. Retrying(f)' = Retrying(f) \ {w}
      BY <1>1, <2>2 DEF Retrying
    <3>5. pending[w].due # "later" => InStore(row'[f]) = 0
      BY <2>1, <3>2 DEF IsOutcome, InStore
    <3>6. pending[w].due = "later" => w \in Retrying(f)
      BY <2>4 DEF Retrying
    <3>. QED  BY <2>1, <3>2, <3>3, <3>4, <3>5, <3>6 DEF Delivers
  <2>. QED  BY <2>3, <2>4
<1>. QED  BY <1>2, <1>3, <1>4, <1>5 DEF WorkerStep

\* and what time and the API do about it.
LEMMA OtherMoves ==
  ASSUME TypeOK, CeilingInvariant, NEW f \in Rows, UNCHANGED <<running, pending>>,
         \/ \E g \in Rows : \/ CreateFollowUp(g) \/ Elapse(g)
                            \/ RequestTransition(g) \/ RequestReprocess(g)
         \/ RequestStep
  PROVE  Quiet(f)
<1>1. row[f] \in FollowUpAction /\ row[f].attempts \in Nat /\ excused[f] \in Nat
  BY DEF TypeOK, FollowUpAction
<1>2. Executing(f)' = Executing(f) /\ Retrying(f)' = Retrying(f)
  BY DEF Executing, Retrying
<1>3. row'[f] = row[f] /\ excused'[f] = excused[f] => Quiet(f)
  BY <1>2 DEF Quiet, InStore
<1>4. ASSUME NEW g \in Rows, CreateFollowUp(g) PROVE Quiet(f)
  <2>1. CASE g # f
    BY <1>3, <1>4, <2>1 DEF CreateFollowUp, TypeOK
  <2>2. CASE g = f
    <3>1. InStore(row[f]) = 1 /\ excused'[f] = excused[f]
      BY <1>4, <2>2 DEF CreateFollowUp, InStore
    <3>2. row'[f].attempts = row[f].attempts
      BY <1>1, <1>4, <2>2 DEF CreateFollowUp, TypeOK, FollowUpAction
    <3>3. InStore(row'[f]) <= 1
      BY DEF InStore
    <3>. QED  BY <1>2, <3>1, <3>2, <3>3 DEF Quiet
  <2>. QED  BY <2>1, <2>2
<1>5. ASSUME NEW g \in Rows, Elapse(g) PROVE Quiet(f)
  <2>1. CASE g # f
    BY <1>3, <1>5, <2>1 DEF Elapse, TypeOK
  <2>2. CASE g = f
    <3>1. /\ row'[f].attempts = row[f].attempts /\ row'[f].status = row[f].status
          /\ row[f].due = "later" /\ row'[f].due = "now"
      BY <1>1, <1>5, <2>2 DEF Elapse, TypeOK, FollowUpAction
    <3>2. excused'[f] = IF row[f].status = "processing" THEN excused[f] + 1 ELSE excused[f]
      BY <1>5, <2>2 DEF Elapse, TypeOK
    <3>3. row[f].status # "processing" => InStore(row'[f]) = InStore(row[f])
      BY <3>1 DEF InStore
    <3>4. InStore(row[f]) <= InStore(row[f])
      BY DEF InStore
    <3>. QED  BY <1>2, <3>1, <3>2, <3>3, <3>4 DEF Quiet
  <2>. QED  BY <2>1, <2>2
<1>6. ASSUME NEW g \in Rows, RequestTransition(g) \/ RequestReprocess(g) PROVE Quiet(f)
  BY <1>3, <1>6 DEF RequestTransition, RequestReprocess, Request
<1>7. ASSUME NEW q \in requests, CommitRequest(q[1], q[2]) PROVE Quiet(f)
  <2>1. CASE q[1] # f
    BY <1>3, <1>7, <2>1 DEF CommitRequest, TypeOK
  <2>2. CASE q[1] = f
    <3>1. q[2] \in Changes /\ row'[f] = Applied(row[f], q[2])
      BY <1>7, <2>2, RequestFields DEF CommitRequest, TypeOK
    <3>2. row'[f].attempts = row[f].attempts
      BY <1>1, <3>1, AppliedRow
    <3>3. excused'[f] =
            IF q[2] = ReprocessChange /\ (row[f].status # "failed" \/ row[f].due = "never")
              THEN excused[f] + 1 ELSE excused[f]
      BY <1>7, <2>2 DEF CommitRequest, TypeOK
    <3>4. CASE q[2] = ReprocessChange
      <4>1. row'[f].status = row[f].status /\ row'[f].due = "now"
        BY <1>1, <3>1, <3>4, AppliedRow DEF ReprocessChange
      <4>2. row[f].status = "failed" /\ row[f].due # "never"
              => InStore(row'[f]) = 1 /\ InStore(row[f]) = 1
        BY <4>1 DEF InStore
      <4>. QED  BY <1>2, <3>2, <3>3, <3>4, <4>2 DEF Quiet
    <3>5. CASE q[2] # ReprocessChange
      <4>1. q[2].status \in TERMINAL_STATUSES
        BY <3>5 DEF CeilingInvariant
      <4>2. row'[f].status \in TERMINAL_STATUSES
        BY <1>1, <3>1, <4>1, AppliedRow DEF TERMINAL_STATUSES
      <4>3. InStore(row'[f]) = 0 /\ 0 <= InStore(row[f])
        BY <4>2 DEF InStore, TERMINAL_STATUSES
      <4>. QED  BY <1>2, <3>2, <3>3, <3>5, <4>3 DEF Quiet
    <3>. QED  BY <3>4, <3>5
  <2>. QED  BY <2>1, <2>2
<1>. QED  BY <1>4, <1>5, <1>6, <1>7 DEF RequestStep

\* Every write a worker is about to make is an outcome of the row it executes.
LEMMA OutcomesStayOutcomes ==
  ASSUME TypeOK, CeilingInvariant, [Next]_vars, NEW w \in Workers, pending'[w] # Nothing
  PROVE  running'[w] \in Rows /\ IsOutcome(pending'[w])
<1>1. \A r : IsOutcome(CompletedChange) /\ IsOutcome(FailedChange(r))
  BY DEF IsOutcome, CompletedChange, FailedChange
<1>2. pending'[w] = pending[w] /\ running'[w] = running[w]
        => running'[w] \in Rows /\ IsOutcome(pending'[w])
  BY DEF CeilingInvariant
<1>3. ASSUME NEW v \in Workers, ReachOutcome(v)
      PROVE  running'[w] \in Rows /\ IsOutcome(pending'[w])
  BY <1>1, <1>2, <1>3 DEF ReachOutcome, TypeOK
<1>4. ASSUME NEW v \in Workers, ClaimDueFollowUp(v)
      PROVE  running'[w] \in Rows /\ IsOutcome(pending'[w])
  BY <1>2, <1>4, FollowUpAssumption DEF ClaimDueFollowUp, TypeOK, CeilingInvariant
<1>5. ASSUME NEW v \in Workers, Idle(v)
      PROVE  running'[w] \in Rows /\ IsOutcome(pending'[w])
  BY <1>2, <1>5 DEF Idle, TypeOK
<1>6. CASE UNCHANGED <<running, pending>>
  BY <1>2, <1>6
<1>. QED
  BY <1>3, <1>4, <1>5, <1>6
  DEF Next, WorkerStep, RequestStep, Conflict, CommitOutcome, Abandon, CreateFollowUp, Elapse,
      RequestTransition, RequestReprocess, Request, CommitRequest, workerVars, vars

\* CeilingInvariant is inductive, relative to the types and to what requests are.
LEMMA CeilingInductive ==
  TypeOK /\ TypeOK' /\ OverlapInvariant /\ CeilingInvariant /\ [Next]_vars
    => CeilingInvariant'
<1> SUFFICES ASSUME TypeOK, TypeOK', OverlapInvariant, CeilingInvariant, [Next]_vars
             PROVE  CeilingInvariant'
  OBVIOUS
<1>1. ASSUME NEW f \in Rows
      PROVE  Quiet(f) \/ \E w \in Workers : TakesUp(f, w) \/ Decides(f, w) \/ Delivers(f, w)
  <2>1. ASSUME NEW w \in Workers, WorkerStep(w) \/ Abandon(w)
        PROVE  Quiet(f) \/ TakesUp(f, w) \/ Decides(f, w) \/ Delivers(f, w)
    BY <2>1, WorkerMoves
  <2>2. CASE \/ \E g \in Rows : \/ CreateFollowUp(g) \/ Elapse(g)
                                \/ RequestTransition(g) \/ RequestReprocess(g)
             \/ RequestStep
    <3>1. UNCHANGED <<running, pending>>
      BY <2>2 DEF CreateFollowUp, Elapse, RequestTransition, RequestReprocess, Request,
                  RequestStep, CommitRequest, workerVars
    <3>. QED  BY <2>2, <3>1, OtherMoves
  <2>3. CASE UNCHANGED vars
    BY <2>3, UntouchedIsQuiet DEF vars
  <2>. QED  BY <2>1, <2>2, <2>3 DEF Next
<1>2. ASSUME NEW f \in Rows
      PROVE  /\ Cardinality(Executing(f)') + InStore(row'[f]) <= 1 + excused'[f]
             /\ row'[f].attempts + InStore(row'[f]) + Cardinality(Retrying(f)')
                  <= MaxAttempts + excused'[f]
  BY <1>1, CountsStayExcused DEF CeilingInvariant
<1>. QED  BY <1>2, OutcomesStayOutcomes, RequestsStayKnown DEF CeilingInvariant

\* CeilingIsExcused: every attempt past the ceiling is paid for by a lease that ran out or a
\* late reprocess, as nothing else lets a row be claimed once more.
THEOREM CeilingIsExcusedHolds == Spec => []CeilingIsExcused
<1>1. Init => OverlapInvariant
  BY DEF Init, OverlapInvariant, OverlapIsExcused
<1>2. Init => CeilingInvariant
  <2> SUFFICES ASSUME Init PROVE CeilingInvariant
    OBVIOUS
  <2>1. \A f \in Rows : Executing(f) = {} /\ Retrying(f) = {}
    BY FollowUpAssumption DEF Init, Executing, Retrying, Nothing
  <2>2. Cardinality({}) = 0
    BY FS_EmptySet
  <2>3. \A f \in Rows : InStore(row[f]) = 1 /\ row[f].attempts = 0 /\ excused[f] = 0
    BY DEF Init, InStore
  <2>. QED  BY <2>1, <2>2, <2>3, FollowUpAssumption DEF Init, CeilingInvariant
<1>3. TypeOK /\ CeilingInvariant => CeilingIsExcused
  <2> SUFFICES ASSUME TypeOK, CeilingInvariant, NEW f \in Rows
               PROVE  row[f].attempts <= MaxAttempts + excused[f]
    BY DEF CeilingIsExcused
  <2>1. Retrying(f) \in SUBSET Workers
    BY DEF Retrying
  <2>2. Cardinality(Retrying(f)) \in Nat /\ InStore(row[f]) \in {0, 1}
    BY <2>1, CountsOfWorkers DEF InStore
  <2>. QED  BY <2>2, FollowUpAssumption DEF TypeOK, FollowUpAction, CeilingInvariant
<1>. QED
  BY <1>1, <1>2, <1>3, OverlapInductive, CeilingInductive, TypeCorrect, PTL DEF Spec

=============================================================================
