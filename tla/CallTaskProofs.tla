---------------------------- MODULE CallTaskProofs ----------------------------
(***************************************************************************)
(* However a call task is interrupted, it lets go of what it holds and     *)
(* leaves a row that tells why the call ended, or cut tells what kept it   *)
(* from doing so.                                                          *)
(***************************************************************************)
EXTENDS CallTask, TLAPS

\* ToTeardown, as a choice of one step by what is still open.
LEMMA TeardownFacts ==
  ASSUME ToTeardown
  PROVE  /\ stage' = "queued"
         /\ pc' = IF Flushes THEN "flush" ELSE IF Closes THEN "close"
                  ELSE IF Detaches THEN "detach" ELSE "finalize"
         /\ media' = IF ~ Flushes /\ ~ Closes /\ Detaches THEN "closed" ELSE media
  BY DEF ToTeardown, ToClose, ToDetach, Goto

LEMMA CloseFacts ==
  ASSUME ToClose
  PROVE  /\ stage' = "queued"
         /\ pc' = IF Closes THEN "close" ELSE IF Detaches THEN "detach" ELSE "finalize"
         /\ media' = IF ~ Closes /\ Detaches THEN "closed" ELSE media
  BY DEF ToClose, ToDetach, Goto

\* What transition_call_session can answer, and what the answer says of the row it read.
LEMMA VerdictFacts ==
  ASSUME NEW r \in CallSession, r.status # "absent", NEW to \in VALID_STATUSES, NEW expected
  PROVE  /\ Verdict(r, to, expected) \in {"mismatch", "invalid", "same", "write"}
         /\ Verdict(r, to, expected) = "mismatch" => expected # NoOwner /\ r.owner # expected
         /\ Verdict(r, to, expected) = "invalid" /\ to \in {"failed", "interrupted"}
              => IsTerminal(r)
         /\ Verdict(r, to, expected) = "same" => r.status = to
         /\ Verdict(r, to, expected) = "write" => ~ IsTerminal(r)
  <1>1. r.status \in VALID_STATUSES
    BY DEF CallSession
  <1>2. /\ IsTerminal(r) => Transitions(r.status) = {}
        /\ ~ IsTerminal(r) => {"failed", "interrupted"} \subseteq Transitions(r.status)
    BY <1>1 DEF Transitions, IsTerminal, VALID_STATUSES, TERMINAL_STATUSES
  <1> QED
    BY <1>1, <1>2 DEF Verdict, IsValidTransition

LEMMA WrittenFacts ==
  ASSUME NEW r \in CallSession, NEW to \in VALID_STATUSES, NEW why \in EndReasons
  PROVE  /\ Written(r, to, why) \in CallSession
         /\ Written(r, to, why).status = to
         /\ Written(r, to, why).owner = r.owner
         /\ Written(r, to, why).endReason = IF to \in TERMINAL_STATUSES /\ why # "none"
                                            THEN why ELSE r.endReason
  BY DEF Written, CallSession

\* The write a task awaits at a step that writes the row.
LEMMA AwaitedFacts ==
  ASSUME TypeOK, pc \in RowPcs, Self \in Runtimes
  PROVE  /\ Awaited \in RowWrites
         /\ Awaited.to = IF pc = "deny" THEN "failed"
                         ELSE IF pc = "finalize" THEN FinalStatus[reason]
                         ELSE IF pc = "fallback" THEN "interrupted" ELSE pc
         /\ Awaited.why = IF pc = "deny" THEN "authorization_denied"
                          ELSE IF pc \in {"finalize", "fallback"} THEN FinalReason[reason]
                          ELSE "none"
         /\ Awaited.expected = IF pc \in {"finalize", "fallback"} THEN NoOwner ELSE Self
  <1>1. /\ FinalStatus[reason] \in {"completed", "interrupted", "failed"}
        /\ FinalReason[reason] \in {"completed", "runtime_shutdown", "media_disconnect"}
    BY DEF TypeOK, Reasons, FinalStatus, FinalReason
  <1>2. pc \in {"deny", "answered", "in_progress", "finalize", "fallback"}
    BY DEF RowPcs
  <1>3. (stage = "read") \in BOOLEAN
    OBVIOUS
  <1> DEFINE to == Awaited.to
             why == Awaited.why
             expected == Awaited.expected
  <1>4. /\ to = IF pc = "deny" THEN "failed"
                ELSE IF pc = "finalize" THEN FinalStatus[reason]
                ELSE IF pc = "fallback" THEN "interrupted" ELSE pc
        /\ why = IF pc = "deny" THEN "authorization_denied"
                 ELSE IF pc \in {"finalize", "fallback"} THEN FinalReason[reason]
                 ELSE "none"
        /\ expected = IF pc \in {"finalize", "fallback"} THEN NoOwner ELSE Self
        /\ Awaited = [to |-> to, why |-> why, expected |-> expected,
                      read |-> (stage = "read")]
    BY <1>2 DEF Awaited
  <1>5. /\ to \in VALID_STATUSES
        /\ why \in EndReasons
        /\ expected \in {Self, NoOwner}
    BY <1>1, <1>2, <1>4 DEF VALID_STATUSES, EndReasons
  <1> HIDE DEF to, why, expected
  <1>6. Awaited \in RowWrites
    BY <1>3, <1>4, <1>5 DEF RowWrites
  <1> QED
    BY <1>4, <1>6 DEF to, why, expected

\* A call is taken on by its owner, answered, and not ended but by another process.
LEMMA HandedOverFacts ==
  ASSUME NEW r \in Runtimes, NEW s \in HandedOver(r)
  PROVE  /\ s \in CallSession /\ s.owner = r
         /\ s.status \in {"answered", "failed", "interrupted"}
         /\ s.endReason \in OutsideReasons \cup {"none"}
         /\ s.endReason = "none" => s.status = "answered"
  <1> DEFINE answered == {[status |-> "answered", owner |-> r, endReason |-> why] :
                            why \in OutsideReasons \cup {"none"}}
  <1>1. \A a \in answered :
           /\ a \in CallSession /\ a.status = "answered" /\ a.owner = r
           /\ a.endReason \in OutsideReasons \cup {"none"}
    BY DEF CallSession, OutsideReasons, EndReasons, VALID_STATUSES
  <1>2. CASE s \in answered
    BY <1>1, <1>2
  <1>3. ASSUME NEW a \in answered, NEW why \in OutsideReasons, s = WrittenOutside(a, why)
        PROVE  /\ s \in CallSession /\ s.owner = r
               /\ s.status \in {"failed", "interrupted"} /\ s.endReason = why
    <2>1. why \in EndReasons /\ why # "none"
      BY DEF OutsideReasons, EndReasons
    <2>2. PICK to \in {"failed", "interrupted"} : s = Written(a, to, why)
      BY <1>3 DEF WrittenOutside
    <2>3. to \in VALID_STATUSES /\ to \in TERMINAL_STATUSES
      BY DEF VALID_STATUSES, TERMINAL_STATUSES
    <2> HIDE DEF answered
    <2> QED
      BY <1>1, <2>1, <2>2, <2>3, WrittenFacts
  <1>4. "none" \notin OutsideReasons
    BY DEF OutsideReasons
  <1> QED
    BY <1>2, <1>3, <1>4 DEF HandedOver

LEMMA TypeInit ==
  ASSUME Init
  PROVE  TypeOK
  <1>1. row \in CallSession
    BY TaskAssumption, HandedOverFacts DEF Init, CallSession, VALID_STATUSES, EndReasons
  <1>2. process \in {"running", "stopping", "closed", "exiting"} /\ overwritten \in BOOLEAN
    BY DEF Init
  <1> QED
    BY <1>1, <1>2 DEF Init, TypeOK, BodyPcs, Stages, Reasons, RowWrites

LEMMA TeardownKeepsType ==
  ASSUME TypeOK, ToTeardown \/ ToClose \/ ToDetach
  PROVE  /\ stage' \in Stages
         /\ pc' \in TeardownPcs
         /\ media' \in {"none", "open", "closed"}
  <1>1. /\ stage' = "queued"
        /\ pc' \in {"flush", "close", "detach", "finalize"}
        /\ media' \in {media, "closed"}
    BY TeardownFacts, CloseFacts DEF ToDetach, Goto
  <1> QED
    BY <1>1 DEF TypeOK, Stages, TeardownPcs

Pcs == BodyPcs \cup TeardownPcs \cup {"talking", "unwinding", "ended"}

\* What Goto, Accepted and Refused do to the place of the task.
LEMMA VerdictMoves ==
  ASSUME TypeOK, Accepted \/ \E verdict : Refused(verdict)
  PROVE  /\ pc' \in Pcs /\ stage' \in Stages /\ media' \in {"none", "open", "closed"}
  <1>1. CASE Accepted
    BY <1>1 DEF Accepted, Goto, TypeOK, Pcs, BodyPcs, TeardownPcs, Stages
  <1>2. ASSUME NEW verdict, Refused(verdict)
        PROVE  pc' \in Pcs /\ stage' \in Stages /\ media' \in {"none", "open", "closed"}
    <2>1. \/ pc' \in {"fallback", "analysis"} /\ stage' = "queued" /\ media' = media
          \/ ToTeardown
      BY <1>2 DEF Refused, Goto
    <2> QED
      BY <2>1, TeardownKeepsType DEF TypeOK, Pcs, TeardownPcs, Stages
  <1> QED
    BY <1>1, <1>2

\* The steps that write a row.
LEMMA RowStepKeepsType ==
  ASSUME TypeOK, ReadRow \/ CommitRow \/ DbFails \/ OrphanStep \/ OutsiderCommits
  PROVE  TypeOK'
  <1>1. Self \in Runtimes
    BY TaskAssumption
  <1>2. CASE ReadRow
    <2>1. \/ stage' = "read" /\ UNCHANGED <<pc, media>>
          \/ Accepted
          \/ \E verdict : Refused(verdict)
      BY <1>2 DEF ReadRow
    <2>2. pc' \in Pcs /\ stage' \in Stages /\ media' \in {"none", "open", "closed"}
      BY <2>1, VerdictMoves DEF TypeOK, Pcs, Stages
    <2> QED
      BY <1>2, <2>2 DEF ReadRow, TypeOK, Pcs, history
  <1>3. CASE CommitRow
    <2>1. pc' \in Pcs /\ stage' \in Stages /\ media' \in {"none", "open", "closed"}
      BY <1>3, VerdictMoves DEF CommitRow
    <2>2. Awaited.to \in VALID_STATUSES /\ Awaited.why \in EndReasons
      BY <1>1, <1>3, AwaitedFacts DEF CommitRow, RowWrites
    <2>3. row' \in CallSession
      BY <1>3, <2>2, WrittenFacts DEF CommitRow, TypeOK
    <2> QED
      BY <1>3, <2>1, <2>3 DEF CommitRow, TypeOK, Pcs, history
  <1>4. CASE DbFails
    <2>1. \/ pc' = "ended" /\ stage' = "queued" /\ media' = media
          \/ \E verdict : Refused(verdict)
      BY <1>4 DEF DbFails, Goto
    <2>2. pc' \in Pcs /\ stage' \in Stages /\ media' \in {"none", "open", "closed"}
      BY <2>1, VerdictMoves DEF TypeOK, Pcs, Stages
    <2>3. cut' \subseteq Cuts
      BY <1>4 DEF DbFails, TypeOK, Cuts
    <2> QED
      BY <1>4, <2>2, <2>3 DEF DbFails, TypeOK, Pcs
  <1>5. CASE OrphanStep
    <2>1. PICK write \in orphans : OrphanReads(write) \/ OrphanCommits(write)
      BY <1>5 DEF OrphanStep
    <2>2. write \in RowWrites /\ [write EXCEPT !.read = TRUE] \in RowWrites
      BY <2>1 DEF TypeOK, RowWrites
    <2>3. Written(row, write.to, write.why) \in CallSession
      BY <2>2, WrittenFacts DEF TypeOK, RowWrites
    <2>4. row' \in CallSession /\ orphans' \subseteq RowWrites
      BY <2>1, <2>2, <2>3 DEF OrphanReads, OrphanCommits, TypeOK
    <2> QED
      BY <2>1, <2>4 DEF OrphanReads, OrphanCommits, TypeOK, resources, history
  <1>6. CASE OutsiderCommits
    <2>1. PICK why \in OutsideReasons :
            row' = Written(row, IF why = "runtime_crashed" THEN "interrupted" ELSE "failed",
                           why)
      BY <1>6 DEF OutsiderCommits, WrittenOutside
    <2>2. row' \in CallSession
      BY <2>1, WrittenFacts DEF TypeOK, OutsideReasons, EndReasons, VALID_STATUSES
    <2> QED
      BY <1>6, <2>2 DEF OutsiderCommits, TypeOK, resources, history
  <1> QED
    BY <1>2, <1>3, <1>4, <1>5, <1>6

\* The cancellations.
LEMMA CancelKeepsType ==
  ASSUME TypeOK, Cancel \/ Undisturbed
  PROVE  /\ pc' \in Pcs /\ stage' \in Stages /\ media' \in {"none", "open", "closed"}
         /\ engine' \in {"none", "open", "closed"}
         /\ writer' \in {"none", "open", "closed"}
         /\ raised' \in {"nothing", "transport", "other"}
         /\ orphans' \subseteq RowWrites
         /\ cut' \subseteq Cuts
  <1>1. Orphaned \subseteq RowWrites
    BY AwaitedFacts, TaskAssumption DEF Orphaned, TypeOK
  <1>2. CASE CancelsPumps
    BY <1>2 DEF CancelsPumps, Unwind, Goto, TypeOK, Pcs, Stages, resources
  <1>3. CASE CancelsBody
    BY <1>1, <1>3, TeardownKeepsType DEF CancelsBody, TypeOK, Pcs, Cuts
  <1>4. CASE CancelsFlush
    BY <1>4, TeardownKeepsType DEF CancelsFlush, TypeOK, Pcs
  <1>5. CASE CancelsTeardown
    BY <1>1, <1>5 DEF CancelsTeardown, Goto, TypeOK, Pcs, Stages, Cuts, resources
  <1>6. CASE Undisturbed
    BY <1>6 DEF Undisturbed, TypeOK, Pcs, resources
  <1> QED
    BY <1>2, <1>3, <1>4, <1>5, <1>6 DEF Cancel

BodyStep == DbStart \/ Load \/ Deny \/ Attach \/ AttachFails \/ StartEngine \/ StartEngineFails
TalkStep == HangupArrives \/ WatcherStops \/ PumpsEnd \/ Unwound
LastStep == Flush \/ Close \/ Detach \/ Analyse
ProcessStep == Shutdown \/ CloseDatabase \/ ExitProcess

LEMMA TypeIsInductive ==
  ASSUME TypeOK, [Next]_vars
  PROVE  TypeOK'
  <1> USE DEF Goto, resources, history, Pcs, BodyPcs, TeardownPcs, Stages
  <1>1. CASE BodyStep
    <2>1. CASE DbStart \/ Load \/ Deny
      BY <2>1 DEF DbStart, Load, Deny, TypeOK
    <2>2. CASE Attach \/ StartEngine
      BY <2>2 DEF Attach, StartEngine, TypeOK
    <2>3. CASE AttachFails \/ StartEngineFails
      BY <2>3, TeardownKeepsType DEF AttachFails, StartEngineFails, TypeOK
    <2> QED
      BY <1>1, <2>1, <2>2, <2>3 DEF BodyStep
  <1>2. CASE TalkStep
    <2>1. CASE HangupArrives \/ WatcherStops
      BY <2>1 DEF HangupArrives, WatcherStops, Unwind, TypeOK, Reasons
    <2>2. CASE PumpsEnd
      BY <2>2 DEF PumpsEnd, Unwind, TypeOK
    <2>3. CASE Unwound
      BY <2>3, TeardownKeepsType DEF Unwound, TypeOK, Reasons
    <2> QED
      BY <1>2, <2>1, <2>2, <2>3 DEF TalkStep
  <1>3. CASE LastStep
    <2>1. CASE Flush \/ Close
      BY <2>1, TeardownKeepsType DEF Flush, Close, TypeOK
    <2>2. CASE Detach \/ Analyse
      BY <2>2 DEF Detach, Analyse, TypeOK
    <2> QED
      BY <1>3, <2>1, <2>2 DEF LastStep
  <1>4. CASE ProcessStep
    <2>1. Cancel \/ Undisturbed
      BY <1>4 DEF ProcessStep, Shutdown, CloseDatabase, ExitProcess
    <2> QED
      BY <1>4, <2>1, CancelKeepsType
         DEF ProcessStep, Shutdown, CloseDatabase, ExitProcess, TypeOK, Reasons
  <1>5. CASE ReadRow \/ CommitRow \/ DbFails \/ OrphanStep \/ OutsiderCommits
    BY <1>5, RowStepKeepsType
  <1>6. CASE UNCHANGED vars
    BY <1>6 DEF vars, TypeOK
  <1> QED
    BY <1>1, <1>2, <1>3, <1>4, <1>5, <1>6
       DEF Next, TaskStep, DbStep, BodyStep, TalkStep, LastStep, ProcessStep

-----------------------------------------------------------------------------
(* The inductive invariant.  What is open belongs to the step the task is   *)
(* at; the reason is the one the pumps left behind; and while nothing has   *)
(* cut the task short, its row is terminal once it was finalized, and only  *)
(* because another process wrote it before that.                           *)

Serving == {"answered", "in_progress", "talking", "unwinding"}
Last == {"analysis", "ended"}
CutOff == pc = "ended" /\ "cancelled" \in cut

ResourcesInv ==
  /\ writer = "open" => pc \in Serving \cup {"flush"}
  /\ engine = "open" => pc \in Serving \cup {"flush", "close"} \/ CutOff
  /\ media = "open" => pc \in Serving \cup {"engine", "flush", "close"} \/ CutOff

CauseInv ==
  /\ lost => pc \in TeardownPcs \cup {"ended"}
  /\ pc = "deny" => denied
  /\ denied => pc \in {"deny", "finalize", "fallback"} \cup Last
  /\ process = "running" => reason = IF lost THEN "media_disconnect" ELSE "hangup"

RowInv ==
  /\ row.owner = Self /\ row.status # "absent"
  /\ orphans # {} => cut # {}
  /\ cut = {} /\ pc \in Last => IsTerminal(row)

Cause == IF denied THEN "authorization_denied"
         ELSE IF lost THEN "media_disconnect" ELSE "completed"

Excused == overwritten /\ row.endReason \in OutsideReasons
Overwritten == IsTerminal(row) /\ Excused

OutcomeInv ==
  cut = {} /\ process = "running" =>
    /\ ~ Excused =>
         IF pc \in Last THEN row.endReason = Cause ELSE ~ IsTerminal(row)
    /\ denied /\ pc \in {"finalize", "fallback"} => Overwritten /\ stage # "read"

TaskInv == TypeOK /\ ResourcesInv /\ CauseInv /\ RowInv /\ OutcomeInv

LEMMA TaskInvInit ==
  ASSUME Init
  PROVE  TaskInv
  <1>1. TypeOK
    BY TypeInit
  <1>2. ResourcesInv /\ CauseInv
    BY DEF Init, ResourcesInv, CauseInv, Last, TeardownPcs
  <1>3. /\ row.owner = Self
        /\ row.status \in {"answered", "failed", "interrupted"}
        /\ row.endReason \in OutsideReasons \cup {"none"}
        /\ row.endReason = "none" => row.status = "answered"
    BY TaskAssumption, HandedOverFacts DEF Init
  <1>4. RowInv
    BY <1>3 DEF Init, RowInv, Last
  <1>5. OutcomeInv
    BY <1>3 DEF Init, OutcomeInv, Excused, Last, IsTerminal, TERMINAL_STATUSES
  <1> QED
    BY <1>1, <1>2, <1>4, <1>5 DEF TaskInv

-----------------------------------------------------------------------------
(* What is open                                                            *)

\* From wherever the body is left, the finally block has what is still open before it.
LEMMA TeardownKeepsResources ==
  ASSUME ResourcesInv, ToTeardown, pc \in BodyPcs \cup {"unwinding"},
         UNCHANGED <<engine, writer>>
  PROVE  ResourcesInv'
  BY TeardownFacts DEF ResourcesInv, Serving, BodyPcs, CutOff, Flushes, Closes, Detaches

LEMMA CloseKeepsResources ==
  ASSUME ResourcesInv, ToClose, pc = "flush", writer' = "closed", UNCHANGED engine
  PROVE  ResourcesInv'
  BY CloseFacts DEF ResourcesInv, Serving, CutOff, Closes, Detaches

LEMMA ResourcesAreKept ==
  ASSUME TaskInv, [Next]_vars
  PROVE  ResourcesInv'
  <1> USE DEF TaskInv, resources, history
  <1>1. CASE BodyStep
    <2>1. CASE DbStart \/ Load \/ Deny
      BY <2>1 DEF DbStart, Load, Deny, ResourcesInv, Serving, CutOff, Goto, DbPcs
    <2>2. CASE Attach \/ StartEngine
      BY <2>2 DEF Attach, StartEngine, ResourcesInv, Serving, CutOff, Goto
    <2>3. CASE AttachFails \/ StartEngineFails
      BY <2>3, TeardownKeepsResources DEF AttachFails, StartEngineFails, BodyPcs
    <2> QED
      BY <1>1, <2>1, <2>2, <2>3 DEF BodyStep
  <1>2. CASE TalkStep
    <2>1. CASE HangupArrives
      BY <2>1 DEF HangupArrives, ResourcesInv, CutOff
    <2>2. CASE WatcherStops \/ PumpsEnd
      BY <2>2 DEF WatcherStops, PumpsEnd, Unwind, Goto, ResourcesInv, Serving, CutOff
    <2>3. CASE Unwound
      BY <2>3, TeardownKeepsResources DEF Unwound
    <2> QED
      BY <1>2, <2>1, <2>2, <2>3 DEF TalkStep
  <1>3. CASE LastStep
    <2>1. CASE Flush
      BY <2>1, CloseKeepsResources DEF Flush
    <2>2. CASE Close
      BY <2>2 DEF Close, ToDetach, Detaches, Goto, ResourcesInv, Serving, CutOff
    <2>3. CASE Detach \/ Analyse
      BY <2>3 DEF Detach, Analyse, Goto, ResourcesInv, Serving, CutOff
    <2> QED
      BY <1>3, <2>1, <2>2, <2>3 DEF LastStep
  <1>4. CASE ProcessStep
    <2>1. CASE CancelsPumps
      BY <2>1 DEF CancelsPumps, Unwind, Goto, ResourcesInv, Serving, CutOff
    <2>2. CASE CancelsBody
      BY <2>2, TeardownKeepsResources DEF CancelsBody
    <2>3. CASE CancelsFlush
      BY <2>3, CloseKeepsResources DEF CancelsFlush
    <2>4. CASE CancelsTeardown
      BY <2>4 DEF CancelsTeardown, Goto, ResourcesInv, Serving, CutOff, TeardownPcs
    <2>5. CASE Undisturbed
      BY <2>5 DEF Undisturbed, ResourcesInv, CutOff
    <2> QED
      BY <1>4, <2>1, <2>2, <2>3, <2>4, <2>5
         DEF ProcessStep, Shutdown, CloseDatabase, ExitProcess, Cancel
  <1>5. CASE ReadRow \/ CommitRow \/ DbFails
    <2>1. UNCHANGED <<engine, writer>> /\ pc \in DbPcs /\ cut \subseteq cut'
      BY <1>5 DEF ReadRow, CommitRow, DbFails, RowPcs, DbPcs
    <2>2. CASE Accepted
      BY <2>1, <2>2 DEF Accepted, Goto, ResourcesInv, Serving, CutOff, DbPcs
    <2>3. ASSUME NEW verdict, Refused(verdict), pc # "analysis"
          PROVE  ResourcesInv'
      <3>1. CASE pc \in {"finalize", "fallback"}
        BY <2>1, <2>3, <3>1 DEF Refused, Goto, ResourcesInv, Serving, CutOff
      <3>2. CASE pc \notin {"finalize", "fallback"}
        BY <2>1, <2>3, <3>2, TeardownKeepsResources DEF Refused, BodyPcs, DbPcs
      <3> QED
        BY <3>1, <3>2
    <2>4. CASE pc = "analysis" /\ Goto("ended") /\ UNCHANGED media
      BY <2>1, <2>4 DEF Goto, ResourcesInv, Serving, CutOff
    <2>5. CASE UNCHANGED <<pc, media>>
      BY <2>1, <2>5 DEF ResourcesInv, CutOff
    <2> QED
      BY <1>5, <2>2, <2>3, <2>4, <2>5 DEF ReadRow, CommitRow, DbFails, RowPcs
  <1>6. CASE OrphanStep \/ OutsiderCommits \/ UNCHANGED vars
    BY <1>6 DEF OrphanStep, OrphanReads, OrphanCommits, OutsiderCommits, vars,
                ResourcesInv, CutOff
  <1> QED
    BY <1>1, <1>2, <1>3, <1>4, <1>5, <1>6
       DEF Next, TaskStep, DbStep, BodyStep, TalkStep, LastStep, ProcessStep

-----------------------------------------------------------------------------
(* Why the call ended                                                      *)

\* A denied call has nothing to release: its finally block only finalizes.
LEMMA TeardownKeepsCause ==
  ASSUME ResourcesInv, CauseInv, ToTeardown, pc \in BodyPcs, UNCHANGED <<lost, denied>>
  PROVE  /\ lost' => pc' \in TeardownPcs \cup {"ended"}
         /\ pc' # "deny"
         /\ denied' => pc' = "finalize"
  <1>1. pc' \in {"flush", "close", "detach", "finalize"}
    BY TeardownFacts
  <1>3. ASSUME denied
        PROVE  pc' = "finalize"
    <2>1. pc = "deny"
      BY <1>3 DEF CauseInv, BodyPcs, Last
    <2>2. ~ Flushes /\ ~ Closes /\ ~ Detaches
      BY <2>1 DEF ResourcesInv, Serving, CutOff, Flushes, Closes, Detaches
    <2> QED
      BY <2>2, TeardownFacts
  <1> QED
    BY <1>1, <1>3 DEF TeardownPcs

LEMMA CauseIsKept ==
  ASSUME TaskInv, [Next]_vars
  PROVE  CauseInv'
  <1> USE DEF TaskInv, resources, history
  <1>1. CASE BodyStep
    <2>1. CASE DbStart \/ Load \/ Deny
      BY <2>1 DEF DbStart, Load, Deny, CauseInv, Last, TeardownPcs, Goto
    <2>2. CASE Attach \/ StartEngine
      BY <2>2 DEF Attach, StartEngine, CauseInv, Last, TeardownPcs, Goto
    <2>3. CASE AttachFails \/ StartEngineFails
      <3>1. pc \in BodyPcs /\ ToTeardown /\ UNCHANGED <<lost, denied, reason, process>>
        BY <2>3 DEF AttachFails, StartEngineFails, BodyPcs
      <3> QED
        BY <3>1, TeardownKeepsCause DEF CauseInv, Last
    <2> QED
      BY <1>1, <2>1, <2>2, <2>3 DEF BodyStep
  <1>2. CASE TalkStep
    <2>1. CASE HangupArrives
      BY <2>1 DEF HangupArrives, CauseInv
    <2>2. CASE WatcherStops \/ PumpsEnd
      BY <2>2 DEF WatcherStops, PumpsEnd, Unwind, Goto, CauseInv, TeardownPcs, Last
    <2>3. CASE Unwound
      <3>1. pc' \in {"flush", "close", "detach", "finalize"}
        BY <2>3, TeardownFacts DEF Unwound
      <3>2. ~ lost /\ ~ denied /\ ~ denied'
        BY <2>3 DEF Unwound, CauseInv, TeardownPcs, Last
      <3>3. process' = "running" => reason' = IF lost' THEN "media_disconnect" ELSE "hangup"
        BY <2>3, <3>2 DEF Unwound, CauseInv
      <3> QED
        BY <3>1, <3>2, <3>3 DEF CauseInv, TeardownPcs
    <2> QED
      BY <1>2, <2>1, <2>2, <2>3 DEF TalkStep
  <1>3. CASE LastStep
    <2>1. /\ UNCHANGED <<lost, denied, reason, process>>
          /\ pc \in {"flush", "close", "detach", "analysis"}
      BY <1>3 DEF LastStep, Flush, Close, Detach, Analyse
    <2>2. pc' \in {"close", "detach", "finalize", "ended"}
      BY <1>3, CloseFacts DEF LastStep, Flush, Close, Detach, Analyse, ToDetach, Goto
    <2>3. denied => pc' = "ended"
      BY <1>3, <2>1 DEF LastStep, Flush, Close, Detach, Analyse, CauseInv, Last, Goto
    <2> QED
      BY <2>1, <2>2, <2>3 DEF CauseInv, TeardownPcs, Last
  <1>4. CASE ProcessStep
    <2>1. process' # "running" /\ UNCHANGED <<lost, denied>>
      BY <1>4 DEF ProcessStep, Shutdown, CloseDatabase, ExitProcess
    <2>2. CASE CancelsPumps
      BY <2>1, <2>2 DEF CancelsPumps, Unwind, Goto, CauseInv, TeardownPcs, Last
    <2>3. CASE CancelsBody
      BY <2>1, <2>3, TeardownKeepsCause DEF CancelsBody, CauseInv
    <2>4. CASE CancelsFlush
      <3>1. pc' \in {"close", "detach", "finalize"} /\ ~ denied
        BY <2>4, CloseFacts DEF CancelsFlush, CauseInv, Last
      <3> QED
        BY <2>1, <3>1 DEF CauseInv, TeardownPcs
    <2>5. CASE CancelsTeardown
      BY <2>1, <2>5 DEF CancelsTeardown, Goto, CauseInv, TeardownPcs, Last
    <2>6. CASE Undisturbed
      BY <2>1, <2>6 DEF Undisturbed, CauseInv
    <2> QED
      BY <1>4, <2>2, <2>3, <2>4, <2>5, <2>6
         DEF ProcessStep, Shutdown, CloseDatabase, ExitProcess, Cancel
  <1>5. CASE ReadRow \/ CommitRow \/ DbFails
    <2>1. UNCHANGED <<lost, denied, reason, process>> /\ pc \in DbPcs
      BY <1>5 DEF ReadRow, CommitRow, DbFails, RowPcs, DbPcs
    <2>2. CASE Accepted
      BY <2>1, <2>2 DEF Accepted, Goto, CauseInv, TeardownPcs, Last, DbPcs
    <2>3. ASSUME NEW verdict, Refused(verdict), pc # "analysis"
          PROVE  CauseInv'
      <3>1. CASE pc \in {"finalize", "fallback"}
        BY <2>1, <2>3, <3>1 DEF Refused, Goto, CauseInv, TeardownPcs, Last
      <3>2. CASE pc \notin {"finalize", "fallback"}
        BY <2>1, <2>3, <3>2, TeardownKeepsCause DEF Refused, BodyPcs, DbPcs, CauseInv
      <3> QED
        BY <3>1, <3>2
    <2>4. CASE pc = "analysis" /\ Goto("ended")
      BY <2>1, <2>4 DEF Goto, CauseInv, Last
    <2>5. CASE UNCHANGED pc
      BY <2>1, <2>5 DEF CauseInv
    <2> QED
      BY <1>5, <2>2, <2>3, <2>4, <2>5 DEF ReadRow, CommitRow, DbFails, RowPcs
  <1>6. CASE OrphanStep \/ OutsiderCommits \/ UNCHANGED vars
    BY <1>6 DEF OrphanStep, OrphanReads, OrphanCommits, OutsiderCommits, vars, CauseInv
  <1> QED
    BY <1>1, <1>2, <1>3, <1>4, <1>5, <1>6
       DEF Next, TaskStep, DbStep, BodyStep, TalkStep, LastStep, ProcessStep

-----------------------------------------------------------------------------
(* The row                                                                 *)

\* Steps that leave the row alone.
LEMMA QuietStepKeepsRow ==
  ASSUME RowInv, UNCHANGED row, cut \subseteq cut', orphans' # {} => cut' # {},
         cut' = {} /\ pc' \in Last => pc \in Last
  PROVE  RowInv'
  <1>1. cut' = {} => cut = {}
    OBVIOUS
  <1> QED
    BY <1>1 DEF RowInv, IsTerminal

LEMMA QuietStepKeepsOutcome ==
  ASSUME OutcomeInv, UNCHANGED <<row, process, overwritten>>, cut \subseteq cut',
         cut' = {} => (pc \in Last <=> pc' \in Last),
         pc \in Last => UNCHANGED <<denied, lost>>,
         cut' = {} /\ denied' /\ pc' \in {"finalize", "fallback"}
           => denied /\ pc \in {"finalize", "fallback"} /\ (stage' = stage \/ stage' # "read")
  PROVE  OutcomeInv'
  <1>1. cut' = {} => cut = {}
    OBVIOUS
  <1>2. /\ IsTerminal(row)' <=> IsTerminal(row)
        /\ Overwritten' <=> Overwritten
        /\ Excused' <=> Excused
    BY DEF IsTerminal, Overwritten, Excused
  <1>3. pc \in Last => Cause' = Cause
    BY DEF Cause
  <1> QED
    BY <1>1, <1>2, <1>3 DEF OutcomeInv

LEMMA BodyStepKeepsRow ==
  ASSUME TaskInv, BodyStep \/ TalkStep \/ LastStep
  PROVE  RowInv' /\ OutcomeInv'
  <1> USE DEF TaskInv, resources, history
  <1>1. UNCHANGED <<row, process, overwritten, orphans, cut>>
    BY DEF BodyStep, DbStart, Load, Deny, Attach, AttachFails, StartEngine, StartEngineFails,
           TalkStep, HangupArrives, WatcherStops, PumpsEnd, Unwound, LastStep, Flush, Close,
           Detach, Analyse
  <1>2. CASE DbStart \/ HangupArrives
    <2>1. UNCHANGED <<pc, denied, lost>> /\ (stage' = stage \/ stage' # "read")
      BY <1>2 DEF DbStart, HangupArrives
    <2> QED
      BY <1>1, <2>1, QuietStepKeepsRow, QuietStepKeepsOutcome DEF RowInv
  <1>3. CASE Load \/ Deny \/ Attach \/ AttachFails \/ StartEngine \/ StartEngineFails
             \/ WatcherStops \/ PumpsEnd \/ Unwound \/ Flush \/ Close \/ Detach
    <2>1. pc \notin Last /\ pc \notin {"deny", "finalize", "fallback"} /\ ~ denied
      BY <1>3 DEF Load, Deny, Attach, AttachFails, StartEngine, StartEngineFails, WatcherStops,
                  PumpsEnd, Unwound, Flush, Close, Detach, Last, CauseInv
    <2>2. pc' \notin Last
      BY <1>3, TeardownFacts, CloseFacts
         DEF Load, Deny, Attach, AttachFails, StartEngine, StartEngineFails, WatcherStops,
             PumpsEnd, Unwind, Unwound, Flush, Close, Detach, ToDetach, Last, Goto
    <2>3. denied' => pc' = "deny"
      BY <1>3, <2>1
         DEF Load, Deny, Attach, AttachFails, StartEngine, StartEngineFails, WatcherStops,
             PumpsEnd, Unwound, Flush, Close, Detach, Goto
    <2> QED
      BY <1>1, <2>1, <2>2, <2>3, QuietStepKeepsRow, QuietStepKeepsOutcome DEF RowInv
  <1>4. CASE Analyse
    <2>1. pc \in Last /\ pc' = "ended" /\ pc' \in Last /\ UNCHANGED <<denied, lost>>
      BY <1>4 DEF Analyse, Goto, Last
    <2> QED
      BY <1>1, <2>1, QuietStepKeepsRow, QuietStepKeepsOutcome DEF RowInv
  <1> QED
    BY <1>2, <1>3, <1>4 DEF BodyStep, TalkStep, LastStep

LEMMA ProcessStepKeepsRow ==
  ASSUME TaskInv, ProcessStep
  PROVE  RowInv' /\ OutcomeInv'
  <1> USE DEF TaskInv, resources
  <1>1. process' # "running" /\ UNCHANGED row
    BY DEF ProcessStep, Shutdown, CloseDatabase, ExitProcess
  <1>2. Cancel \/ Undisturbed
    BY DEF ProcessStep, Shutdown, CloseDatabase, ExitProcess
  <1>3. CASE CancelsPumps \/ CancelsFlush
    <2>1. pc' \notin Last /\ UNCHANGED <<orphans, cut>>
      BY <1>3, CloseFacts DEF CancelsPumps, CancelsFlush, Unwind, Goto, Last
    <2> QED
      BY <1>1, <2>1, QuietStepKeepsRow DEF RowInv, OutcomeInv
  <1>4. CASE CancelsBody
    <2>1. pc' \notin Last
      BY <1>4, TeardownFacts DEF CancelsBody, Last
    <2>2. cut \subseteq cut' /\ (orphans' # {} => cut' # {})
      BY <1>4 DEF CancelsBody, RowInv
    <2> QED
      BY <1>1, <2>1, <2>2, QuietStepKeepsRow DEF OutcomeInv
  <1>5. CASE CancelsTeardown
    <2>1. cut' # {} /\ cut \subseteq cut'
      BY <1>5 DEF CancelsTeardown
    <2> QED
      BY <1>1, <2>1, QuietStepKeepsRow DEF OutcomeInv
  <1>6. CASE Undisturbed
    BY <1>1, <1>6, QuietStepKeepsRow DEF Undisturbed, RowInv, OutcomeInv
  <1> QED
    BY <1>2, <1>3, <1>4, <1>5, <1>6 DEF Cancel

\* A database call that raises: past the body it leaves cut behind.
LEMMA DbFailsKeepsRow ==
  ASSUME TaskInv, DbFails
  PROVE  RowInv' /\ OutcomeInv'
  <1> USE DEF TaskInv
  <1>1. UNCHANGED <<row, process, overwritten, orphans, denied, lost>> /\ cut \subseteq cut'
    BY DEF DbFails
  <1>2. CASE pc \in {"deny", "finalize", "fallback"}
    <2>1. cut' # {}
      BY <1>2 DEF DbFails
    <2> QED
      BY <1>1, <2>1, QuietStepKeepsRow DEF OutcomeInv
  <1>3. CASE pc = "analysis"
    <2>1. pc \in Last /\ pc' \in Last /\ pc' = "ended" /\ cut' = cut
      BY <1>3 DEF DbFails, Goto, Last
    <2> QED
      BY <1>1, <2>1, QuietStepKeepsRow, QuietStepKeepsOutcome DEF RowInv
  <1>4. CASE pc \in {"load", "version", "authorize", "answered", "in_progress"}
    <2>1. ToTeardown /\ cut' = cut
      BY <1>4 DEF DbFails, Refused
    <2>2. pc \notin Last /\ pc' \notin Last /\ ~ denied
      BY <1>4, <2>1, TeardownFacts DEF Last, CauseInv
    <2> QED
      BY <1>1, <2>1, <2>2, QuietStepKeepsRow, QuietStepKeepsOutcome DEF RowInv
  <1> QED
    BY <1>2, <1>3, <1>4 DEF DbFails, DbPcs

\* Nobody takes the row over, so the checks of the owner succeed.
LEMMA ReadRowKeepsRow ==
  ASSUME TaskInv, ReadRow
  PROVE  RowInv' /\ OutcomeInv'
  <1> USE DEF TaskInv
  <1> DEFINE verdict == VerdictOf(Awaited)
  <1>1. /\ UNCHANGED <<row, process, overwritten, orphans, cut, denied, lost>>
        /\ pc \in RowPcs
        /\ pc \notin Last
        /\ CASE verdict = "write" -> stage' = "read" /\ UNCHANGED <<pc, media>>
             [] verdict = "same"  -> Accepted
             [] OTHER             -> Refused(verdict)
    BY DEF ReadRow, RowPcs, Last, history
  <1>e. Excused' <=> Excused
    BY <1>1 DEF Excused
  <1>2. Self \in Runtimes /\ Self # NoOwner
    BY TaskAssumption, OwnerAssumption
  <1>3. /\ Awaited.to \in VALID_STATUSES
        /\ Awaited.to = IF pc = "deny" THEN "failed"
                        ELSE IF pc = "finalize" THEN FinalStatus[reason]
                        ELSE IF pc = "fallback" THEN "interrupted" ELSE pc
        /\ Awaited.expected = IF pc \in {"finalize", "fallback"} THEN NoOwner ELSE Self
    BY <1>1, <1>2, AwaitedFacts DEF RowWrites
  <1>4. /\ verdict \in {"invalid", "same", "write"}
        /\ verdict = "invalid" /\ Awaited.to \in {"failed", "interrupted"} => IsTerminal(row)
        /\ verdict = "same" => row.status = Awaited.to
        /\ verdict = "write" => ~ IsTerminal(row)
    BY <1>2, <1>3, VerdictFacts DEF VerdictOf, RowInv, TypeOK
  <1> HIDE DEF verdict
  <1>5. pc = "finalize" => Awaited.to \in TERMINAL_STATUSES
    BY <1>3 DEF TypeOK, Reasons, FinalStatus, TERMINAL_STATUSES
  <1>6. CASE verdict = "write"
    <2>1. stage' = "read" /\ pc' = pc
      BY <1>1, <1>6
    <2>2. cut = {} /\ process = "running" => ~ (denied /\ pc \in {"finalize", "fallback"})
      BY <1>4, <1>6 DEF OutcomeInv, Overwritten
    <2>3. RowInv'
      BY <1>1, <2>1, QuietStepKeepsRow DEF RowInv
    <2>4. (IsTerminal(row)' <=> IsTerminal(row)) /\ (Excused' <=> Excused)
      BY <1>1 DEF IsTerminal, Excused
    <2>5. OutcomeInv'
      BY <1>1, <2>1, <2>2, <2>4 DEF OutcomeInv
    <2> QED
      BY <2>3, <2>5
  <1>7. CASE verdict = "same" /\ pc \in {"answered", "in_progress"}
    <2>1. pc' \in {"in_progress", "talking"} /\ ~ denied
      BY <1>1, <1>7 DEF Accepted, Goto, CauseInv, Last
    <2>2. pc' \notin Last
      BY <2>1 DEF Last
    <2> QED
      BY <1>1, <2>1, <2>2, QuietStepKeepsRow, QuietStepKeepsOutcome DEF RowInv
  <1>8. CASE verdict = "same" /\ pc \in {"deny", "finalize", "fallback"}
    <2>1. pc' = "analysis"
      BY <1>1, <1>8 DEF Accepted, Goto
    <2>2. IsTerminal(row)
      BY <1>3, <1>4, <1>5, <1>8 DEF IsTerminal, TERMINAL_STATUSES
    <2>3. IsTerminal(row)' <=> IsTerminal(row)
      BY <1>1 DEF IsTerminal
    <2>4. RowInv'
      BY <1>1, <2>2, <2>3 DEF RowInv
    <2>5. OutcomeInv'
      BY <1>1, <1>e, <2>1, <2>2 DEF OutcomeInv
    <2> QED
      BY <2>4, <2>5
  <1>9. CASE verdict = "invalid" /\ pc \in {"finalize", "fallback"}
    <2> Refused(verdict)
      BY <1>1, <1>9
    <2>1. /\ pc = "finalize" => pc' = "fallback" /\ pc' \notin Last /\ stage' = "queued"
          /\ pc = "fallback" => pc' = "analysis" /\ IsTerminal(row)
      <3>1. CASE pc = "finalize"
        BY <1>9, <3>1 DEF Refused, Goto, Last
      <3>2. CASE pc = "fallback"
        BY <1>3, <1>4, <1>9, <3>2 DEF Refused, Goto
      <3> QED
        BY <1>9, <3>1, <3>2
    <2>2. IsTerminal(row)' <=> IsTerminal(row)
      BY <1>1 DEF IsTerminal
    <2>3. RowInv'
      BY <1>1, <1>9, <2>1, <2>2 DEF RowInv
    <2>4. CASE pc = "finalize"
      BY <1>1, <2>1, <2>3, <2>4, QuietStepKeepsOutcome
    <2>5. CASE pc = "fallback"
      BY <1>1, <1>e, <2>1, <2>3, <2>5 DEF OutcomeInv
    <2> QED
      BY <1>9, <2>4, <2>5
  <1>10. CASE verdict = "invalid" /\ pc \in {"deny", "answered", "in_progress"}
    <2>1. ToTeardown
      BY <1>1, <1>10 DEF Refused
    <2>2. pc' \notin Last /\ pc \in BodyPcs /\ stage' = "queued"
      BY <1>10, <2>1, TeardownFacts DEF Last, BodyPcs
    <2>3. RowInv'
      BY <1>1, <2>2, QuietStepKeepsRow DEF RowInv
    <2>4. CASE pc = "deny"
      <3>1. IsTerminal(row) /\ (IsTerminal(row)' <=> IsTerminal(row))
        BY <1>1, <1>3, <1>4, <1>10, <2>4 DEF IsTerminal
      <3>2. cut = {} /\ process = "running" => Excused
        BY <1>1, <3>1 DEF OutcomeInv
      <3> QED
        BY <1>1, <1>e, <2>2, <2>3, <3>1, <3>2 DEF OutcomeInv, Overwritten
    <2>5. CASE pc \in {"answered", "in_progress"}
      <3>1. ~ denied
        BY <2>5 DEF CauseInv, Last
      <3> QED
        BY <1>1, <2>2, <2>3, <3>1, QuietStepKeepsOutcome
    <2> QED
      BY <1>10, <2>4, <2>5
  <1> QED
    BY <1>1, <1>4, <1>6, <1>7, <1>8, <1>9, <1>10 DEF RowPcs

LEMMA CommitRowKeepsRow ==
  ASSUME TaskInv, CommitRow
  PROVE  RowInv' /\ OutcomeInv'
  <1> USE DEF TaskInv
  <1>1. /\ UNCHANGED <<process, orphans, cut, denied, lost, reason>>
        /\ pc \in RowPcs /\ stage = "read"
        /\ row' = Written(row, Awaited.to, Awaited.why)
        /\ Accepted
    BY DEF CommitRow, history
  <1>2. /\ Awaited.to \in VALID_STATUSES /\ Awaited.why \in EndReasons
        /\ Awaited.to = IF pc = "deny" THEN "failed"
                        ELSE IF pc = "finalize" THEN FinalStatus[reason]
                        ELSE IF pc = "fallback" THEN "interrupted" ELSE pc
        /\ Awaited.why = IF pc = "deny" THEN "authorization_denied"
                         ELSE IF pc \in {"finalize", "fallback"} THEN FinalReason[reason]
                         ELSE "none"
    BY <1>1, AwaitedFacts, TaskAssumption DEF RowWrites
  <1>3. /\ row'.status = Awaited.to /\ row'.owner = row.owner
        /\ row'.endReason = IF Awaited.to \in TERMINAL_STATUSES /\ Awaited.why # "none"
                            THEN Awaited.why ELSE row.endReason
    BY <1>1, <1>2, WrittenFacts DEF TypeOK
  <1> row'.status # "absent"
    BY <1>2, <1>3 DEF VALID_STATUSES
  <1>4. CASE pc \in {"answered", "in_progress"}
    <2>1. pc' \notin Last /\ ~ denied
      BY <1>1, <1>4 DEF Accepted, Goto, CauseInv, Last
    <2>2. ~ IsTerminal(row)'
      BY <1>2, <1>3, <1>4 DEF IsTerminal, TERMINAL_STATUSES
    <2> QED
      BY <1>1, <1>3, <2>1, <2>2 DEF RowInv, OutcomeInv
  <1>5. CASE pc \in {"deny", "finalize", "fallback"}
    <2>1. pc' = "analysis" /\ pc' \in Last
      BY <1>1, <1>5 DEF Accepted, Goto, Last
    <2>2. FinalStatus[reason] \in TERMINAL_STATUSES /\ FinalReason[reason] # "none"
      BY DEF TypeOK, Reasons, FinalStatus, FinalReason, TERMINAL_STATUSES
    <2>3. IsTerminal(row)' /\ row'.endReason = Awaited.why
      BY <1>2, <1>3, <1>5, <2>2 DEF IsTerminal, TERMINAL_STATUSES
    <2>4. ASSUME cut = {}, process = "running"
          PROVE  row'.endReason = Cause'
      <3>1. CASE pc = "deny"
        <4>1. denied' /\ row'.endReason = "authorization_denied"
          BY <1>1, <1>2, <2>3, <3>1 DEF CauseInv
        <4> QED
          BY <4>1 DEF Cause
      <3>2. CASE pc \in {"finalize", "fallback"}
        <4>1. ~ denied
          BY <1>1, <2>4, <3>2 DEF OutcomeInv
        <4>2. FinalReason[reason] = IF lost THEN "media_disconnect" ELSE "completed"
          BY <2>4 DEF CauseInv, FinalReason
        <4> QED
          BY <1>1, <1>2, <2>3, <3>2, <4>1, <4>2 DEF Cause
      <3> QED
        BY <1>5, <3>1, <3>2
    <2> QED
      BY <1>1, <1>3, <2>1, <2>3, <2>4 DEF RowInv, OutcomeInv
  <1> QED
    BY <1>1, <1>4, <1>5 DEF RowPcs

\* Writes the task does not await: a cancelled one has left cut behind, and another
\* process leaves its own reason.
LEMMA OutsideWritesKeepRow ==
  ASSUME TaskInv, OrphanStep \/ OutsiderCommits
  PROVE  RowInv' /\ OutcomeInv'
  <1> USE DEF TaskInv, resources, history
  <1>1. CASE OrphanStep
    <2>1. PICK write \in orphans : OrphanReads(write) \/ OrphanCommits(write)
      BY <1>1 DEF OrphanStep
    <2>2. cut # {} /\ UNCHANGED <<cut, process>>
      BY <2>1 DEF RowInv, OrphanReads, OrphanCommits
    <2>3. write.to \in VALID_STATUSES /\ write.why \in EndReasons
      BY <2>1 DEF TypeOK, RowWrites
    <2>4. row'.owner = Self /\ row'.status # "absent"
      <3>1. CASE row' = row
        BY <3>1 DEF RowInv
      <3>2. CASE row' = Written(row, write.to, write.why)
        <4>1. row'.owner = row.owner /\ row'.status = write.to
          BY <2>3, <3>2, WrittenFacts DEF TypeOK
        <4> QED
          BY <2>3, <4>1 DEF RowInv, VALID_STATUSES
      <3> QED
        BY <2>1, <3>1, <3>2 DEF OrphanReads, OrphanCommits
    <2> QED
      BY <2>2, <2>4 DEF RowInv, OutcomeInv
  <1>2. CASE OutsiderCommits
    <2>1. PICK why \in OutsideReasons :
            row' = Written(row, IF why = "runtime_crashed" THEN "interrupted" ELSE "failed",
                           why)
      BY <1>2 DEF OutsiderCommits, WrittenOutside
    <2>2. /\ row'.owner = row.owner /\ row'.endReason = why
          /\ row'.status \in {"interrupted", "failed"}
      BY <2>1, WrittenFacts
         DEF OutsideReasons, EndReasons, VALID_STATUSES, TERMINAL_STATUSES, TypeOK
    <2>3. Overwritten'
      BY <1>2, <2>1, <2>2 DEF OutsiderCommits, Excused, Overwritten, IsTerminal, TERMINAL_STATUSES
    <2>4. UNCHANGED <<pc, stage, orphans, process, lost, denied, cut>>
      BY <1>2 DEF OutsiderCommits
    <2> QED
      BY <2>2, <2>3, <2>4 DEF RowInv, OutcomeInv, Overwritten, Excused
  <1> QED
    BY <1>1, <1>2

LEMMA TaskInvIsInductive ==
  ASSUME TaskInv, [Next]_vars
  PROVE  TaskInv'
  <1>1. TypeOK' /\ ResourcesInv' /\ CauseInv'
    BY TypeIsInductive, ResourcesAreKept, CauseIsKept DEF TaskInv
  <1>2. RowInv' /\ OutcomeInv'
    <2>1. CASE UNCHANGED vars
      <3>1. /\ IsTerminal(row)' <=> IsTerminal(row)
            /\ Overwritten' <=> Overwritten
            /\ Excused' <=> Excused
            /\ Cause' = Cause
        BY <2>1 DEF vars, IsTerminal, Overwritten, Excused, Cause
      <3> QED
        BY <2>1, <3>1 DEF vars, TaskInv, RowInv, OutcomeInv
    <2>2. CASE BodyStep \/ TalkStep \/ LastStep
      BY <2>2, BodyStepKeepsRow
    <2>3. CASE ProcessStep \/ DbFails
      BY <2>3, ProcessStepKeepsRow, DbFailsKeepsRow
    <2>4. CASE ReadRow \/ CommitRow \/ OrphanStep \/ OutsiderCommits
      BY <2>4, ReadRowKeepsRow, CommitRowKeepsRow, OutsideWritesKeepRow
    <2> QED
      BY <2>1, <2>2, <2>3, <2>4
         DEF Next, TaskStep, DbStep, BodyStep, TalkStep, LastStep, ProcessStep
  <1> QED
    BY <1>1, <1>2 DEF TaskInv

\* The inductive invariant of the task: what it holds, why it ended and what its row says
\* belong together at every await of run_call_task.
THEOREM TaskInvHolds == Spec => []TaskInv
  <1>1. Init => TaskInv
    BY TaskInvInit
  <1>2. TaskInv /\ [Next]_vars => TaskInv'
    BY TaskInvIsInductive
  <1> QED
    BY <1>1, <1>2, PTL DEF Spec

\* Type correctness.
THEOREM TaskTypeCorrect == Spec => []TypeOK
  <1>1. TaskInv => TypeOK
    BY DEF TaskInv
  <1> QED
    BY <1>1, TaskInvHolds, PTL

\* FinalizedUnlessCutShort: run_call_task's finally block finalizes the row whatever happens
\* in its body, and nobody but a write that outlived its awaiter takes that back.
THEOREM FinalizedUnlessCutShortHolds == Spec => []FinalizedUnlessCutShort
  <1>1. TaskInv => FinalizedUnlessCutShort
    BY DEF TaskInv, RowInv, Last, FinalizedUnlessCutShort, Ended
  <1> QED
    BY <1>1, TaskInvHolds, PTL

\* Released: each step of the finally block lets go of one thing and comes to the next one,
\* and only a cancellation past the first of them skips the rest.
THEOREM ReleasedHolds == Spec => []Released
  <1>1. TaskInv => Released
    BY DEF TaskInv, ResourcesInv, Serving, CutOff, Released
  <1> QED
    BY <1>1, TaskInvHolds, PTL

\* OutcomeMatchesCause: the CancellationSignal's reason at the finalization is the one the
\* pumps ended with, and a recorded denial is not overwritten.
THEOREM OutcomeMatchesCauseHolds == Spec => []OutcomeMatchesCause
  <1>1. TaskInv => OutcomeMatchesCause
    BY DEF TaskInv, OutcomeInv, Excused, Last, Cause, OutcomeMatchesCause, Ended
  <1> QED
    BY <1>1, TaskInvHolds, PTL

-----------------------------------------------------------------------------
(* The contract with the rest of the fleet                                  *)

\* A write left behind is one of those the fleet reckons with, or it will come to nothing:
\* it has not read the row yet, and will find that it has the status or is past it.
LateProgress == \E o \in orphans : o.to = "in_progress"
AsSeen(o) == \E w \in TaskWrites : o = AsWrite(w, o.read)
InVain(o) ==
  /\ ~ o.read
  /\ \/ o.to = "answered"
     \/ /\ o.to = "interrupted" /\ o.why # "runtime_shutdown"
        /\ IsTerminal(row) /\ pc = "ended" /\ ~ LateProgress

StepInv ==
  /\ pc = "deny" => "deny" \in Faults
  /\ pc = "answered" => stage # "read"
  /\ reason = "runtime_shutdown" => process # "running"
  /\ pc \in BodyPcs \cup {"talking", "unwinding"} => orphans = {}

OrphanInv ==
  /\ LateProgress => reason = "runtime_shutdown" \/ (process = "exiting" /\ stage = "queued")
  /\ pc = "fallback" /\ reason # "runtime_shutdown" =>
       IsTerminal(row) /\ stage # "read" /\ ~ LateProgress
  /\ \A o \in orphans : AsSeen(o) \/ InVain(o)

ContractInv == row.status \notin {"initiated", "ringing"} /\ StepInv /\ OrphanInv

LEMMA ContractInit ==
  ASSUME Init
  PROVE  ContractInv
  <1>1. row.status \notin {"initiated", "ringing"}
    BY TaskAssumption, HandedOverFacts DEF Init
  <1>2. StepInv
    BY DEF Init, StepInv
  <1>3. OrphanInv
    BY DEF Init, OrphanInv, LateProgress
  <1> QED
    BY <1>1, <1>2, <1>3 DEF ContractInv

\* The five writes differ in what they say of the end of the call.
LEMMA WriteFacts ==
  ASSUME NEW w \in TaskWrites, NEW read
  PROVE  /\ AsWrite(w, read).to = WriteStatus[w] /\ AsWrite(w, read).why = WriteReason[w]
         /\ AsWrite(w, read).expected = IF w \in OwnerWrites THEN Self ELSE NoOwner
         /\ AsWrite(w, read).read = read
         /\ WriteStatus[w] \in VALID_STATUSES \ {"initiated", "ringing", "answered"}
         /\ WriteReason[w] \in EndReasons
         /\ w = "progress" => WriteStatus[w] = "in_progress"
         /\ w # "progress" => WriteStatus[w] \in TERMINAL_STATUSES /\ WriteReason[w] # "none"
         /\ WriteStatus[w] = "interrupted" => WriteReason[w] = "runtime_shutdown"
  BY DEF AsWrite, TaskWrites, OwnerWrites, FinalWrites, WriteStatus, WriteReason,
         VALID_STATUSES, TERMINAL_STATUSES, EndReasons

LEMMA WriteIsRead ==
  ASSUME NEW w \in TaskWrites, NEW read \in BOOLEAN, NEW write \in RowWrites,
         write = AsWrite(w, read)
  PROVE  [write EXCEPT !.read = TRUE] = AsWrite(w, TRUE)
  <1> DEFINE done == [write EXCEPT !.read = TRUE]
             seen == AsWrite(w, TRUE)
  <1>1. /\ done \in RowWrites /\ done.to = write.to /\ done.why = write.why
        /\ done.expected = write.expected /\ done.read = TRUE
    BY DEF RowWrites
  <1>2. /\ seen.to = write.to /\ seen.why = write.why
        /\ seen.expected = write.expected /\ seen.read = TRUE
    <2>1. /\ seen.to = WriteStatus[w] /\ seen.why = WriteReason[w]
          /\ seen.expected = IF w \in OwnerWrites THEN Self ELSE NoOwner
          /\ seen.read = TRUE
      BY DEF AsWrite
    <2>2. /\ write.to = WriteStatus[w] /\ write.why = WriteReason[w]
          /\ write.expected = IF w \in OwnerWrites THEN Self ELSE NoOwner
      BY WriteFacts
    <2> QED
      BY <2>1, <2>2
  <1>3. seen \in RowWrites
    <2>1. /\ WriteStatus[w] \in VALID_STATUSES /\ WriteReason[w] \in EndReasons
          /\ (IF w \in OwnerWrites THEN Self ELSE NoOwner) \in {Self, NoOwner}
      BY WriteFacts
    <2> QED
      BY <2>1 DEF AsWrite, RowWrites
  <1>4. \A a, b \in RowWrites :
          a.to = b.to /\ a.why = b.why /\ a.expected = b.expected /\ a.read = b.read => a = b
    BY DEF RowWrites
  <1> HIDE DEF done, seen
  <1>5. done = seen
    BY <1>1, <1>2, <1>3, <1>4
  <1> QED
    BY <1>5 DEF done, seen

LEMMA WritesDiffer ==
  ASSUME NEW w \in TaskWrites, NEW v \in TaskWrites, NEW a, NEW b,
         AsWrite(w, a) = AsWrite(v, b)
  PROVE  w = v /\ a = b
  <1>1. WriteReason[w] = WriteReason[v] /\ a = b
    BY WriteFacts
  <1>2. WriteReason[w] = WriteReason[v] => w = v
    BY DEF TaskWrites, OwnerWrites, FinalWrites, WriteReason
  <1> QED
    BY <1>1, <1>2

\* What the task awaits is one of them, but for an answer, and for a fallback that tells
\* of no shutdown.
LEMMA AwaitedIsSeen ==
  ASSUME TypeOK, pc \in RowPcs \ {"answered"}, pc = "fallback" => reason = "runtime_shutdown"
  PROVE  /\ AwaitedWrite \in TaskWrites
         /\ Awaited = AsWrite(AwaitedWrite, stage = "read")
         /\ pc \in {"deny", "in_progress"} <=> AwaitedWrite \in OwnerWrites
         /\ AwaitedWrite = "interrupting" => reason = "runtime_shutdown"
         /\ AwaitedWrite = "denying" <=> pc = "deny"
         /\ AwaitedWrite = "progress" <=> pc = "in_progress"
  <1>1. reason \in {"hangup", "runtime_shutdown", "media_disconnect"}
    BY DEF TypeOK, Reasons
  <1>2. CASE pc \in {"deny", "in_progress"}
    BY <1>2 DEF AwaitedWrite, Awaited, AsWrite, TaskWrites, OwnerWrites, FinalWrites,
                WriteStatus, WriteReason
  <1>3. CASE pc = "fallback"
    BY <1>3 DEF AwaitedWrite, Awaited, AsWrite, TaskWrites, OwnerWrites, FinalWrites,
                WriteStatus, WriteReason, FinalReason
  <1>4. CASE pc = "finalize"
    <2>1. FinalWrite[reason] \in FinalWrites
      BY <1>1 DEF FinalWrite, FinalWrites
    <2>2. /\ WriteStatus[FinalWrite[reason]] = FinalStatus[reason]
          /\ WriteReason[FinalWrite[reason]] = FinalReason[reason]
          /\ FinalWrite[reason] = "interrupting" => reason = "runtime_shutdown"
      BY <1>1 DEF FinalWrite, FinalStatus, FinalReason, WriteStatus, WriteReason
    <2>3. FinalWrite[reason] \in TaskWrites /\ FinalWrite[reason] \notin OwnerWrites
      BY <2>1 DEF TaskWrites, OwnerWrites, FinalWrites
    <2>4. FinalWrite[reason] \notin {"denying", "progress"}
      BY <2>3 DEF OwnerWrites
    <2> QED
      BY <1>4, <2>2, <2>3, <2>4 DEF AwaitedWrite, Awaited, AsWrite
  <1> QED
    BY <1>2, <1>3, <1>4 DEF RowPcs

\* Before the finalization nothing is left behind, and the writes that come to nothing are
\* those of a task that has been left.
LEMMA EmptyKeepsOrphans ==
  ASSUME orphans' = {}, pc' # "fallback"
  PROVE  OrphanInv'
  BY DEF OrphanInv, LateProgress

LEMMA QuietStepKeepsOrphans ==
  ASSUME OrphanInv, UNCHANGED <<row, orphans>>,
         reason' \in {reason, "runtime_shutdown"},
         LateProgress /\ process = "exiting" /\ stage = "queued"
           => process' = "exiting" /\ stage' = "queued",
         pc' = "fallback" => pc = "fallback" /\ stage' \in {stage, "queued", "running"},
         pc = "ended" => pc' = "ended"
  PROVE  OrphanInv'
  <1>1. (LateProgress' <=> LateProgress) /\ (IsTerminal(row)' <=> IsTerminal(row))
    BY DEF LateProgress, IsTerminal
  <1>2. \A o \in orphans : AsSeen(o)' <=> AsSeen(o)
    BY DEF AsSeen
  <1>3. \A o \in orphans : InVain(o) => InVain(o)'
    BY <1>1 DEF InVain
  <1> QED
    BY <1>1, <1>2, <1>3 DEF OrphanInv

LEMMA BodyStepKeepsContract ==
  ASSUME TaskInv, ContractInv, BodyStep \/ TalkStep \/ LastStep
  PROVE  ContractInv'
  <1> USE DEF ContractInv, history, resources
  <1>1. /\ UNCHANGED <<row, process, orphans>> /\ row'.status \notin {"initiated", "ringing"}
    BY DEF BodyStep, DbStart, Load, Deny, Attach, AttachFails, StartEngine, StartEngineFails,
           TalkStep, HangupArrives, WatcherStops, PumpsEnd, Unwound, LastStep, Flush, Close,
           Detach, Analyse
  <1>2. CASE DbStart \/ HangupArrives
    <2>1. /\ UNCHANGED <<pc, reason>> /\ stage' \in {stage, "running"}
          /\ process = "exiting" => stage' = stage
      BY <1>2 DEF DbStart, HangupArrives
    <2>2. StepInv'
      BY <1>1, <2>1 DEF StepInv
    <2>3. OrphanInv'
      BY <1>1, <2>1, QuietStepKeepsOrphans
    <2> QED
      BY <1>1, <2>2, <2>3
  <1>3. CASE \/ Load \/ Deny \/ Attach \/ AttachFails \/ StartEngine \/ StartEngineFails
             \/ WatcherStops \/ PumpsEnd \/ Unwound
    <2>1. pc \in BodyPcs \cup {"talking", "unwinding"}
      BY <1>3 DEF Load, Deny, Attach, AttachFails, StartEngine, StartEngineFails, WatcherStops,
                  PumpsEnd, Unwound, BodyPcs
    <2>2. stage' = "queued" /\ pc' # "fallback"
      BY <1>3, TeardownFacts
         DEF Load, Deny, Attach, AttachFails, StartEngine, StartEngineFails, WatcherStops,
             PumpsEnd, Unwind, Unwound, Goto
    <2>3. pc' = "deny" => "deny" \in Faults
      BY <1>3, TeardownFacts
         DEF Load, Deny, Attach, AttachFails, StartEngine, StartEngineFails, WatcherStops,
             PumpsEnd, Unwind, Unwound, Goto
    <2>4. reason' \in {reason, "hangup", "media_disconnect"}
      BY <1>3 DEF Load, Deny, Attach, AttachFails, StartEngine, StartEngineFails,
                  WatcherStops, PumpsEnd, Unwound
    <2>5. orphans = {}
      BY <2>1 DEF StepInv
    <2>6. StepInv'
      BY <1>1, <2>2, <2>3, <2>4, <2>5 DEF StepInv
    <2> QED
      BY <1>1, <2>2, <2>5, <2>6, EmptyKeepsOrphans
  <1>4. CASE LastStep
    <2>1. /\ stage' = "queued" /\ UNCHANGED reason
          /\ pc' \in {"close", "detach", "finalize", "ended"}
      BY <1>4, CloseFacts DEF LastStep, Flush, Close, Detach, Analyse, ToDetach, Goto
    <2>2. pc # "ended"
      BY <1>4 DEF LastStep, Flush, Close, Detach, Analyse
    <2>3. StepInv'
      BY <1>1, <2>1 DEF StepInv, BodyPcs
    <2> QED
      BY <1>1, <2>1, <2>2, <2>3, QuietStepKeepsOrphans
  <1> QED
    BY <1>2, <1>3, <1>4 DEF BodyStep, TalkStep

\* The write a cancellation leaves behind, if it leaves one.
LEMMA OrphanedFacts ==
  ASSUME TaskInv, ContractInv, NEW o \in Orphaned, o \notin orphans
  PROVE  /\ o = Awaited /\ pc \in RowPcs /\ stage # "queued"
         /\ o.to = "in_progress" => pc = "in_progress"
         /\ \/ AsSeen(o)
            \/ ~ o.read /\ o.to = "answered"
            \/ /\ pc = "fallback" /\ ~ o.read /\ o.to = "interrupted"
               /\ o.why # "runtime_shutdown" /\ IsTerminal(row) /\ ~ LateProgress
  <1> USE DEF TaskInv, ContractInv
  <1>1. o = Awaited /\ pc \in RowPcs /\ stage # "queued"
    BY DEF Orphaned
  <1>2. /\ o.to = IF pc = "deny" THEN "failed"
                  ELSE IF pc = "finalize" THEN FinalStatus[reason]
                  ELSE IF pc = "fallback" THEN "interrupted" ELSE pc
        /\ o.why = IF pc = "deny" THEN "authorization_denied"
                   ELSE IF pc \in {"finalize", "fallback"} THEN FinalReason[reason]
                   ELSE "none"
    BY <1>1, AwaitedFacts, TaskAssumption
  <1>3. o.read = (stage = "read")
    BY <1>1 DEF Awaited
  <1>4. FinalStatus[reason] # "in_progress"
    BY DEF TypeOK, Reasons, FinalStatus
  <1>5. o.to = "in_progress" => pc = "in_progress"
    BY <1>1, <1>2, <1>4 DEF RowPcs
  <1>6. CASE pc = "answered"
    BY <1>1, <1>2, <1>3, <1>5, <1>6 DEF StepInv
  <1>7. CASE pc = "fallback" /\ reason # "runtime_shutdown"
    <2>1. FinalReason[reason] # "runtime_shutdown"
      BY <1>7 DEF TypeOK, Reasons, FinalReason
    <2>2. IsTerminal(row) /\ stage # "read" /\ ~ LateProgress
      BY <1>7 DEF OrphanInv
    <2> QED
      BY <1>1, <1>2, <1>3, <1>5, <1>7, <2>1, <2>2
  <1>8. CASE pc # "answered" /\ ~ (pc = "fallback" /\ reason # "runtime_shutdown")
    <2>1. AwaitedWrite \in TaskWrites /\ o = AsWrite(AwaitedWrite, stage = "read")
      BY <1>1, <1>8, AwaitedIsSeen
    <2>2. AsSeen(o)
      BY <1>3, <2>1 DEF AsSeen
    <2> QED
      BY <1>1, <1>5, <2>2
  <1> QED
    BY <1>6, <1>7, <1>8

LEMMA ProcessStepKeepsContract ==
  ASSUME TaskInv, ContractInv, ProcessStep
  PROVE  ContractInv'
  <1> USE DEF TaskInv, ContractInv, resources
  <1>1. /\ process' # "running" /\ UNCHANGED row
        /\ row'.status \notin {"initiated", "ringing"}
        /\ reason' \in {reason, "runtime_shutdown"}
        /\ process # "exiting"
    BY DEF ProcessStep, Shutdown, CloseDatabase, ExitProcess
  <1>2. Cancel \/ Undisturbed
    BY DEF ProcessStep, Shutdown, CloseDatabase, ExitProcess
  <1>3. CASE CancelsPumps
    <2>1. pc \in {"talking", "unwinding"} /\ pc' = "unwinding" /\ UNCHANGED orphans
      BY <1>3 DEF CancelsPumps, Unwind, Goto
    <2>2. orphans = {}
      BY <2>1 DEF StepInv
    <2>3. StepInv'
      BY <1>1, <2>1, <2>2 DEF StepInv
    <2> QED
      BY <1>1, <2>1, <2>2, <2>3, EmptyKeepsOrphans
  <1>4. CASE CancelsFlush
    <2>1. pc' \in {"close", "detach", "finalize"} /\ pc = "flush" /\ UNCHANGED orphans
      BY <1>4, CloseFacts DEF CancelsFlush
    <2>2. StepInv'
      BY <1>1, <2>1 DEF StepInv, BodyPcs
    <2> QED
      BY <1>1, <2>1, <2>2, QuietStepKeepsOrphans
  <1>5. CASE Undisturbed
    <2>1. UNCHANGED <<pc, stage, orphans>>
      BY <1>5 DEF Undisturbed
    <2>2. StepInv'
      BY <1>1, <2>1 DEF StepInv
    <2> QED
      BY <1>1, <2>1, <2>2, QuietStepKeepsOrphans
  <1>6. CASE CancelsBody
    <2>1. /\ pc' \in {"flush", "close", "detach", "finalize"} /\ stage' = "queued"
          /\ pc \in BodyPcs /\ orphans' = Orphaned
      BY <1>6, TeardownFacts DEF CancelsBody
    <2>2. orphans = {}
      BY <2>1 DEF StepInv
    <2>3. StepInv'
      BY <1>1, <2>1 DEF StepInv, BodyPcs
    <2>4. \A o \in orphans' : AsSeen(o) \/ (~ o.read /\ o.to = "answered")
      BY <2>1, <2>2, OrphanedFacts DEF BodyPcs
    <2>5. \A o \in orphans' : AsSeen(o)' \/ InVain(o)'
      <3>1. \A o \in orphans' : AsSeen(o)' <=> AsSeen(o)
        BY DEF AsSeen
      <3> QED
        BY <2>4, <3>1 DEF InVain
    <2>6. orphans' # {} => stage # "queued"
      BY <2>1, <2>2, OrphanedFacts
    <2>7. stage # "queued" => reason' = "runtime_shutdown" \/ process' = "exiting"
      BY <2>1 DEF ProcessStep, Shutdown, CloseDatabase, ExitProcess, Undisturbed, BodyPcs
    <2>8. OrphanInv'
      BY <2>1, <2>5, <2>6, <2>7 DEF OrphanInv, LateProgress
    <2> QED
      BY <1>1, <2>3, <2>8
  <1>7. CASE CancelsTeardown
    <2>1. /\ pc' = "ended" /\ stage' = "queued"
          /\ pc \in TeardownPcs /\ orphans' = Orphaned
      BY <1>7 DEF CancelsTeardown, Goto
    <2>2. StepInv'
      BY <1>1, <2>1 DEF StepInv, BodyPcs
    <2>3. IsTerminal(row)' <=> IsTerminal(row)
      BY <1>1 DEF IsTerminal
    <2>4. LateProgress' => LateProgress
      BY <2>1, OrphanedFacts DEF LateProgress, TeardownPcs
    <2>5. ASSUME NEW o \in orphans'
          PROVE  AsSeen(o)' \/ InVain(o)'
      <3>1. AsSeen(o)' <=> AsSeen(o)
        BY DEF AsSeen
      <3>2. CASE o \in orphans
        <4>1. AsSeen(o) \/ (~ o.read /\ o.to = "answered")
          BY <2>1, <3>2 DEF OrphanInv, InVain, TeardownPcs
        <4> QED
          BY <3>1, <4>1 DEF InVain
      <3>3. CASE o \notin orphans
        BY <2>1, <2>3, <2>4, <3>1, <3>3, OrphanedFacts DEF InVain
      <3> QED
        BY <3>2, <3>3
    <2>6. LateProgress' => reason' = "runtime_shutdown"
      BY <1>1, <2>4 DEF OrphanInv
    <2> QED
      BY <1>1, <2>1, <2>2, <2>5, <2>6 DEF OrphanInv
  <1> QED
    BY <1>2, <1>3, <1>4, <1>5, <1>6, <1>7 DEF Cancel

\* No write moves the row back to where the call is not answered yet.
LEMMA ReadRowKeepsContract ==
  ASSUME TaskInv, ContractInv, ReadRow
  PROVE  ContractInv'
  <1> USE DEF TaskInv, ContractInv
  <1> DEFINE verdict == VerdictOf(Awaited)
  <1>1. /\ UNCHANGED <<row, process, orphans, reason>>
        /\ row'.status \notin {"initiated", "ringing"}
        /\ pc \in RowPcs /\ stage = "running"
        /\ CASE verdict = "write" -> stage' = "read" /\ UNCHANGED <<pc, media>>
             [] verdict = "same"  -> Accepted
             [] OTHER             -> Refused(verdict)
    BY DEF ReadRow
  <1>2. /\ Awaited.to = IF pc = "deny" THEN "failed"
                        ELSE IF pc = "finalize" THEN FinalStatus[reason]
                        ELSE IF pc = "fallback" THEN "interrupted" ELSE pc
        /\ Awaited.expected = IF pc \in {"finalize", "fallback"} THEN NoOwner ELSE Self
        /\ Awaited.to \in VALID_STATUSES
    BY <1>1, AwaitedFacts, TaskAssumption DEF RowWrites
  <1>3. /\ verdict \in {"mismatch", "invalid", "same", "write"}
        /\ verdict = "write" => ~ IsTerminal(row) /\ Awaited.to # "answered"
        /\ verdict = "invalid" /\ Awaited.to \in TERMINAL_STATUSES => IsTerminal(row)
    <2>1. row.status \in VALID_STATUSES \ {"initiated", "ringing"}
      BY DEF TypeOK, RowInv, CallSession
    <2>2. verdict = Verdict(row, Awaited.to, Awaited.expected)
      BY DEF VerdictOf
    <2> HIDE DEF verdict
    <2> QED
      BY <1>2, <2>1, <2>2
         DEF Verdict, IsValidTransition, Transitions, IsTerminal, VALID_STATUSES,
             TERMINAL_STATUSES
  <1> HIDE DEF verdict
  <1>4. IsTerminal(row)' <=> IsTerminal(row)
    BY <1>1 DEF IsTerminal
  <1>5. CASE verdict = "write"
    <2>1. pc' = pc /\ stage' = "read" /\ pc # "answered"
      BY <1>1, <1>2, <1>3, <1>5
    <2>2. ~ (pc = "fallback" /\ reason # "runtime_shutdown")
      BY <1>3, <1>5 DEF OrphanInv
    <2>3. StepInv'
      BY <1>1, <2>1 DEF StepInv
    <2>4. /\ LateProgress' <=> LateProgress
          /\ \A o \in orphans : (AsSeen(o)' <=> AsSeen(o)) /\ (InVain(o)' <=> InVain(o))
      BY <1>1, <1>4, <2>1 DEF LateProgress, AsSeen, InVain
    <2>5. OrphanInv'
      BY <1>1, <2>1, <2>2, <2>4 DEF OrphanInv
    <2> QED
      BY <1>1, <2>3, <2>5
  <1>6. CASE verdict # "write" /\ pc \in {"deny", "answered", "in_progress"}
    <2>1. Accepted \/ ToTeardown
      BY <1>1, <1>6 DEF Refused
    <2>2. stage' = "queued" /\ pc' \notin {"fallback", "deny"}
      BY <1>6, <2>1, TeardownFacts DEF Accepted, Goto
    <2>3. orphans = {}
      BY <1>6 DEF StepInv, BodyPcs
    <2>4. StepInv'
      BY <1>1, <2>2, <2>3 DEF StepInv
    <2> QED
      BY <1>1, <2>2, <2>3, <2>4, EmptyKeepsOrphans
  <1>7. CASE pc = "finalize" /\ verdict = "invalid"
    <2>1. pc' = "fallback" /\ stage' = "queued"
      BY <1>1, <1>7 DEF Refused, Goto
    <2>2. Awaited.to \in TERMINAL_STATUSES
      BY <1>2, <1>7 DEF TypeOK, Reasons, FinalStatus, TERMINAL_STATUSES
    <2>3. IsTerminal(row) /\ (LateProgress => reason = "runtime_shutdown")
      BY <1>1, <1>3, <1>7, <2>2 DEF OrphanInv
    <2>4. /\ LateProgress' <=> LateProgress
          /\ \A o \in orphans : AsSeen(o)' <=> AsSeen(o)
          /\ \A o \in orphans : InVain(o) => InVain(o)'
      BY <1>1, <1>4, <1>7 DEF LateProgress, AsSeen, InVain
    <2>5. OrphanInv'
      BY <1>1, <1>4, <2>1, <2>3, <2>4 DEF OrphanInv
    <2>6. StepInv'
      BY <1>1, <2>1 DEF StepInv, BodyPcs
    <2> QED
      BY <1>1, <2>5, <2>6
  <1>8. CASE \/ pc = "finalize" /\ verdict \in {"same", "mismatch"}
             \/ pc = "fallback" /\ verdict # "write"
    <2>1. pc' = "analysis" /\ stage' = "queued" /\ pc # "ended"
      BY <1>1, <1>8 DEF Accepted, Refused, Goto
    <2>2. StepInv'
      BY <1>1, <2>1 DEF StepInv, BodyPcs
    <2> QED
      BY <1>1, <2>1, <2>2, QuietStepKeepsOrphans
  <1> QED
    BY <1>1, <1>3, <1>5, <1>6, <1>7, <1>8 DEF RowPcs

LEMMA DbFailsKeepsContract ==
  ASSUME TaskInv, ContractInv, DbFails
  PROVE  ContractInv'
  <1> USE DEF ContractInv
  <1>1. /\ UNCHANGED <<row, process, orphans, reason>> /\ pc \in DbPcs
        /\ row'.status \notin {"initiated", "ringing"}
    BY DEF DbFails
  <1>2. stage' = "queued" /\ pc' \in TeardownPcs \cup {"ended"} /\ pc' # "fallback"
    BY TeardownFacts DEF DbFails, Refused, Goto, TeardownPcs
  <1>3. StepInv'
    BY <1>1, <1>2 DEF StepInv, BodyPcs, TeardownPcs
  <1> QED
    BY <1>1, <1>2, <1>3, QuietStepKeepsOrphans DEF DbPcs

\* A write that comes to nothing stays one while others write terminal statuses.
LEMMA WriteKeepsOrphans ==
  ASSUME OrphanInv, orphans' \subseteq orphans, UNCHANGED <<process, reason>>,
         \/ pc' = pc /\ stage' = stage
         \/ pc' \notin {"fallback", "ended"} /\ stage' = "queued",
         pc = "ended" => pc' = "ended",
         ~ LateProgress => IsTerminal(row)' \/ pc \notin {"fallback", "ended"}
  PROVE  OrphanInv'
  <1>1. LateProgress' => LateProgress
    BY DEF LateProgress
  <1>2. \A o \in orphans' : AsSeen(o)' <=> AsSeen(o)
    BY DEF AsSeen
  <1>3. \A o \in orphans' : InVain(o) => InVain(o)'
    BY <1>1 DEF InVain
  <1> QED
    BY <1>1, <1>2, <1>3 DEF OrphanInv

\* Why nothing comes of it.
LEMMA VainIsRefused ==
  ASSUME TaskInv, ContractInv, NEW write \in orphans, InVain(write)
  PROVE  VerdictOf(write) # "write"
  <1>1. row.status \in VALID_STATUSES \ {"initiated", "ringing"}
    BY DEF TaskInv, TypeOK, RowInv, CallSession, ContractInv
  <1>2. CASE write.to = "answered"
    BY <1>1, <1>2 DEF VerdictOf, Verdict, IsValidTransition, Transitions, VALID_STATUSES
  <1>3. CASE write.to = "interrupted" /\ IsTerminal(row)
    BY <1>1, <1>3 DEF VerdictOf, Verdict, IsValidTransition, Transitions, IsTerminal,
                      TERMINAL_STATUSES, VALID_STATUSES
  <1> QED
    BY <1>2, <1>3 DEF InVain

LEMMA WritesKeepContract ==
  ASSUME TaskInv, ContractInv, CommitRow \/ OrphanStep \/ OutsiderCommits
  PROVE  ContractInv'
  <1> USE DEF TaskInv, ContractInv
  <1>1. CASE CommitRow
    <2>1. /\ UNCHANGED <<process, orphans, reason>> /\ Accepted
          /\ pc \in RowPcs /\ stage = "read" /\ pc # "answered"
          /\ row' = Written(row, Awaited.to, Awaited.why)
      BY <1>1 DEF CommitRow, StepInv
    <2>2. /\ Awaited.to \in VALID_STATUSES /\ Awaited.why \in EndReasons
          /\ Awaited.to = IF pc = "deny" THEN "failed"
                          ELSE IF pc = "finalize" THEN FinalStatus[reason]
                          ELSE IF pc = "fallback" THEN "interrupted" ELSE pc
      BY <2>1, AwaitedFacts, TaskAssumption DEF RowWrites
    <2>3. row'.status = Awaited.to
      BY <2>1, <2>2, WrittenFacts DEF TypeOK
    <2>4. Awaited.to \notin {"initiated", "ringing"}
      BY <2>1, <2>2 DEF TypeOK, Reasons, FinalStatus, RowPcs
    <2>5. pc' \in {"talking", "analysis"} /\ stage' = "queued"
          /\ (pc' = "talking" => pc = "in_progress")
      BY <2>1 DEF Accepted, Goto, RowPcs
    <2>6. pc \in {"finalize", "fallback"} => IsTerminal(row)'
      BY <2>2, <2>3 DEF TypeOK, Reasons, FinalStatus, IsTerminal, TERMINAL_STATUSES
    <2>7. StepInv'
      BY <2>1, <2>5 DEF StepInv, BodyPcs
    <2>8. pc # "ended"
      BY <2>1 DEF RowPcs
    <2>9. OrphanInv'
      BY <2>1, <2>5, <2>6, <2>8, WriteKeepsOrphans
    <2> QED
      BY <2>3, <2>4, <2>7, <2>9
  <1>2. ASSUME NEW write \in orphans, OrphanReads(write)
        PROVE  ContractInv'
    <2>1. UNCHANGED <<row, pc, stage, reason, process>> /\ ~ write.read
      BY <1>2 DEF OrphanReads
    <2>2. StepInv'
      BY <2>1 DEF StepInv
    <2>3. CASE VerdictOf(write) # "write"
      <3>1. orphans' \subseteq orphans
        BY <1>2, <2>3 DEF OrphanReads
      <3>2. \A o \in orphans : InVain(o) /\ o.to = "interrupted" => IsTerminal(row)
        BY DEF InVain
      <3>3. LateProgress' => LateProgress
        BY <3>1 DEF LateProgress
      <3>4. IsTerminal(row)' <=> IsTerminal(row)
        BY <2>1 DEF IsTerminal
      <3>5. \A o \in orphans' : (AsSeen(o)' <=> AsSeen(o)) /\ (InVain(o) => InVain(o)')
        BY <2>1, <3>3, <3>4 DEF AsSeen, InVain
      <3>6. OrphanInv'
        BY <2>1, <3>1, <3>3, <3>4, <3>5 DEF OrphanInv
      <3> QED
        BY <2>1, <2>2, <3>6
    <2>4. CASE VerdictOf(write) = "write"
      <3> DEFINE done == [write EXCEPT !.read = TRUE]
      <3>1. orphans' = (orphans \ {write}) \cup {done}
        BY <1>2, <2>4 DEF OrphanReads
      <3>2. ~ InVain(write)
        BY <2>4, VainIsRefused
      <3>3. PICK w \in TaskWrites : write = AsWrite(w, write.read)
        BY <3>2 DEF OrphanInv, AsSeen
      <3>4. done = AsWrite(w, TRUE) /\ done.read = TRUE /\ done.to = write.to
        <4>1. write \in RowWrites
          BY DEF TypeOK
        <4>2. PICK read \in BOOLEAN : read = write.read
          BY <4>1 DEF RowWrites
        <4>3. write = AsWrite(w, read)
          BY <3>3, <4>2
        <4>4. [write EXCEPT !.read = TRUE] = AsWrite(w, TRUE)
          BY <4>1, <4>3, WriteIsRead
        <4>5. done = AsWrite(w, TRUE)
          BY <4>4
        <4>6. write.to = WriteStatus[w]
          BY <4>3, WriteFacts
        <4> HIDE DEF done
        <4> QED
          BY <4>5, <4>6, WriteFacts
      <3>5. AsSeen(done)
        BY <3>4 DEF AsSeen
      <3> HIDE DEF done
      <3>6. LateProgress' => LateProgress
        BY <3>1, <3>4 DEF LateProgress
      <3>7. IsTerminal(row)' <=> IsTerminal(row)
        BY <2>1 DEF IsTerminal
      <3>8. \A o \in orphans' : (AsSeen(o)' <=> AsSeen(o)) /\ (InVain(o) => InVain(o)')
        BY <2>1, <3>6, <3>7 DEF AsSeen, InVain
      <3>9. OrphanInv'
        BY <2>1, <3>1, <3>5, <3>6, <3>7, <3>8 DEF OrphanInv
      <3> QED
        BY <2>1, <2>2, <3>9
    <2> QED
      BY <2>3, <2>4
  <1>3. ASSUME NEW write \in orphans, OrphanCommits(write)
        PROVE  ContractInv'
    <2>1. /\ UNCHANGED <<pc, stage, reason, process>> /\ write.read
          /\ orphans' \subseteq orphans /\ row' = Written(row, write.to, write.why)
      BY <1>3 DEF OrphanCommits
    <2>2. PICK w \in TaskWrites : write = AsWrite(w, write.read)
      BY <2>1 DEF OrphanInv, AsSeen, InVain
    <2>3. /\ write.to = WriteStatus[w] /\ write.why = WriteReason[w]
          /\ WriteStatus[w] \in VALID_STATUSES \ {"initiated", "ringing", "answered"}
          /\ w # "progress" => WriteStatus[w] \in TERMINAL_STATUSES
          /\ w = "progress" => WriteStatus[w] = "in_progress"
          /\ WriteReason[w] \in EndReasons
      BY <2>2, WriteFacts
    <2>4. row'.status = WriteStatus[w]
      BY <2>1, <2>3, WrittenFacts DEF TypeOK
    <2>5. ~ LateProgress => IsTerminal(row)'
      BY <2>3, <2>4 DEF LateProgress, IsTerminal
    <2>6. StepInv'
      BY <2>1 DEF StepInv
    <2> QED
      BY <2>1, <2>3, <2>4, <2>5, <2>6, WriteKeepsOrphans
  <1>4. CASE OutsiderCommits
    <2>1. UNCHANGED <<pc, stage, reason, process, orphans>>
      BY <1>4 DEF OutsiderCommits
    <2>2. PICK why \in OutsideReasons :
            row' = Written(row, IF why = "runtime_crashed" THEN "interrupted" ELSE "failed",
                           why)
      BY <1>4 DEF OutsiderCommits, WrittenOutside
    <2>3. row'.status \in {"interrupted", "failed"}
      BY <2>2, WrittenFacts DEF OutsideReasons, EndReasons, VALID_STATUSES, TypeOK
    <2>4. IsTerminal(row)'
      BY <2>3 DEF IsTerminal, TERMINAL_STATUSES
    <2>5. StepInv'
      BY <2>1 DEF StepInv
    <2> QED
      BY <2>1, <2>3, <2>4, <2>5, WriteKeepsOrphans
  <1> QED
    BY <1>1, <1>2, <1>3, <1>4 DEF OrphanStep

LEMMA ContractIsKept ==
  ASSUME TaskInv, ContractInv, [Next]_vars
  PROVE  ContractInv'
  <1>1. CASE UNCHANGED vars
    <2>1. /\ LateProgress' <=> LateProgress
          /\ IsTerminal(row)' <=> IsTerminal(row)
      BY <1>1 DEF vars, LateProgress, IsTerminal
    <2>2. \A o \in orphans : (AsSeen(o)' <=> AsSeen(o)) /\ (InVain(o)' <=> InVain(o))
      BY <1>1, <2>1 DEF vars, AsSeen, InVain
    <2> QED
      BY <1>1, <2>1, <2>2 DEF vars, ContractInv, StepInv, OrphanInv
  <1>2. CASE BodyStep \/ TalkStep \/ LastStep
    BY <1>2, BodyStepKeepsContract
  <1>3. CASE ProcessStep \/ DbFails \/ ReadRow
    BY <1>3, ProcessStepKeepsContract, DbFailsKeepsContract, ReadRowKeepsContract
  <1>4. CASE CommitRow \/ OrphanStep \/ OutsiderCommits
    BY <1>4, WritesKeepContract
  <1> QED
    BY <1>1, <1>2, <1>3, <1>4
       DEF Next, TaskStep, DbStep, BodyStep, TalkStep, LastStep, ProcessStep

-----------------------------------------------------------------------------
(* Refinement.  To the fleet a step of the task is a step of HostedCall, or *)
(* it is invisible.                                                         *)

LEMMA SeenTaskFacts ==
  /\ pc \in {"analysis", "ended"} => SeenTask = "none"
  /\ pc \in {"talking", "unwinding"} => SeenTask = "talking"
  /\ Decided => SeenTask = AwaitedWrite
  /\ pc \in BodyPcs /\ ~ Decided => SeenTask = "starting"
  /\ pc \in TeardownPcs \ {"analysis"} /\ ~ Decided => SeenTask = "ending"
  BY DEF SeenTask, Decided, RowPcs, BodyPcs, TeardownPcs

LEMMA SeenTaskNext ==
  /\ pc' \in {"analysis", "ended"} => SeenTask' = "none"
  /\ pc' \in {"talking", "unwinding"} => SeenTask' = "talking"
  /\ Decided' => SeenTask' = AwaitedWrite'
  /\ pc' \in BodyPcs /\ ~ Decided' => SeenTask' = "starting"
  /\ pc' \in TeardownPcs \ {"analysis"} /\ ~ Decided' => SeenTask' = "ending"
  BY DEF SeenTask, Decided, RowPcs, BodyPcs, TeardownPcs

\* A write left behind is seen, and one that was completed is gone, unless it is none of
\* those the fleet knows.
LEMMA SeenLateNext ==
  ASSUME NEW w \in TaskWrites, NEW b \in BOOLEAN
  PROVE  /\ orphans' = orphans \cup {AsWrite(w, b)} => SeenLate' = SeenLate \cup {<<w, b>>}
         /\ orphans' = orphans \ {AsWrite(w, b)} => SeenLate' = SeenLate \ {<<w, b>>}
  <1>1. \A k \in TaskWrites \X BOOLEAN : AsWrite(k[1], k[2]) = AsWrite(w, b) <=> k = <<w, b>>
    BY WritesDiffer
  <1> QED
    BY <1>1 DEF SeenLate

LEMMA SeenLateMoves ==
  ASSUME NEW w \in TaskWrites, NEW a \in BOOLEAN, NEW b \in BOOLEAN,
         orphans' = (orphans \ {AsWrite(w, a)}) \cup {AsWrite(w, b)}
  PROVE  SeenLate' = (SeenLate \ {<<w, a>>}) \cup {<<w, b>>}
  <1>1. \A k \in TaskWrites \X BOOLEAN :
          /\ AsWrite(k[1], k[2]) = AsWrite(w, a) <=> k = <<w, a>>
          /\ AsWrite(k[1], k[2]) = AsWrite(w, b) <=> k = <<w, b>>
    BY WritesDiffer
  <1> QED
    BY <1>1 DEF SeenLate

LEMMA UnseenOrphan ==
  ASSUME NEW o, ~ \E k \in TaskWrites \X BOOLEAN : o = AsWrite(k[1], k[2])
  PROVE  orphans' \in {orphans \cup {o}, orphans \ {o}} => SeenLate' = SeenLate
  BY DEF SeenLate

LEMMA StutterIsUnseen ==
  ASSUME UNCHANGED <<row, orphans, process>>, SeenTask' = SeenTask
  PROVE  UNCHANGED Hosted!vars
  BY DEF Hosted!vars, SeenLate

LEMMA TeardownIsSeen ==
  ASSUME ToTeardown \/ ToClose
  PROVE  SeenTask' = "ending" /\ stage' = "queued"
  <1>1. pc' \in {"flush", "close", "detach", "finalize"} /\ stage' = "queued"
    BY TeardownFacts, CloseFacts
  <1> QED
    BY <1>1, SeenTaskNext DEF TeardownPcs, Decided

\* The body as the fleet sees it.
LEMMA BodyStepIsSeen ==
  ASSUME TaskInv, ContractInv, BodyStep \/ TalkStep \/ LastStep
  PROVE  [Hosted!Next]_(Hosted!vars)
  <1> USE DEF history, resources
  <1>1. UNCHANGED <<row, process, orphans>>
    BY DEF BodyStep, DbStart, Load, Deny, Attach, AttachFails, StartEngine, StartEngineFails,
           TalkStep, HangupArrives, WatcherStops, PumpsEnd, Unwound, LastStep, Flush, Close,
           Detach, Analyse
  <1>2. ASSUME SeenTask' = SeenTask PROVE [Hosted!Next]_(Hosted!vars)
    BY <1>1, <1>2, StutterIsUnseen
  <1>3. SeenLate' = SeenLate
    BY <1>1 DEF SeenLate
  <1>4. CASE DbStart \/ HangupArrives
    <2>1. UNCHANGED <<pc, reason>> /\ (stage = "read" <=> stage' = "read")
      BY <1>4 DEF DbStart, HangupArrives
    <2>2. SeenTask' = SeenTask
      BY <2>1 DEF SeenTask, Decided, AwaitedWrite
    <2> QED
      BY <1>2, <2>2
  <1>5. CASE Load \/ Deny \/ Attach \/ StartEngine
    <2>1. /\ pc \in {"load", "version", "authorize", "engine"}
          /\ pc' \in BodyPcs /\ stage' = "queued"
      BY <1>5 DEF Load, Deny, Attach, StartEngine, Goto, BodyPcs
    <2>2. SeenTask = "starting" /\ SeenTask' = "starting"
      BY <2>1, SeenTaskFacts, SeenTaskNext DEF Decided, RowPcs, BodyPcs
    <2> QED
      BY <1>2, <2>2
  <1>6. CASE WatcherStops \/ PumpsEnd
    <2>1. pc \in {"talking", "unwinding"} /\ pc' = "unwinding"
      BY <1>6 DEF WatcherStops, PumpsEnd, Unwind, Goto
    <2>2. SeenTask = "talking" /\ SeenTask' = "talking"
      BY <2>1, SeenTaskFacts, SeenTaskNext
    <2> QED
      BY <1>2, <2>2
  <1>7. CASE AttachFails \/ StartEngineFails \/ Unwound
    <2>1. pc \in {"authorize", "engine", "unwinding"} /\ ToTeardown
      BY <1>7 DEF AttachFails, StartEngineFails, Unwound
    <2>2. SeenTask \in {"starting", "talking"} /\ SeenTask' = "ending"
      BY <2>1, SeenTaskFacts, TeardownIsSeen DEF Decided, RowPcs, BodyPcs
    <2>3. Hosted!TearsDown
      BY <1>1, <1>3, <2>2 DEF Hosted!TearsDown
    <2> QED
      BY <2>3 DEF Hosted!Next, Hosted!TaskNext
  <1>8. CASE Flush \/ Close \/ Detach
    <2>1. pc \in {"flush", "close", "detach"} /\ stage' = "queued"
      BY <1>8, CloseFacts DEF Flush, Close, Detach, ToDetach, Goto
    <2>2. pc' \in {"close", "detach", "finalize"}
      BY <1>8, CloseFacts DEF Flush, Close, Detach, ToDetach, Goto
    <2>3. SeenTask = "ending" /\ SeenTask' = "ending"
      BY <2>1, <2>2, SeenTaskFacts, SeenTaskNext DEF Decided, RowPcs, TeardownPcs
    <2> QED
      BY <1>2, <2>3
  <1>9. CASE Analyse
    <2>1. pc = "analysis" /\ pc' = "ended"
      BY <1>9 DEF Analyse, Goto
    <2>2. SeenTask = "none" /\ SeenTask' = "none"
      BY <2>1, SeenTaskFacts, SeenTaskNext
    <2> QED
      BY <1>2, <2>2
  <1> QED
    BY <1>4, <1>5, <1>6, <1>7, <1>8, <1>9 DEF BodyStep, TalkStep, LastStep

\* The verdict of the task on a write is that of the fleet.
LEMMA VerdictIsSeen ==
  ASSUME NEW w \in TaskWrites, NEW b \in BOOLEAN
  PROVE  /\ VerdictOf(AsWrite(w, b)) = WriteVerdict(row, w, Self)
         /\ Written(row, AsWrite(w, b).to, AsWrite(w, b).why) = WrittenBy(row, w)
  BY WriteFacts DEF VerdictOf, WriteVerdict, WrittenBy

\* HostedCall speaks of rows as the task does.
LEMMA SameWrites ==
  /\ Hosted!OwnerWrites = OwnerWrites /\ Hosted!FinalWrites = FinalWrites
  /\ Hosted!TaskWrites = TaskWrites
  /\ Hosted!OutsideReasons = OutsideReasons
  BY DEF Hosted!OwnerWrites, Hosted!FinalWrites, Hosted!TaskWrites, Hosted!OutsideReasons,
         OwnerWrites, FinalWrites, TaskWrites, OutsideReasons

LEMMA SameRows ==
  ASSUME NEW s, NEW w, NEW r
  PROVE  /\ Hosted!IsTerminal(s) <=> IsTerminal(s)
         /\ Hosted!WriteVerdict(s, w, r) = WriteVerdict(s, w, r)
         /\ Hosted!WrittenBy(s, w) = WrittenBy(s, w)
         /\ Hosted!WrittenOutside(s, w) = WrittenOutside(s, w)
  <1>1. \A t, y : Hosted!Written(s, t, y) = Written(s, t, y)
    BY DEF Hosted!Written, Written, Hosted!TERMINAL_STATUSES, TERMINAL_STATUSES
  <1>2. Hosted!IsTerminal(s) <=> IsTerminal(s)
    BY DEF Hosted!IsTerminal, IsTerminal, Hosted!TERMINAL_STATUSES, TERMINAL_STATUSES
  <1>3. \A t, e : Hosted!Verdict(s, t, e) = Verdict(s, t, e)
    BY DEF Hosted!Verdict, Verdict, Hosted!IsValidTransition, IsValidTransition,
           Hosted!Transitions, Transitions
  <1>4. Hosted!WriteStatus = WriteStatus /\ Hosted!WriteReason = WriteReason
    BY DEF Hosted!WriteStatus, WriteStatus, Hosted!WriteReason, WriteReason
  <1>5. Hosted!WriteVerdict(s, w, r) = WriteVerdict(s, w, r)
    BY <1>3, <1>4, SameWrites DEF Hosted!WriteVerdict, WriteVerdict
  <1>6. Hosted!WrittenBy(s, w) = WrittenBy(s, w)
    BY <1>1, <1>4 DEF Hosted!WrittenBy, WrittenBy
  <1>7. Hosted!WrittenOutside(s, w) = WrittenOutside(s, w)
    BY <1>1 DEF Hosted!WrittenOutside, WrittenOutside
  <1> QED
    BY <1>2, <1>5, <1>6, <1>7

\* Which writes a phase is open to.
LEMMA OpenFacts ==
  /\ "deny" \in Faults => "denying" \in Hosted!Open("starting")
  /\ "progress" \in Hosted!Open("starting")
  /\ {"completing", "failing"} \subseteq Hosted!Open("ending")
  /\ process # "running" => "interrupting" \in Hosted!Open("ending")
  BY SameWrites DEF Hosted!Open, OwnerWrites, FinalWrites

LEMMA AwaitedIsOpen ==
  ASSUME TaskInv, ContractInv, pc \in RowPcs \ {"answered"}, ~ Decided,
         pc = "fallback" => reason = "runtime_shutdown"
  PROVE  AwaitedWrite \in Hosted!Open(SeenTask)
  <1> USE DEF TaskInv, ContractInv
  <1>1. CASE pc \in {"deny", "in_progress"}
    <2>1. SeenTask = "starting"
      BY <1>1, SeenTaskFacts DEF BodyPcs
    <2>2. AwaitedWrite = IF pc = "deny" THEN "denying" ELSE "progress"
      BY <1>1 DEF AwaitedWrite
    <2> QED
      BY <1>1, <2>1, <2>2, OpenFacts DEF StepInv
  <1>2. CASE pc \in {"finalize", "fallback"}
    <2>1. SeenTask = "ending"
      BY <1>2, SeenTaskFacts DEF TeardownPcs
    <2>2. reason = "runtime_shutdown" => process # "running"
      BY DEF StepInv
    <2>3. AwaitedWrite \in {"completing", "failing"}
          \/ (AwaitedWrite = "interrupting" /\ reason = "runtime_shutdown")
      BY <1>2 DEF AwaitedWrite, FinalWrite, TypeOK, Reasons
    <2> QED
      BY <2>1, <2>2, <2>3, OpenFacts
  <1> QED
    BY <1>1, <1>2 DEF RowPcs

\* A transition that reads the row, and its commit.
LEMMA ReadRowIsSeen ==
  ASSUME TaskInv, ContractInv, ReadRow
  PROVE  [Hosted!Next]_(Hosted!vars)
  <1> USE DEF TaskInv, ContractInv
  <1> DEFINE verdict == VerdictOf(Awaited)
  <1>1. /\ UNCHANGED <<row, process, orphans, reason>>
        /\ pc \in RowPcs /\ stage = "running" /\ ~ Decided
        /\ CASE verdict = "write" -> stage' = "read" /\ UNCHANGED <<pc, media>>
             [] verdict = "same"  -> Accepted
             [] OTHER             -> Refused(verdict)
    BY DEF ReadRow, Decided
  <1>2. /\ Awaited.to = IF pc = "deny" THEN "failed"
                        ELSE IF pc = "finalize" THEN FinalStatus[reason]
                        ELSE IF pc = "fallback" THEN "interrupted" ELSE pc
        /\ Awaited.to \in VALID_STATUSES
        /\ Awaited.expected = IF pc \in {"finalize", "fallback"} THEN NoOwner ELSE Self
    BY <1>1, AwaitedFacts, TaskAssumption DEF RowWrites
  <1>3. row.status \in VALID_STATUSES \ {"initiated", "ringing"}
    BY DEF TypeOK, RowInv, CallSession
  <1>4. /\ verdict \in {"invalid", "same", "write"}
        /\ verdict = "write" => ~ IsTerminal(row) /\ Awaited.to # "answered"
        /\ verdict = "same" => row.status = Awaited.to
        /\ verdict = "invalid" /\ Awaited.to \in TERMINAL_STATUSES => IsTerminal(row)
    <2>1. verdict = Verdict(row, Awaited.to, Awaited.expected)
      BY DEF VerdictOf
    <2>2. row.owner = Self
      BY DEF RowInv
    <2> HIDE DEF verdict
    <2> QED
      BY <1>2, <1>3, <2>1, <2>2, OwnerAssumption
         DEF Verdict, IsValidTransition, Transitions, IsTerminal, VALID_STATUSES,
             TERMINAL_STATUSES
  <1>5. verdict = VerdictOf(Awaited)
    OBVIOUS
  <1> HIDE DEF verdict
  <1>6. SeenLate' = SeenLate
    BY <1>1 DEF SeenLate
  <1>7. /\ pc \in {"deny", "answered", "in_progress"} => SeenTask = "starting"
        /\ pc \in {"finalize", "fallback"} => SeenTask = "ending"
    BY <1>1, SeenTaskFacts DEF BodyPcs, TeardownPcs
  <1>8. CASE verdict = "write"
    <2>1. pc' = pc /\ stage' = "read" /\ pc \in RowPcs \ {"answered"}
      BY <1>1, <1>2, <1>4, <1>8
    <2>2. pc = "fallback" => reason = "runtime_shutdown"
      BY <1>4, <1>8 DEF OrphanInv
    <2>3. Decided' /\ AwaitedWrite' = AwaitedWrite
      BY <1>1, <2>1 DEF Decided, AwaitedWrite
    <2>4. SeenTask' = AwaitedWrite
      BY <2>3, SeenTaskNext
    <2>5. /\ AwaitedWrite \in TaskWrites
          /\ Awaited = AsWrite(AwaitedWrite, stage = "read")
      BY <2>1, <2>2, AwaitedIsSeen
    <2>6. WriteVerdict(row, AwaitedWrite, Self) = "write"
      BY <1>5, <1>8, <2>5, VerdictIsSeen
    <2>7. AwaitedWrite \in Hosted!Open(SeenTask)
      BY <1>1, <2>1, <2>2, AwaitedIsOpen
    <2>8. Hosted!Decides
      BY <1>1, <1>6, <2>4, <2>6, <2>7, SameRows DEF Hosted!Decides
    <2> QED
      BY <2>8 DEF Hosted!Next, Hosted!TaskNext
  <1>9. CASE verdict = "same" /\ pc = "answered"
    <2>1. pc' = "in_progress" /\ stage' = "queued"
      BY <1>1, <1>9 DEF Accepted, Goto
    <2>2. SeenTask' = "starting"
      BY <2>1, SeenTaskNext DEF Decided, BodyPcs
    <2> QED
      BY <1>1, <1>7, <1>9, <2>2, StutterIsUnseen
  <1>10. CASE verdict = "same" /\ pc = "in_progress"
    <2>1. pc' = "talking" /\ row.status = "in_progress"
      BY <1>1, <1>2, <1>4, <1>10 DEF Accepted, Goto
    <2>2. Hosted!Leaves
      BY <1>1, <1>6, <1>7, <1>10, <2>1, SeenTaskNext DEF Hosted!Leaves
    <2> QED
      BY <2>2 DEF Hosted!Next, Hosted!TaskNext
  <1>11. CASE verdict = "same" /\ pc = "deny"
    <2>1. pc' = "analysis" /\ row.status = "failed" /\ "deny" \in Faults
      BY <1>1, <1>2, <1>4, <1>11 DEF Accepted, Goto, StepInv
    <2>2. Hosted!Leaves
      BY <1>1, <1>6, <1>7, <1>11, <2>1, SeenTaskNext DEF Hosted!Leaves
    <2> QED
      BY <2>2 DEF Hosted!Next, Hosted!TaskNext
  <1>12. CASE \/ verdict = "same" /\ pc \in {"finalize", "fallback"}
              \/ verdict = "invalid" /\ pc = "fallback"
    <2>1. pc' = "analysis" /\ pc \in {"finalize", "fallback"}
      BY <1>1, <1>12 DEF Accepted, Refused, Goto
    <2>2. Awaited.to \in TERMINAL_STATUSES
      BY <1>2, <2>1 DEF TypeOK, Reasons, FinalStatus, TERMINAL_STATUSES
    <2>3. IsTerminal(row)
      BY <1>4, <1>12, <2>2 DEF IsTerminal
    <2>4. Hosted!Leaves
      BY <1>1, <1>6, <1>7, <2>1, <2>3, SeenTaskNext, SameRows DEF Hosted!Leaves
    <2> QED
      BY <2>4 DEF Hosted!Next, Hosted!TaskNext
  <1>13. CASE verdict = "invalid" /\ pc = "finalize"
    <2>1. pc' = "fallback" /\ stage' = "queued"
      BY <1>1, <1>13 DEF Refused, Goto
    <2>2. SeenTask' = "ending"
      BY <2>1, SeenTaskNext DEF Decided, TeardownPcs
    <2> QED
      BY <1>1, <1>7, <1>13, <2>2, StutterIsUnseen
  <1>14. CASE verdict = "invalid" /\ pc \in {"deny", "answered", "in_progress"}
    <2>1. ToTeardown
      BY <1>1, <1>14 DEF Refused
    <2>2. Hosted!TearsDown
      BY <1>1, <1>6, <1>7, <1>14, <2>1, TeardownIsSeen DEF Hosted!TearsDown
    <2> QED
      BY <2>2 DEF Hosted!Next, Hosted!TaskNext
  <1> QED
    BY <1>1, <1>4, <1>8, <1>9, <1>10, <1>11, <1>12, <1>13, <1>14 DEF RowPcs

LEMMA CommitRowIsSeen ==
  ASSUME TaskInv, ContractInv, CommitRow
  PROVE  [Hosted!Next]_(Hosted!vars)
  <1> USE DEF TaskInv, ContractInv
  <1>1. /\ UNCHANGED <<process, orphans, reason>> /\ Accepted
        /\ pc \in RowPcs \ {"answered"} /\ stage = "read" /\ Decided
        /\ row' = Written(row, Awaited.to, Awaited.why)
    BY DEF CommitRow, StepInv, Decided
  <1>2. pc = "fallback" => reason = "runtime_shutdown"
    BY <1>1 DEF OrphanInv
  <1>3. /\ AwaitedWrite \in TaskWrites
        /\ Awaited = AsWrite(AwaitedWrite, stage = "read")
        /\ AwaitedWrite = "progress" <=> pc = "in_progress"
    BY <1>1, <1>2, AwaitedIsSeen
  <1>4. row' = WrittenBy(row, AwaitedWrite)
    BY <1>1, <1>3, VerdictIsSeen
  <1>5. pc' = IF pc = "in_progress" THEN "talking" ELSE "analysis"
    BY <1>1 DEF Accepted, Goto, RowPcs
  <1>6. SeenTask = AwaitedWrite
    BY <1>1, SeenTaskFacts
  <1>7. SeenTask' = IF AwaitedWrite = "progress" THEN "talking" ELSE "none"
    BY <1>3, <1>5, SeenTaskNext
  <1>8. SeenLate' = SeenLate
    BY <1>1 DEF SeenLate
  <1>9. Hosted!Commits
    BY <1>1, <1>3, <1>4, <1>6, <1>7, <1>8, SameRows, SameWrites DEF Hosted!Commits
  <1> QED
    BY <1>9 DEF Hosted!Next, Hosted!TaskNext

\* A database call that raises; one that the closed database refuses is as good as cancelled.
LEMMA DbFailsIsSeen ==
  ASSUME TaskInv, ContractInv, DbFails
  PROVE  [Hosted!Next]_(Hosted!vars)
  <1> USE DEF TaskInv, ContractInv
  <1>1. /\ UNCHANGED <<row, process, orphans>> /\ pc \in DbPcs
        /\ "error" \in Faults \/ (stage = "queued" /\ process # "running")
    BY DEF DbFails
  <1>2. SeenLate' = SeenLate
    BY <1>1 DEF SeenLate
  <1>3. CASE pc \in {"load", "version", "authorize", "deny", "answered", "in_progress"}
    <2>1. SeenTask' = "ending"
      <3>1. ToTeardown
        BY <1>3 DEF DbFails, Refused
      <3> QED
        BY <3>1, TeardownIsSeen
    <2>2. CASE ~ Decided
      <3>1. SeenTask = "starting"
        BY <1>3, <2>2, SeenTaskFacts DEF BodyPcs
      <3>2. Hosted!TearsDown
        BY <1>1, <1>2, <2>1, <3>1 DEF Hosted!TearsDown
      <3> QED
        BY <3>2 DEF Hosted!Next, Hosted!TaskNext
    <2>3. CASE Decided
      <3>1. pc \in {"deny", "in_progress"} /\ "error" \in Faults
        BY <1>1, <1>3, <2>3 DEF Decided, RowPcs, StepInv
      <3>2. SeenTask \in TaskWrites /\ SeenTask \in OwnerWrites
        BY <2>3, <3>1, SeenTaskFacts, AwaitedIsSeen DEF RowPcs
      <3>3. Hosted!DbFails
        BY <1>1, <1>2, <2>1, <3>1, <3>2, SameWrites DEF Hosted!DbFails
      <3> QED
        BY <3>3 DEF Hosted!Next, Hosted!TaskNext
    <2> QED
      BY <2>2, <2>3
  <1>4. CASE pc \in {"finalize", "fallback"}
    <2>1. pc' = "analysis"
      BY <1>4 DEF DbFails, Refused, Goto
    <2>2. SeenTask' = "none"
      BY <2>1, SeenTaskNext
    <2>3. SeenTask \in FinalWrites \cup {"ending"} /\ (~ Decided => SeenTask = "ending")
      <3>1. CASE ~ Decided
        BY <1>4, <3>1, SeenTaskFacts DEF TeardownPcs
      <3>2. CASE Decided
        <4>1. pc = "fallback" => reason = "runtime_shutdown"
          BY <3>2 DEF OrphanInv, Decided
        <4>2. AwaitedWrite \in TaskWrites /\ AwaitedWrite \notin OwnerWrites
          BY <1>4, <4>1, AwaitedIsSeen DEF RowPcs
        <4> QED
          BY <3>2, <4>2, SeenTaskFacts DEF TaskWrites
      <3> QED
        BY <3>1, <3>2
    <2>4. SeenTask \notin OwnerWrites \cup {"starting", "talking", "none"}
      BY <2>3 DEF OwnerWrites, FinalWrites
    <2>5. CASE "error" \in Faults
      <3>1. Hosted!DbFails
        BY <1>1, <1>2, <2>2, <2>3, <2>4, <2>5, SameWrites DEF Hosted!DbFails, TaskWrites
      <3> QED
        BY <3>1 DEF Hosted!Next, Hosted!TaskNext
    <2>6. CASE "error" \notin Faults
      <3>1. SeenTask = "ending" /\ process # "running"
        BY <1>1, <2>3, <2>6 DEF Decided
      <3>2. {} \in Hosted!Abandoned
        BY <3>1, SameWrites DEF Hosted!Abandoned, TaskWrites, OwnerWrites, FinalWrites
      <3>3. Hosted!Cancelled
        BY <1>1, <1>2, <2>2, <2>4, <3>1, <3>2, SameWrites DEF Hosted!Cancelled
      <3> QED
        BY <3>3 DEF Hosted!Next, Hosted!TaskNext
    <2> QED
      BY <2>5, <2>6
  <1>5. CASE pc = "analysis"
    <2>1. pc' = "ended"
      BY <1>5 DEF DbFails, Goto
    <2>2. SeenTask = "none" /\ SeenTask' = "none"
      BY <1>5, <2>1, SeenTaskFacts, SeenTaskNext
    <2> QED
      BY <1>1, <2>2, StutterIsUnseen
  <1> QED
    BY <1>1, <1>3, <1>4, <1>5 DEF DbPcs

\* The writes a cancellation left behind.
LEMMA OrphanIsSeen ==
  ASSUME TaskInv, ContractInv, OrphanStep
  PROVE  [Hosted!Next]_(Hosted!vars)
  <1> USE DEF TaskInv, ContractInv, history, resources
  <1>1. PICK write \in orphans : OrphanReads(write) \/ OrphanCommits(write)
    BY DEF OrphanStep
  <1>2. UNCHANGED <<pc, stage, reason, process>>
    BY <1>1 DEF OrphanReads, OrphanCommits
  <1>3. SeenTask' = SeenTask
    BY <1>2 DEF SeenTask, Decided, AwaitedWrite
  <1>4. write \in RowWrites /\ write.read \in BOOLEAN
    BY DEF TypeOK, RowWrites
  <1>5. CASE AsSeen(write)
    <2>1. PICK w \in TaskWrites : write = AsWrite(w, write.read)
      BY <1>5 DEF AsSeen
    <2>2. PICK b \in BOOLEAN : b = write.read
      BY <1>4
    <2>3. write = AsWrite(w, b)
      BY <2>1, <2>2
    <2>4. <<w, b>> \in SeenLate
      BY <2>3 DEF SeenLate
    <2>5. /\ VerdictOf(write) = WriteVerdict(row, w, Self)
          /\ Written(row, write.to, write.why) = WrittenBy(row, w)
      BY <2>3, VerdictIsSeen
    <2>6. CASE OrphanReads(write)
      <3>1. b = FALSE /\ UNCHANGED row
        BY <2>2, <2>6 DEF OrphanReads
      <3>2. CASE VerdictOf(write) # "write"
        <4>1. orphans' = orphans \ {AsWrite(w, b)}
          BY <2>3, <2>6, <3>2 DEF OrphanReads
        <4>2. SeenLate' = SeenLate \ {<<w, FALSE>>}
          BY <3>1, <4>1, SeenLateNext
        <4>3. Hosted!LateReads(w)
          BY <1>2, <1>3, <2>4, <2>5, <3>1, <3>2, <4>2, SameRows DEF Hosted!LateReads
        <4> QED
          BY <4>3, SameWrites DEF Hosted!Next, Hosted!TaskNext
      <3>3. CASE VerdictOf(write) = "write"
        <4>1. [write EXCEPT !.read = TRUE] = AsWrite(w, TRUE)
          BY <1>4, <2>3, WriteIsRead
        <4>2. orphans' = (orphans \ {AsWrite(w, b)}) \cup {AsWrite(w, TRUE)}
          BY <2>3, <2>6, <3>3, <4>1 DEF OrphanReads
        <4>3. PICK t \in BOOLEAN : t = TRUE
          OBVIOUS
        <4>4. SeenLate' = (SeenLate \ {<<w, b>>}) \cup {<<w, t>>}
          BY <4>2, <4>3, SeenLateMoves
        <4>5. SeenLate' = (SeenLate \ {<<w, FALSE>>}) \cup {<<w, TRUE>>}
          BY <3>1, <4>3, <4>4
        <4>6. Hosted!LateReads(w)
          BY <1>2, <1>3, <2>4, <2>5, <3>1, <3>3, <4>5, SameRows DEF Hosted!LateReads
        <4> QED
          BY <4>6, SameWrites DEF Hosted!Next, Hosted!TaskNext
      <3> QED
        BY <3>2, <3>3
    <2>7. CASE OrphanCommits(write)
      <3>1. b = TRUE /\ row' = WrittenBy(row, w) /\ orphans' = orphans \ {AsWrite(w, b)}
        BY <2>2, <2>3, <2>5, <2>7 DEF OrphanCommits
      <3>2. SeenLate' = SeenLate \ {<<w, TRUE>>}
        BY <3>1, SeenLateNext
      <3>3. Hosted!LateCommits(w)
        BY <1>2, <1>3, <2>4, <3>1, <3>2, SameRows DEF Hosted!LateCommits
      <3> QED
        BY <3>3, SameWrites DEF Hosted!Next, Hosted!TaskNext
    <2> QED
      BY <1>1, <2>6, <2>7
  <1>6. CASE InVain(write) /\ ~ AsSeen(write)
    <2>1. VerdictOf(write) # "write"
      BY <1>6, VainIsRefused
    <2>2. OrphanReads(write)
      BY <1>1, <1>6 DEF InVain, OrphanCommits
    <2>3. orphans' = orphans \ {write} /\ UNCHANGED row
      BY <2>1, <2>2 DEF OrphanReads
    <2>4. ~ \E k \in TaskWrites \X BOOLEAN : write = AsWrite(k[1], k[2])
      <3>1. ASSUME NEW k \in TaskWrites \X BOOLEAN, write = AsWrite(k[1], k[2]) PROVE FALSE
        <4>1. write.read = k[2] /\ k[1] \in TaskWrites
          BY <3>1 DEF AsWrite
        <4> QED
          BY <1>6, <3>1, <4>1 DEF AsSeen
      <3> QED
        BY <3>1
    <2>5. SeenLate' = SeenLate
      BY <2>3, <2>4, UnseenOrphan
    <2> QED
      BY <1>2, <1>3, <2>3, <2>5 DEF Hosted!vars
  <1> QED
    BY <1>5, <1>6 DEF OrphanInv

LEMMA OutsiderIsSeen ==
  ASSUME OutsiderCommits
  PROVE  Hosted!OutsiderCommits
  <1>1. UNCHANGED <<pc, stage, reason, process, orphans>>
    BY DEF OutsiderCommits
  <1>2. SeenTask' = SeenTask /\ SeenLate' = SeenLate
    BY <1>1 DEF SeenTask, SeenLate, Decided, AwaitedWrite
  <1>3. \E why \in OutsideReasons : row' = WrittenOutside(row, why)
    BY DEF OutsiderCommits
  <1> QED
    BY <1>1, <1>2, <1>3, SameRows, SameWrites DEF Hosted!OutsiderCommits

\* The end of the process reaches the task at every await.
LEMMA ProcessStepIsSeen ==
  ASSUME TaskInv, ContractInv, ProcessStep
  PROVE  [Hosted!Next]_(Hosted!vars)
  <1> USE DEF TaskInv, ContractInv, resources
  <1>1. process' # "running" /\ UNCHANGED row
    BY DEF ProcessStep, Shutdown, CloseDatabase, ExitProcess
  <1>2. Cancel \/ (Undisturbed /\ UNCHANGED reason)
    BY DEF ProcessStep, Shutdown, CloseDatabase, ExitProcess
  <1>3. ASSUME SeenTask' = SeenTask, UNCHANGED orphans PROVE [Hosted!Next]_(Hosted!vars)
    <2>1. SeenLate' = SeenLate
      BY <1>3 DEF SeenLate
    <2>2. Hosted!Stops
      BY <1>1, <1>3, <2>1 DEF Hosted!Stops
    <2> QED
      BY <2>2 DEF Hosted!Next, Hosted!FleetNext
  <1>4. CASE CancelsPumps
    <2>1. pc \in {"talking", "unwinding"} /\ pc' = "unwinding" /\ UNCHANGED orphans
      BY <1>4 DEF CancelsPumps, Unwind, Goto
    <2> QED
      BY <1>3, <2>1, SeenTaskFacts, SeenTaskNext
  <1>5. CASE CancelsFlush
    <2>1. pc = "flush" /\ UNCHANGED orphans /\ ToClose
      BY <1>5 DEF CancelsFlush
    <2>2. SeenTask = "ending" /\ SeenTask' = "ending"
      BY <2>1, SeenTaskFacts, TeardownIsSeen DEF Decided, RowPcs, TeardownPcs
    <2> QED
      BY <1>3, <2>1, <2>2
  <1>6. CASE Undisturbed /\ UNCHANGED reason
    <2>1. UNCHANGED <<pc, stage, reason, orphans>>
      BY <1>6 DEF Undisturbed
    <2>2. SeenTask' = SeenTask
      BY <2>1 DEF SeenTask, Decided, AwaitedWrite
    <2> QED
      BY <1>3, <2>1, <2>2
  <1>7. ASSUME /\ orphans' = Orphaned
               /\ SeenTask \in {"starting", "ending"} \cup TaskWrites
               /\ SeenTask' = IF SeenTask \in OwnerWrites \cup {"starting"} THEN "ending" ELSE "none"
               /\ pc \notin {"analysis", "ended", "talking", "unwinding"}
        PROVE  Hosted!Cancelled
    <2>1. SeenTask # "none" /\ SeenTask # "talking"
      BY <1>7 DEF TaskWrites, OwnerWrites, FinalWrites
    <2>2. ASSUME NEW writes \in Hosted!Abandoned, SeenLate' = SeenLate \cup writes
          PROVE  Hosted!Cancelled
      BY <1>1, <1>7, <2>1, <2>2, SameWrites DEF Hosted!Cancelled
    <2>3. CASE Orphaned = orphans
      <3>1. SeenLate' = SeenLate \cup {}
        BY <1>7, <2>3 DEF SeenLate
      <3>2. CASE SeenTask \notin TaskWrites
        <4>1. {} \in Hosted!Abandoned
          BY <3>2, SameWrites DEF Hosted!Abandoned
        <4> QED
          BY <2>2, <3>1, <4>1
      <3>3. CASE SeenTask \in TaskWrites
        <4>1. Decided
          BY <1>7, <3>3, SeenTaskFacts
             DEF TypeOK, BodyPcs, TeardownPcs, TaskWrites, OwnerWrites, FinalWrites
        <4>2. Awaited \in orphans
          BY <2>3, <4>1 DEF Orphaned, Decided
        <4>3. /\ AwaitedWrite \in TaskWrites /\ SeenTask = AwaitedWrite
              /\ Awaited = AsWrite(AwaitedWrite, stage = "read")
          BY <4>1, AwaitedIsSeen, SeenTaskFacts DEF Decided, StepInv, OrphanInv
        <4>4. <<SeenTask, TRUE>> \in SeenLate
          BY <4>1, <4>2, <4>3 DEF SeenLate, Decided
        <4>5. SeenLate' = SeenLate \cup {<<SeenTask, TRUE>>}
          BY <3>1, <4>4
        <4>6. {<<SeenTask, TRUE>>} \in Hosted!Abandoned
          BY <3>3, SameWrites DEF Hosted!Abandoned
        <4> QED
          BY <2>2, <4>5, <4>6
      <3> QED
        BY <3>2, <3>3
    <2>4. CASE Orphaned # orphans
      <3>1. pc \in RowPcs /\ stage # "queued" /\ orphans' = orphans \cup {Awaited}
            /\ Awaited \notin orphans
        BY <1>7, <2>4 DEF Orphaned
      <3>2. CASE pc = "answered" \/ (pc = "fallback" /\ reason # "runtime_shutdown")
        <4>1. ~ Decided
          BY <3>2 DEF Decided, StepInv, OrphanInv
        <4>2. SeenTask \notin TaskWrites
          BY <3>2, <4>1, SeenTaskFacts
             DEF BodyPcs, TeardownPcs, TaskWrites, OwnerWrites, FinalWrites
        <4>3. ~ \E k \in TaskWrites \X BOOLEAN : Awaited = AsWrite(k[1], k[2])
          <5>1. /\ Awaited.to = IF pc = "answered" THEN "answered" ELSE "interrupted"
                /\ pc # "answered" => Awaited.why # "runtime_shutdown"
            BY <3>2 DEF Awaited, FinalReason, TypeOK, Reasons
          <5> QED
            BY <5>1, WriteFacts
        <4>4. SeenLate' = SeenLate \cup {}
          BY <3>1, <4>3, UnseenOrphan
        <4>5. {} \in Hosted!Abandoned
          BY <4>2, SameWrites DEF Hosted!Abandoned
        <4> QED
          BY <2>2, <4>4, <4>5
      <3>3. CASE ~ (pc = "answered" \/ (pc = "fallback" /\ reason # "runtime_shutdown"))
        <4>1. PICK b \in BOOLEAN : b = (stage = "read")
          OBVIOUS
        <4>2. AwaitedWrite \in TaskWrites /\ Awaited = AsWrite(AwaitedWrite, b)
          BY <3>1, <3>3, <4>1, AwaitedIsSeen
        <4>3. SeenLate' = SeenLate \cup {<<AwaitedWrite, b>>}
          BY <3>1, <4>2, SeenLateNext
        <4>4. CASE Decided
          <5>1. SeenTask = AwaitedWrite
            BY <4>4, SeenTaskFacts
          <5>2. {<<AwaitedWrite, TRUE>>} \in Hosted!Abandoned
            BY <4>2, <5>1, SameWrites DEF Hosted!Abandoned
          <5>3. b = TRUE
            BY <4>1, <4>4 DEF Decided
          <5> QED
            BY <2>2, <4>3, <5>2, <5>3
        <4>5. CASE ~ Decided
          <5>1. AwaitedWrite \in Hosted!Open(SeenTask)
            BY <3>1, <3>3, <4>5, AwaitedIsOpen
          <5>2. SeenTask \notin TaskWrites
            BY <1>7, <4>5, SeenTaskFacts
               DEF TypeOK, BodyPcs, TeardownPcs, TaskWrites, OwnerWrites, FinalWrites
          <5>3. {<<AwaitedWrite, FALSE>>} \in Hosted!Abandoned
            BY <5>1, <5>2, SameWrites DEF Hosted!Abandoned
          <5>4. b = FALSE
            BY <3>1, <4>1, <4>5 DEF Decided
          <5> QED
            BY <2>2, <4>3, <5>3, <5>4
        <4> QED
          BY <4>4, <4>5
      <3> QED
        BY <3>2, <3>3
    <2> QED
      BY <2>3, <2>4
  <1>8. CASE CancelsBody
    <2>1. pc \in BodyPcs /\ orphans' = Orphaned /\ SeenTask' = "ending"
      BY <1>8, TeardownIsSeen DEF CancelsBody
    <2>2. SeenTask \in OwnerWrites \cup {"starting"}
      <3>1. Decided => SeenTask \in OwnerWrites
        <4>1. ASSUME Decided PROVE pc \in {"deny", "in_progress"}
          BY <2>1, <4>1 DEF Decided, StepInv, BodyPcs, RowPcs
        <4>2. ASSUME Decided PROVE AwaitedWrite \in OwnerWrites
          BY <4>1, <4>2, AwaitedIsSeen DEF RowPcs
        <4> QED
          BY <4>2, SeenTaskFacts
      <3> QED
        BY <2>1, <3>1, SeenTaskFacts
    <2>3. Hosted!Cancelled
      BY <1>7, <2>1, <2>2 DEF BodyPcs, TaskWrites
    <2> QED
      BY <2>3 DEF Hosted!Next, Hosted!TaskNext
  <1>9. CASE CancelsTeardown
    <2>1. /\ pc \in TeardownPcs \ {"flush"} /\ orphans' = Orphaned
          /\ pc' = "ended"
      BY <1>9 DEF CancelsTeardown, Goto
    <2>2. SeenTask' = "none"
      BY <2>1, SeenTaskNext
    <2>3. CASE pc = "analysis"
      <3>1. SeenTask = "none" /\ Orphaned = orphans
        BY <2>3, SeenTaskFacts DEF Orphaned, RowPcs
      <3> QED
        BY <1>3, <2>1, <2>2, <3>1
    <2>4. CASE pc # "analysis"
      <3>1. SeenTask = "ending" \/ (SeenTask \in TaskWrites /\ SeenTask \notin OwnerWrites)
        <4>1. Decided => SeenTask \in TaskWrites /\ SeenTask \notin OwnerWrites
          BY <2>1, AwaitedIsSeen, SeenTaskFacts DEF Decided, OrphanInv, TeardownPcs
        <4> QED
          BY <2>1, <2>4, <4>1, SeenTaskFacts
      <3>2. SeenTask \notin OwnerWrites \cup {"starting"}
        BY <3>1 DEF OwnerWrites, FinalWrites, TaskWrites
      <3>3. Hosted!Cancelled
        BY <1>7, <2>1, <2>2, <2>4, <3>1, <3>2 DEF TeardownPcs
      <3> QED
        BY <3>3 DEF Hosted!Next, Hosted!TaskNext
    <2> QED
      BY <2>3, <2>4
  <1> QED
    BY <1>2, <1>4, <1>5, <1>6, <1>8, <1>9 DEF Cancel

LEMMA StepIsSeen ==
  ASSUME TaskInv, ContractInv, [Next]_vars
  PROVE  [Hosted!Next]_(Hosted!vars)
  <1>1. CASE UNCHANGED vars
    <2>1. SeenTask' = SeenTask
      BY <1>1 DEF vars, SeenTask, Decided, AwaitedWrite
    <2> QED
      BY <1>1, <2>1, StutterIsUnseen DEF vars
  <1>2. CASE BodyStep \/ TalkStep \/ LastStep
    BY <1>2, BodyStepIsSeen
  <1>3. CASE ProcessStep \/ DbFails \/ ReadRow
    BY <1>3, ProcessStepIsSeen, DbFailsIsSeen, ReadRowIsSeen
  <1>4. CASE CommitRow \/ OrphanStep
    BY <1>4, CommitRowIsSeen, OrphanIsSeen
  <1>5. CASE OutsiderCommits
    BY <1>5, OutsiderIsSeen DEF Hosted!Next, Hosted!FleetNext
  <1> QED
    BY <1>1, <1>2, <1>3, <1>4, <1>5
       DEF Next, TaskStep, DbStep, BodyStep, TalkStep, LastStep, ProcessStep

LEMMA InitIsSeen ==
  ASSUME Init
  PROVE  Hosted!Init
  <1>1. SeenTask = "starting"
    BY DEF Init, SeenTask, Decided, RowPcs, BodyPcs
  <1>2. SeenLate = {}
    BY DEF Init, SeenLate
  <1>3. row \in HandedOver(Self)
    BY DEF Init, HandedOver
  <1>4. Hosted!HandedOver(Self) = HandedOver(Self)
    BY SameWrites, SameRows DEF Hosted!HandedOver, HandedOver
  <1> QED
    BY <1>1, <1>2, <1>3, <1>4 DEF Hosted!Init

\* Whatever a database call, the media, the engine, the caller, a shutdown or another
\* writer of the row do to run_call_task, the rest of the fleet sees it behave as
\* HostedCall: it decides on no write that its phase does not allow or the row it read
\* forbids, and all it leaves behind when it is cancelled is the one write a thread had
\* already taken up (runtime/call_task.py, runtime/db.py).
THEOREM TaskImplementsHostedCall == Spec => ImplementsHostedCall
  <1>1. Init => TaskInv /\ ContractInv
    BY TaskInvInit, ContractInit
  <1>2. TaskInv /\ ContractInv /\ [Next]_vars => (TaskInv /\ ContractInv)'
    BY TaskInvIsInductive, ContractIsKept
  <1>3. Init => Hosted!Init
    BY InitIsSeen
  <1>4. TaskInv /\ ContractInv /\ [Next]_vars => [Hosted!Next]_(Hosted!vars)
    BY StepIsSeen
  <1> QED
    BY <1>1, <1>2, <1>3, <1>4, PTL DEF Spec, ImplementsHostedCall, Hosted!Spec
===============================================================================
