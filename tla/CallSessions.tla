---------------------------- MODULE CallSessions ----------------------------
(***************************************************************************)
(* The call_sessions table of the control database and the functions of    *)
(* voiceagent/calls that write a row of it, as operators on one row.       *)
(*                                                                         *)
(* Two kinds of function write a row.  claim_runtime_ownership and         *)
(* claim_call_for_activation read it with SELECT ... FOR UPDATE, so reading *)
(* and writing are one step of the modules that use this one.              *)
(* transition_call_session reads the row without a lock, decides, and      *)
(* writes the changed columns when its transaction commits: it is two      *)
(* steps, Verdict on the row that was read and Written on the row as it is *)
(* by then.  Nothing (no version column, no re-check) ties the two.        *)
(***************************************************************************)
CONSTANTS
  Runtimes,   \* instance ids of the call-runtime processes
  NoOwner     \* call_sessions.runtime_instance_id IS NULL

ASSUME OwnerAssumption == NoOwner \notin Runtimes

-----------------------------------------------------------------------------
(* calls/lifecycle.py                                                      *)

VALID_STATUSES == {"initiated", "ringing", "answered", "in_progress",
                   "completed", "failed", "interrupted"}

TERMINAL_STATUSES == {"completed", "failed", "interrupted"}

Transitions(status) ==
  CASE status = "initiated"   -> {"ringing", "answered", "failed", "interrupted"}
    [] status = "ringing"     -> {"answered", "failed", "interrupted"}
    [] status = "answered"    -> {"in_progress", "completed", "failed", "interrupted"}
    [] status = "in_progress" -> {"completed", "failed", "interrupted"}
    [] OTHER                  -> {}

IsValidTransition(current, target) ==
  current = target \/ target \in Transitions(current)

-----------------------------------------------------------------------------
(* calls/models.py, calls/service.py                                       *)

EndReasons == {"none", "authorization_denied", "no_capacity", "media_unavailable",
               "completed", "runtime_shutdown", "media_disconnect", "runtime_crashed"}

\* A row; status "absent" is the row that does not exist yet.
CallSession == [status    : VALID_STATUSES \cup {"absent"},
                owner     : Runtimes \cup {NoOwner},
                endReason : EndReasons]

NoRow == [status |-> "absent", owner |-> NoOwner, endReason |-> "none"]

\* Mutation: the insert becomes an upsert, and starts the call over.
UpsertCallSession(row) == [row EXCEPT !.status = "initiated"]

\* The unique index on fs_channel_uuid makes the loser of two inserts return the
\* row of the winner.
CreateCallSession(row) ==
  IF row = NoRow THEN [row EXCEPT !.status = "initiated"] ELSE row

\* What transition_call_session decides from the row it read.
Verdict(row, to, expected) ==
  IF expected # NoOwner /\ row.owner # expected THEN "mismatch"
  ELSE CASE ~ IsValidTransition(row.status, to) -> "invalid"
         [] to = row.status                     -> "same"
         [] OTHER                               -> "write"

\* The columns it then writes, over whatever the row holds at commit.
Written(row, to, reason) ==
  [row EXCEPT !.status    = to,
              !.endReason = IF to \in TERMINAL_STATUSES /\ reason # "none"
                              THEN reason ELSE @]

\* Mutation: the claim overwrites another owner, or moves the status on as well.
MayOwnAnyway(row, r) == row.owner \in Runtimes \cup {NoOwner}
ClaimAndRing(row, r) == [row EXCEPT !.owner = r, !.status = "ringing"]

\* claim_runtime_ownership: idempotent for the owner, refused to anyone else.
MayOwn(row, r) == row.owner \in {NoOwner, r}
ClaimRuntimeOwnership(row, r) == [row EXCEPT !.owner = r]

\* claim_call_for_activation: exactly one caller finds the row still initiated.
MayActivate(row) == row.status = "initiated"
ClaimCallForActivation(row) == [row EXCEPT !.status = "ringing"]

IsTerminal(row) == row.status \in TERMINAL_STATUSES

-----------------------------------------------------------------------------
(* runtime/call_task.py: the transitions the task of a call may write, and  *)
(* what others may write over it.  A progress and a denial are written by   *)
(* the owner only, the rest by anybody.                                     *)

OwnerWrites == {"progress", "denying"}
FinalWrites == {"completing", "failing", "interrupting"}
TaskWrites == OwnerWrites \cup FinalWrites

WriteStatus == [progress     |-> "in_progress",
                denying      |-> "failed",
                completing   |-> "completed",
                failing      |-> "failed",
                interrupting |-> "interrupted"]
WriteReason == [progress     |-> "none",
                denying      |-> "authorization_denied",
                completing   |-> "completed",
                failing      |-> "media_disconnect",
                interrupting |-> "runtime_shutdown"]

WriteVerdict(row, w, r) ==
  Verdict(row, WriteStatus[w], IF w \in OwnerWrites THEN r ELSE NoOwner)
WrittenBy(row, w) == Written(row, WriteStatus[w], WriteReason[w])

\* Refusals of duplicate handlers and repairs of the reconciler, decided on a row that
\* was read long ago.
OutsideReasons == {"no_capacity", "authorization_denied", "runtime_crashed"}
WrittenOutside(row, why) ==
  Written(row, IF why = "runtime_crashed" THEN "interrupted" ELSE "failed", why)

\* The row of a call process r has just moved to answered.  An outside write may have
\* come before, whose end_reason is left, or since.
HandedOver(r) ==
  LET answered == {[status |-> "answered", owner |-> r, endReason |-> why] :
                     why \in OutsideReasons \cup {"none"}}
  IN answered \cup {WrittenOutside(row, why) : row \in answered, why \in OutsideReasons}
=============================================================================
