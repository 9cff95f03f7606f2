------------------------------ MODULE HostedCall ------------------------------
(***************************************************************************)
(* A call from the moment a process has taken it on: the contract between  *)
(* the task of the call and the rest of the fleet.  Of the task it says    *)
(* which writes it may decide on in which phase, and which of them outlive *)
(* it; of everybody else, that they write nothing but late refusals and    *)
(* repairs.  CallTask implements it, and CallFleet keeps it for every      *)
(* process and every call.                                                 *)
(***************************************************************************)
EXTENDS CallSessions

CONSTANTS
  Self,     \* the instance_id of the process, the owner of the call
  Faults    \* which faults there are: "deny" and "error" matter here

VARIABLES
  row,       \* the call's CallSession
  task,      \* Phases, or the write the task has decided on, or "none"
  late,      \* writes whose awaiter was cancelled, and whether they are decided
  stopping   \* the process was told to stop

vars == <<row, task, late, stopping>>

Phases == {"starting", "talking", "ending"}

Init ==
  /\ row \in HandedOver(Self)
  /\ task = "starting"
  /\ late = {}
  /\ stopping \in BOOLEAN

-----------------------------------------------------------------------------
(* The task                                                                *)

\* The writes open to the task in a phase.
Open(phase) ==
  CASE phase = "starting" -> {w \in OwnerWrites : w = "denying" => "deny" \in Faults}
    [] phase = "ending"   -> {w \in FinalWrites : w = "interrupting" => stopping}
    [] OTHER              -> {}

Decides ==
  /\ \E w \in Open(task) : WriteVerdict(row, w, Self) = "write" /\ task' = w
  /\ UNCHANGED <<row, late, stopping>>

Commits ==
  /\ task \in TaskWrites
  /\ row' = WrittenBy(row, task)
  /\ task' = IF task = "progress" THEN "talking" ELSE "none"
  /\ UNCHANGED <<late, stopping>>

\* The body is over, however it ended.
TearsDown ==
  /\ task \in {"starting", "talking"}
  /\ task' = "ending"
  /\ UNCHANGED <<row, late, stopping>>

\* The row has the status already, or nothing can be written any more.
Leaves ==
  /\ \/ task = "ending" /\ IsTerminal(row) /\ task' = "none"
     \/ task = "starting" /\ "deny" \in Faults /\ row.status = "failed" /\ task' = "none"
     \/ task = "starting" /\ row.status = "in_progress" /\ task' = "talking"
  /\ UNCHANGED <<row, late, stopping>>

\* A database call raises.
DbFails ==
  /\ "error" \in Faults
  /\ task \in TaskWrites \cup {"ending"}
  /\ task' = IF task \in OwnerWrites THEN "ending" ELSE "none"
  /\ UNCHANGED <<row, late, stopping>>

\* Only the end of a process cancels a task.  What it awaited of the database goes on if
\* a thread had taken it up, whether it had read the row by then or not.
Abandoned ==
  IF task \in TaskWrites THEN {{<<task, TRUE>>}}
                         ELSE {{}} \cup {{<<w, FALSE>>} : w \in Open(task)}

Cancelled ==
  /\ task # "none"
  /\ task' = IF task \in OwnerWrites \cup {"starting", "talking"} THEN "ending" ELSE "none"
  /\ \E writes \in Abandoned : late' = late \cup writes
  /\ stopping' = TRUE
  /\ UNCHANGED row

LateReads(w) ==
  /\ <<w, FALSE>> \in late
  /\ late' = (late \ {<<w, FALSE>>})
             \cup IF WriteVerdict(row, w, Self) = "write" THEN {<<w, TRUE>>} ELSE {}
  /\ UNCHANGED <<row, task, stopping>>

LateCommits(w) ==
  /\ <<w, TRUE>> \in late
  /\ row' = WrittenBy(row, w)
  /\ late' = late \ {<<w, TRUE>>}
  /\ UNCHANGED <<task, stopping>>

TaskNext ==
  \/ Decides \/ Commits \/ TearsDown \/ Leaves \/ DbFails \/ Cancelled
  \/ \E w \in TaskWrites : LateReads(w) \/ LateCommits(w)

-----------------------------------------------------------------------------
(* The rest of the fleet                                                   *)

OutsiderCommits ==
  /\ \E why \in OutsideReasons : row' = WrittenOutside(row, why)
  /\ UNCHANGED <<task, late, stopping>>

Stops ==
  /\ stopping' = TRUE
  /\ UNCHANGED <<row, task, late>>

\* The process is gone.
Dies ==
  /\ task' = "none" /\ late' = {} /\ stopping' = TRUE
  /\ UNCHANGED row

FleetNext == OutsiderCommits \/ Stops \/ Dies

-----------------------------------------------------------------------------
Next == TaskNext \/ FleetNext

Spec == Init /\ [][Next]_vars
===============================================================================
