--------------------------- MODULE OffhostBackups ---------------------------
(***************************************************************************)
(* scripts/offhost_backup.py and scripts/db_recovery_drill.py: processes    *)
(* that back the database up, copy the dump off the host and delete old     *)
(* copies, one at a time under a lock file, and processes that fetch a      *)
(* verified dump and restore it into a drill database, which is a fresh one. *)
(*                                                                          *)
(* A dump is its number: dumps sort by the time of their backup.            *)
(***************************************************************************)
EXTENDS FiniteSets, FiniteSetsExt, Naturals

CONSTANTS
  Processes,  \* invocations of the scripts that may overlap
  MaxDumps    \* bound: backups taken

ASSUME BackupAssumption == MaxDumps \in Nat /\ "nobody" \notin Processes /\ "dead" \notin Processes

VARIABLES
  lock,       \* the lock file: whose token it holds, and whether it is written yet
  process,    \* [Processes -> what the process is doing, and the dumps it has in hand]
  taken,      \* dumps taken so far
  remote,     \* the dumps that are off the host
  ledger,     \* offhost_backup_ledger.json
  target,     \* the drill database: the dump in schema app (0: empty), and all of it?
  verified,   \* history: the dumps that ever were in the ledger
  overlapped  \* history: the lock of a living process was removed

backupVars == <<lock, process, taken, remote, ledger, target, verified, overlapped>>

Dumps == 1..MaxDumps
NoLock == [by |-> "nobody", written |-> FALSE]

ProcessStages ==
  {"idle", "claimed", "refused", "stale", "cleared", "held", "dumped", "transferred", "record",
   "recorded", "retain", "delete", "save", "unlock", "unlink",
   "fetched", "checked", "restoring", "restored"}
Idle == [at |-> "idle", backup |-> FALSE, dump |-> 0, read |-> {}, doomed |-> {}, gone |-> {}]

BackupTypeOK ==
  /\ lock \in [by : Processes \cup {"nobody", "dead"}, written : BOOLEAN]
  /\ process \in
       [Processes -> [at : ProcessStages, backup : BOOLEAN, dump : 0..MaxDumps, read : SUBSET Dumps,
                      doomed : SUBSET Dumps, gone : SUBSET Dumps]]
  /\ taken \in 0..MaxDumps
  /\ remote \subseteq Dumps /\ ledger \subseteq Dumps
  /\ target \in [dump : 0..MaxDumps, whole : BOOLEAN]
  /\ verified \subseteq Dumps /\ overlapped \in BOOLEAN

BackupInit ==
  /\ lock = NoLock
  /\ process = [p \in Processes |-> Idle]
  /\ taken = 0 /\ remote = {} /\ ledger = {}
  /\ target = [dump |-> 0, whole |-> FALSE]
  /\ verified = {} /\ overlapped = FALSE

At(p, stage) == process[p].at = stage
Goes(p, stage) == process' = [process EXCEPT ![p].at = stage]
Stops(p) == process' = [process EXCEPT ![p] = Idle]
Unlocks(p) == process' = [process EXCEPT ![p] = [Idle EXCEPT !.at = "unlock"]]

\* What the steps below leave alone, by the part of the code it belongs to.
lockVars == <<lock, overlapped>>
copyVars == <<taken, remote, ledger, verified>>

-----------------------------------------------------------------------------
(* acquire_lock                                                            *)

\* _cmd_backup and _cmd_retention.
StartsRun(p) ==
  /\ At(p, "idle")
  /\ \E backup \in BOOLEAN :
       process' = [process EXCEPT ![p].backup = backup,
                                  ![p].at = IF lock = NoLock THEN "claimed" ELSE "refused"]
  /\ lock' = IF lock = NoLock THEN [by |-> p, written |-> FALSE] ELSE lock
  /\ UNCHANGED <<overlapped, copyVars, target>>

\* The file is created empty and then written: until then others take it for unreadable.
WriteLock(p) ==
  /\ At(p, "claimed") /\ Goes(p, "held")
  /\ lock' = IF lock.by = p THEN [lock EXCEPT !.written = TRUE] ELSE lock
  /\ UNCHANGED <<overlapped, copyVars, target>>

RemovesLock(p) ==
  /\ lock' = NoLock
  /\ overlapped' = (overlapped \/ lock.by \in Processes \ {p})

\* Unreadable, of a dead process, or older than OFFHOST_BACKUP_LOCK_STALE_SECONDS: how old
\* the lock of a living process is, is open.
JudgeLock(p) ==
  /\ At(p, "refused")
  /\ \/ Goes(p, "stale")
     \/ lock.by \in Processes /\ lock.written /\ Stops(p)
  /\ UNCHANGED <<lockVars, copyVars, target>>

\* The file removed need not be the one that was judged.
RemoveStaleLock(p) ==
  /\ At(p, "stale") /\ Goes(p, "cleared")
  /\ RemovesLock(p)
  /\ UNCHANGED <<copyVars, target>>

ClaimAgain(p) ==
  /\ At(p, "cleared")
  /\ IF lock = NoLock
       THEN Goes(p, "claimed") /\ lock' = [by |-> p, written |-> FALSE]
       ELSE Stops(p) /\ UNCHANGED lock
  /\ UNCHANGED <<overlapped, copyVars, target>>

\* The token is read, and the file removed if it was this process's.
CheckToken(p) ==
  /\ At(p, "unlock")
  /\ IF lock = [by |-> p, written |-> TRUE] THEN Goes(p, "unlink") ELSE Stops(p)
  /\ UNCHANGED <<lockVars, copyVars, target>>

ReleaseLock(p) ==
  /\ At(p, "unlink") /\ Stops(p)
  /\ RemovesLock(p)
  /\ UNCHANGED <<copyVars, target>>

-----------------------------------------------------------------------------
(* backup                                                                  *)

\* run_local_backup and write_manifest; a failure releases the lock.
TakeDump(p) ==
  /\ At(p, "held") /\ process[p].backup
  /\ \/ /\ taken < MaxDumps
        /\ taken' = taken + 1
        /\ process' = [process EXCEPT ![p].at = "dumped", ![p].dump = taken + 1]
     \/ UNCHANGED taken /\ Unlocks(p)
  /\ UNCHANGED <<lockVars, remote, ledger, verified, target>>

\* off_host_verify: a transfer that fails may have copied the dump all the same.
TransferArtifact(p) ==
  /\ At(p, "dumped")
  /\ \E copied \in BOOLEAN : remote' = IF copied THEN remote \cup {process[p].dump} ELSE remote
  /\ \/ Goes(p, "transferred")
     \/ Unlocks(p)
  /\ UNCHANGED <<lockVars, taken, ledger, verified, target>>

IsOffHost(p) == process[p].dump \in remote

OffHostVerify(p) ==
  /\ At(p, "transferred")
  /\ \/ IsOffHost(p) /\ Goes(p, "record")
     \/ Unlocks(p)
  /\ UNCHANGED <<lockVars, copyVars, target>>

\* record_verified: load_ledger, append, save_ledger.
LoadToRecord(p) ==
  /\ At(p, "record")
  /\ process' = [process EXCEPT ![p].at = "recorded", ![p].read = ledger]
  /\ UNCHANGED <<lockVars, copyVars, target>>

\* Retention follows a backup if it is enabled.
RecordVerified(p) ==
  LET d == process[p].dump IN
  /\ At(p, "recorded")
  /\ ledger' = process[p].read \cup {d}
  /\ verified' = verified \cup {d}
  /\ \/ process' = [process EXCEPT ![p] = [Idle EXCEPT !.at = "retain"]]
     \/ Unlocks(p)
  /\ UNCHANGED <<lockVars, taken, remote, target>>

-----------------------------------------------------------------------------
(* run_retention                                                           *)

RetentionOnly(p) ==
  /\ At(p, "held") /\ ~ process[p].backup
  /\ Goes(p, "retain")
  /\ UNCHANGED <<lockVars, copyVars, target>>

\* Mutation: the newest entry is not spared.
SparesNone == Dumps \cup {MaxDumps + 1}
OldestKept == IF ledger = {} THEN {0} ELSE ledger

\* select_retention: the newest entries survive, as many as the count or the days allow.
SelectRetention(p) ==
  /\ At(p, "retain")
  /\ \E oldest \in OldestKept :
       process' = [process EXCEPT ![p].at = "delete", ![p].read = ledger,
                                  ![p].doomed = {d \in ledger : d < oldest}]
  /\ UNCHANGED <<lockVars, copyVars, target>>

\* delete_remote of a dump and its three sidecars: any may fail, having deleted or not.
DeleteRemote(p) ==
  /\ At(p, "delete")
  /\ IF process[p].doomed = {}
       THEN Goes(p, "save") /\ UNCHANGED remote
       ELSE LET d == Min(process[p].doomed) IN
            \E deleted, failed \in BOOLEAN :
              /\ deleted \/ failed
              /\ remote' = IF deleted THEN remote \ {d} ELSE remote
              /\ process' = [process EXCEPT ![p].doomed = @ \ {d},
                                            ![p].gone = IF failed THEN @ ELSE @ \cup {d}]
  /\ UNCHANGED <<lockVars, taken, ledger, verified, target>>

SaveLedger(p) ==
  /\ At(p, "save") /\ Unlocks(p)
  /\ ledger' = process[p].read \ process[p].gone
  /\ UNCHANGED <<lockVars, taken, remote, verified, target>>

-----------------------------------------------------------------------------
(* recover and the recovery drill                                          *)

\* _cmd_recover takes the newest entry, or the one it is told.
Recover(p) ==
  /\ At(p, "idle")
  /\ \E d \in ledger \cap remote :
       process' = [process EXCEPT ![p].at = "fetched", ![p].dump = d]
  /\ UNCHANGED <<lockVars, copyVars, target>>

\* verify_artifact asks for the sidecars of the dump as well, which recover does not fetch:
\* whoever drills has put them beside it.  The target must be empty.
CheckTarget(p) ==
  /\ At(p, "fetched")
  /\ IF target.dump = 0 THEN Goes(p, "checked") ELSE Stops(p)
  /\ UNCHANGED <<lockVars, copyVars, target>>

\* pg_restore creates the schema, and stops at the first error (--exit-on-error).
SchemaIsNew == target.dump = 0

\* db_restore.sh: of two drills that both found the target empty one fails here.
BeginRestore(p) ==
  /\ At(p, "checked")
  /\ IF SchemaIsNew
       THEN Goes(p, "restoring") /\ target' = [dump |-> process[p].dump, whole |-> FALSE]
       ELSE Stops(p) /\ UNCHANGED target
  /\ UNCHANGED <<lockVars, copyVars>>

\* The rest of the restore, which may fail or run out of time half way.
FinishRestore(p) ==
  /\ At(p, "restoring")
  /\ \/ Goes(p, "restored") /\ target' = [target EXCEPT !.whole = TRUE]
     \/ Stops(p) /\ UNCHANGED target
  /\ UNCHANGED <<lockVars, copyVars>>

\* The checks of migrations, constraints, row level security and tenant isolation, one
\* after the other: the first that fails ends the drill, and the rest is skipped.
ReportDrill(p) ==
  /\ At(p, "restored") /\ Stops(p)
  /\ UNCHANGED <<lockVars, copyVars, target>>

-----------------------------------------------------------------------------
\* A process that dies leaves its lock behind.
Dies(p) ==
  /\ ~ At(p, "idle") /\ Stops(p)
  /\ lock' = IF lock.by = p THEN [lock EXCEPT !.by = "dead"] ELSE lock
  /\ UNCHANGED <<overlapped, copyVars, target>>

ProcessStep(p) ==
  \/ StartsRun(p) \/ WriteLock(p) \/ JudgeLock(p) \/ RemoveStaleLock(p) \/ ClaimAgain(p)
  \/ CheckToken(p) \/ ReleaseLock(p)
  \/ TakeDump(p) \/ TransferArtifact(p) \/ OffHostVerify(p) \/ LoadToRecord(p)
  \/ RecordVerified(p) \/ RetentionOnly(p) \/ SelectRetention(p) \/ DeleteRemote(p)
  \/ SaveLedger(p)
  \/ Recover(p) \/ CheckTarget(p) \/ BeginRestore(p) \/ FinishRestore(p) \/ ReportDrill(p)
  \/ Dies(p)

BackupNext == \E p \in Processes : ProcessStep(p)

BackupSpec == BackupInit /\ [][BackupNext]_backupVars

-----------------------------------------------------------------------------
(* Properties                                                              *)

\* offhost_backup.py:1-30, 697 and db_recovery_drill.py:640: as long as no process removed
\* the lock of a living one, the newest entry of the ledger can be fetched, and no verified
\* dump that is still off the host is missing from the ledger.  A drill whose restore has
\* succeeded checks its own dump, all of it.
BackupsAreRecoverable ==
  /\ \/ overlapped
     \/ /\ ledger # {} => Max(ledger) \in remote
        /\ verified \cap remote \subseteq ledger
  /\ \A p \in Processes :
       At(p, "restored") => target = [dump |-> process[p].dump, whole |-> TRUE]
==============================================================================
