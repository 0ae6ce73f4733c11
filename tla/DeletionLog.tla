----------------------------- MODULE DeletionLog -----------------------------
(***************************************************************************)
(* The deletion log of OverlayFS (src/src/backend/OverlayFS.ts): the paths *)
(* deleted from the readable file system, kept in memory and written, all  *)
(* of it each time, to a file of the writable one.  A write is under way   *)
(* while the file system goes on; a deletion made meanwhile is written     *)
(* after it.                                                               *)
(***************************************************************************)
EXTENDS Trees

VARIABLES
  deleteLog,       \* _deleteLog; _deletedFiles holds the paths in it
  updatePending,   \* _deleteLogUpdatePending
  updateNeeded,    \* _deleteLogUpdateNeeded
  deleteLogError,  \* _deleteLogError is not null
  logFile,         \* the file at deletionLogPath, <<>> if there is none
  writing,         \* what the write under way is to leave there
  behind           \* history: the last write failed

logVars == <<deleteLog, updatePending, updateNeeded, deleteLogError, logFile, writing, behind>>

DeletedFiles == ToSet(deleteLog)

LogInit ==
  /\ deleteLog = <<>> /\ logFile = <<>> /\ writing = <<>>
  /\ updatePending = FALSE /\ updateNeeded = FALSE
  /\ deleteLogError = FALSE /\ behind = FALSE

UpdateLog(log) ==
  /\ deleteLog' = log
  /\ IF updatePending
     THEN updateNeeded' = TRUE /\ UNCHANGED <<updatePending, writing>>
     ELSE updatePending' = TRUE /\ writing' = log /\ UNCHANGED updateNeeded
  /\ UNCHANGED <<deleteLogError, logFile, behind>>

(* Mutant: the latest deletion first. *)
DeletePathFirst(p) == UpdateLog(<<p>> \o deleteLog)
DeletePath(p) == UpdateLog(Append(deleteLog, p))

(* writeFile empties the file before it writes. *)
EmptyLogFile ==
  /\ updatePending /\ logFile # <<>>
  /\ logFile' = <<>>
  /\ UNCHANGED <<deleteLog, updatePending, updateNeeded, deleteLogError, writing, behind>>

WriteLogFile ==
  /\ updatePending
  /\ logFile' = writing /\ behind' = FALSE
  /\ IF updateNeeded
     THEN updateNeeded' = FALSE /\ writing' = deleteLog /\ UNCHANGED updatePending
     ELSE updatePending' = FALSE /\ writing' = <<>> /\ UNCHANGED updateNeeded
  /\ UNCHANGED <<deleteLog, deleteLogError>>

FailLogFile ==
  /\ updatePending
  /\ updatePending' = FALSE /\ writing' = <<>>
  /\ deleteLogError' = TRUE /\ behind' = TRUE
  /\ UNCHANGED <<deleteLog, updateNeeded, logFile>>

(* checkInitialized, checkInitAsync: the next call gets the error. *)
ReportLogError == deleteLogError' = FALSE
                  /\ UNCHANGED <<deleteLog, updatePending, updateNeeded, logFile, writing, behind>>

(* The tab goes away; _initialize reads the file into a new log. *)
ReadLogFile ==
  /\ deleteLog' = logFile
  /\ updatePending' = FALSE /\ updateNeeded' = FALSE /\ writing' = <<>>
  /\ deleteLogError' = FALSE /\ behind' = FALSE
  /\ UNCHANGED logFile

LogWrites == EmptyLogFile \/ WriteLogFile \/ FailLogFile

LogNext ==
  \/ LogWrites
  \/ \E p \in Paths : DeletePath(p)
  \/ deleteLogError /\ ReportLogError
  \/ ReadLogFile

LogSpec == LogInit /\ [][LogNext]_logVars

----------------------------------------------------------------------------
LogTypeOK ==
  /\ deleteLog \in Seq(Paths) /\ logFile \in Seq(Paths) /\ writing \in Seq(Paths)
  /\ {updatePending, updateNeeded, deleteLogError, behind} \subseteq BOOLEAN

(* What is on disk is a beginning of the log, so that no deletion is found  *)
(* there without those before it; it is all of the log unless a write is    *)
(* under way or the last one failed, and the one under way either writes    *)
(* all of it or is known not to be the last.                                *)
LogOnDisk ==
  /\ IsPrefix(logFile, deleteLog)
  /\ ~ updatePending /\ ~ behind => logFile = deleteLog
  /\ updatePending => IsPrefix(writing, deleteLog)
  /\ updatePending /\ ~ updateNeeded => writing = deleteLog
=============================================================================
