--------------------------- MODULE DataManagement ---------------------------
(***************************************************************************)
(* The DataManagementWorkflowCoordinator of                                *)
(* core/workflows/data-management-workflow.ts: an interval timer for       *)
(* backups and one for cleanups, each kept in a field.  Setting a field    *)
(* does not stop the timer it held; clearInterval() does.  So there can be *)
(* timers that run and are in no field: they are lost, nothing will clear  *)
(* them.                                                                   *)
(*                                                                         *)
(* A backup takes time (its await of 100 ms), and startDataManagement()    *)
(* and handleConfigurationUpdate() wait for the backup they begin before   *)
(* they go on to the cleanups.  A cleanup is done within one step: it only *)
(* waits for the synchronous database, so that nobody sees its status      *)
(* IN_PROGRESS and nothing depends on it.                                  *)
(***************************************************************************)
EXTENDS Naturals

CONSTANT MaxLost     \* bound: the timers that can be lost

ASSUME MaxLostAssumption == MaxLost \in Nat

VARIABLES timers,         \* field: whether it holds a running timer; lost: how many run in no field
          backupStatus,   \* workflowState.backupStatus
          waiting,        \* who waits for the backup in progress, to go on with the cleanups
          enabled         \* backupConfig.enabled and cleanupConfig.enabled

dataVars == <<timers, backupStatus, waiting, enabled>>

Kinds == {"backup", "cleanup"}

DataInit ==
  /\ timers = [field |-> [k \in Kinds |-> FALSE], lost |-> [k \in Kinds |-> 0]]
  /\ backupStatus = "IDLE"
  /\ waiting = "nobody"
  /\ enabled \in [Kinds -> BOOLEAN]
-----------------------------------------------------------------------------
(* setInterval() into a field, whatever the field held. *)
Started(d, k) ==
  [field |-> [d.field EXCEPT ![k] = TRUE],
   lost |-> IF d.field[k] THEN [d.lost EXCEPT ![k] = @ + 1] ELSE d.lost]

(* clearInterval() of a field. *)
Cleared(d, k) == [d EXCEPT !.field = [@ EXCEPT ![k] = FALSE]]

(* A faulty variant: the old timer is not cleared. *)
RestartedOnly(d, k, on) == IF on THEN Started(d, k) ELSE d

(* The part of an update of the configuration for one kind of timer. *)
Restarted(d, k, on) == IF on THEN Started(Cleared(d, k), k) ELSE Cleared(d, k)

LostWithinBound(d) == \A k \in Kinds : d.lost[k] <= MaxLost

(* startDataManagement(); there has been no backup, so the first begins. *)
StartData ==
  /\ backupStatus = "IDLE"
  /\ UNCHANGED enabled
  /\ IF enabled["backup"]
     THEN /\ timers' = Started(timers, "backup")
          /\ backupStatus' = "IN_PROGRESS" /\ waiting' = "start"
     ELSE /\ timers' = IF enabled["cleanup"] THEN Started(timers, "cleanup") ELSE timers
          /\ UNCHANGED <<backupStatus, waiting>>

(* stopDataManagement() *)
StopData ==
  /\ timers' = Cleared(Cleared(timers, "backup"), "cleanup")
  /\ UNCHANGED <<backupStatus, waiting, enabled>>

(***************************************************************************)
(* handleConfigurationUpdate() with a section for the backups, the         *)
(* cleanups or both.  A backup is begun unless one was done recently; if   *)
(* one is in progress, the update does not wait for it.                    *)
(***************************************************************************)
ConfigUpdate(sections) ==
  \E e \in [Kinds -> BOOLEAN] :
    /\ \A k \in Kinds \ sections : e[k] = enabled[k]
    /\ LET d == IF "backup" \in sections THEN Restarted(timers, "backup", e["backup"]) ELSE timers
           whole == IF "cleanup" \in sections THEN Restarted(d, "cleanup", e["cleanup"]) ELSE d
       IN \/ /\ timers' = whole /\ LostWithinBound(whole)
             /\ enabled' = e
             /\ UNCHANGED <<backupStatus, waiting>>
          \/ /\ "backup" \in sections /\ e["backup"] /\ backupStatus # "IN_PROGRESS"
             /\ timers' = d /\ LostWithinBound(d)
             /\ enabled' = [enabled EXCEPT !["backup"] = TRUE]
             /\ backupStatus' = "IN_PROGRESS"
             /\ waiting' = IF "cleanup" \in sections THEN "update" ELSE "nobody"

(* A timer fires, or BACKUP_DATA is asked for: executeBackup(). *)
BackupAsked ==
  /\ backupStatus # "IN_PROGRESS"
  /\ backupStatus' = "IN_PROGRESS"
  /\ UNCHANGED <<timers, waiting, enabled>>

(* The backup is complete, and who waited for it goes on with the cleanups. *)
BackupDone ==
  /\ backupStatus = "IN_PROGRESS"
  /\ backupStatus' = "COMPLETED" /\ waiting' = "nobody"
  /\ \/ waiting = "nobody" /\ UNCHANGED <<timers, enabled>>
     \/ /\ waiting = "start"
        /\ timers' = IF enabled["cleanup"] THEN Started(timers, "cleanup") ELSE timers
        /\ LostWithinBound(timers')
        /\ UNCHANGED enabled
     \/ /\ waiting = "update"
        /\ \E on \in BOOLEAN : /\ enabled' = [enabled EXCEPT !["cleanup"] = on]
                               /\ timers' = Restarted(timers, "cleanup", on)
-----------------------------------------------------------------------------
DataTypeOK ==
  /\ timers \in [field : [Kinds -> BOOLEAN], lost : [Kinds -> 0..MaxLost]]
  /\ backupStatus \in {"IDLE", "IN_PROGRESS", "COMPLETED"}
  /\ waiting \in {"nobody", "start", "update"}
  /\ enabled \in [Kinds -> BOOLEAN]
  /\ waiting # "nobody" => backupStatus = "IN_PROGRESS"

(* The timer for backups that runs is always the one its field can clear. *)
BackupTimerIsKept == timers.lost["backup"] = 0

(***************************************************************************)
(* "Restart cleanup workflow with new settings": so is the one for         *)
(* cleanups.                                                               *)
(***************************************************************************)
CleanupTimerIsKept == timers.lost["cleanup"] = 0
=============================================================================
