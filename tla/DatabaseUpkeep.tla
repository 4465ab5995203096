--------------------------- MODULE DatabaseUpkeep ---------------------------
(***************************************************************************)
(* The rest of the database (db/index.ts): the schema every operation      *)
(* creates on demand, the scheduled copies and their rotation, the log     *)
(* events, and the cleanup of the data management workflow.  MsPerDay      *)
(* stands for the milliseconds of a day.                                   *)
(***************************************************************************)
EXTENDS Integers

CONSTANTS Users, FirstDay, LastDay, MsPerDay, RetentionDays,
          MaxBackups,
          NeverCleaned, MaxTimers, MaxCopies   \* MaxTimers and MaxCopies bound the model

VARIABLES connection,     \* "open" or "closed": the handle of better-sqlite3
          initialized,
          reached,        \* how far each user's call is: "idle", "version", ..., "run"
          created,        \* the tables there are: 0, 1 (schema_version) or 2 (all)
          timers, interval,  \* backup timers that run, and whether the field holds one
          copies,         \* copies begun and not written yet
          rotations,      \* listings of the directory asked for
          files,          \* backups in the directory
          events,         \* the days that have log events
          today, lastCleanup

upkeepVars == <<connection, initialized, reached, created, timers, interval, copies, rotations,
                files, events, today, lastCleanup>>
schema == <<connection, initialized, created, timers, interval>>
backups == <<copies, rotations, files>>
journal == <<events, today, lastCleanup>>

UpkeepInit ==
  /\ connection = "open" /\ initialized = FALSE /\ reached = [u \in Users |-> "idle"]
  /\ created = 0 /\ timers = 0 /\ interval = FALSE
  /\ copies = 0 /\ rotations = 0 /\ files = 0
  /\ events = {} /\ today = FirstDay /\ lastCleanup = NeverCleaned

Reach(u, s) == reached' = [reached EXCEPT ![u] = s]

(* Every operation initialises first, with awaits that let others do so too.*)
BeginOperation(u) == /\ reached[u] = "idle"
                     /\ Reach(u, IF initialized THEN "run" ELSE "version")
                     /\ UNCHANGED <<schema, backups, journal>>
CreateVersionTable(u) == /\ reached[u] = "version" /\ connection = "open"
                         /\ created' = IF created = 0 THEN 1 ELSE created
                         /\ Reach(u, "migrate")
                         /\ UNCHANGED <<connection, initialized, timers, interval, backups, journal>>
MigrateAndFlag(u) == /\ reached[u] = "migrate" /\ connection = "open" /\ created >= 1
                     /\ initialized' = TRUE /\ Reach(u, "schema")  \* the flag before the tables
                     /\ UNCHANGED <<connection, created, timers, interval, backups, journal>>
MigrateSchema(u) == /\ reached[u] = "migrate" /\ connection = "open" /\ created >= 1
                    /\ Reach(u, "schema") /\ UNCHANGED <<schema, backups, journal>>

(* createSchema(), which may stop between two tables ... *)
CreateSchema(u) == /\ reached[u] = "schema" /\ connection = "open"
                   /\ created' = 2
                   /\ Reach(u, "ready")
                   /\ UNCHANGED <<connection, initialized, timers, interval, backups, journal>>
(* ... and then the timer and the flag. *)
Initialized(u) == /\ reached[u] = "ready" /\ timers < MaxTimers
                  /\ timers' = timers + 1 /\ interval' = TRUE
                  /\ initialized' = TRUE
                  /\ Reach(u, "run")
                  /\ UNCHANGED <<connection, created, backups, journal>>
OperationThrows(u) == /\ reached[u] \notin {"idle", "ready"} /\ Reach(u, "idle")
                      /\ UNCHANGED <<schema, backups, journal>>

Writes(u) == reached[u] = "run" /\ connection = "open" /\ Reach(u, "idle")
Operate(u) == Writes(u) /\ UNCHANGED <<schema, backups, journal>>
AddLogEvent(u) == /\ Writes(u) /\ events' = events \cup {today}
                  /\ UNCHANGED <<schema, backups, today, lastCleanup>>

(* pruneOldLogEvents() takes a number of days, and executeCleanup() of the  *)
(* workflow gives it a point in time.                                       *)
PrunedBefore(days) == {e \in events : e * MsPerDay >= (today - days) * MsPerDay}
CutoffTime == (today - RetentionDays) * MsPerDay
CleanupOldEvents(u) == /\ Writes(u) /\ events' = PrunedBefore(CutoffTime)
                       /\ lastCleanup' = today
                       /\ UNCHANGED <<schema, backups, today>>
DayPasses == /\ today < LastDay /\ today' = today + 1
             /\ UNCHANGED <<reached, schema, backups, events, lastCleanup>>

(* createBackup() begins a copy nobody waits for, then lists the directory, *)
(* where the new file may not be yet, and deletes the oldest beyond the     *)
(* limit.                                                                   *)
CreateBackup == /\ timers > 0 /\ initialized
                /\ copies < MaxCopies /\ rotations < MaxCopies
                /\ copies' = copies + 1 /\ rotations' = rotations + 1
                /\ UNCHANGED <<reached, schema, files, journal>>
CopyEnds == /\ copies > 0 /\ copies' = copies - 1
            /\ \E written \in IF connection = "open" /\ files < MaxBackups + MaxCopies
                               THEN BOOLEAN ELSE {FALSE} :
                 files' = IF written THEN files + 1 ELSE files
            /\ UNCHANGED <<reached, schema, rotations, journal>>
CleanupOldBackups == /\ rotations > 0 /\ rotations' = rotations - 1
                     /\ files' = IF files > MaxBackups THEN MaxBackups ELSE files
                     /\ UNCHANGED <<reached, schema, copies, journal>>

(* close() stops the timer it knows of, then the handle, which may refuse.  *)
CloseDatabase ==
  /\ timers' = IF interval THEN timers - 1 ELSE timers
  /\ interval' = FALSE
  /\ \/ connection' = "closed" /\ initialized' = FALSE
     \/ UNCHANGED <<connection, initialized>>
  /\ UNCHANGED <<reached, created, backups, journal>>

(* The process dies, or has ended, and is started again.                    *)
RestartProcess ==
  /\ connection' = "open" /\ initialized' = FALSE /\ reached' = [u \in Users |-> "idle"]
  /\ timers' = 0 /\ interval' = FALSE /\ copies' = 0 /\ rotations' = 0
  /\ UNCHANGED <<created, files, journal>>

UpkeepNext ==
  \/ \E u \in Users : \/ BeginOperation(u) \/ CreateVersionTable(u) \/ MigrateSchema(u)
                      \/ CreateSchema(u) \/ Initialized(u) \/ OperationThrows(u)
                      \/ Operate(u) \/ AddLogEvent(u) \/ CleanupOldEvents(u)
  \/ DayPasses \/ CreateBackup \/ CopyEnds \/ CleanupOldBackups \/ CloseDatabase \/ RestartProcess

UpkeepSpec == UpkeepInit /\ [][UpkeepNext]_upkeepVars

-----------------------------------------------------------------------------
(* An operation only gets to its statements when all the tables are there,  *)
(* whichever call created them, failed halfway or is still at it, and also  *)
(* after the process died in the middle.                                    *)
TablesBeforeStatements == \A u \in Users : reached[u] = "run" => created = 2

(* Not so: events older than the retention stay, for good.                  *)
OldEventsGo == lastCleanup = today => \A e \in events : e >= today - RetentionDays

(* Not so: two calls that initialise at once start two timers, and close()  *)
(* stops one.                                                               *)
ClosedStopsBackups == connection = "closed" => timers = 0

(* Not so: the rotation does not see the copy it is the rotation of.        *)
BackupsBounded == copies = 0 /\ rotations = 0 => files <= MaxBackups
=============================================================================
