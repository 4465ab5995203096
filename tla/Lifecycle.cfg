SPECIFICATION FairSpec
CONSTANT MaxLost = 2
INVARIANTS StateIsTrue BackupTimerIsKept
PROPERTIES SentWhenRecordable ShutdownEnds
CHECK_DEADLOCK FALSE
