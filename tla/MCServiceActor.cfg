CONSTANTS
    Systems = {"startos", "embassy"}
    Faults = {"start", "stop", "status"}
    MaxRequests = 5
    MaxLate = 2
SPECIFICATION Spec
CHECK_DEADLOCK FALSE
INVARIANTS
    EntryMatchesMain
    BackupOnlyWhenStopped
    RestartRemembered
PROPERTIES
    IntentKept
    StopHonoured
    StartHonoured
    BackupAnswered
    QuiesceReturns
