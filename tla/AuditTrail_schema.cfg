SPECIFICATION AuditSpec
CONSTANTS
    a1 = a1
    a2 = a2
    Recorders <- OneRecorder
    PageSize = 1
    MaxClock = 1
    MaxRecords = 2
INVARIANT UntamperedVerifies
CHECK_DEADLOCK FALSE
