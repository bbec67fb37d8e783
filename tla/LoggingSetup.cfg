SPECIFICATION Spec
CONSTANTS
    Sessions = {s1, s2}
    Values = {"user", "pass"}
    MaxRecords = 2
    None = None
    s1 = s1
    s2 = s2
INVARIANTS
    TypeOK
    RecordsAreWrittenOnce
    LinesAreRedactedAlike
CHECK_DEADLOCK FALSE
