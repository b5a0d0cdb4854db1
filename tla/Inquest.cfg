CONSTANTS
    burst = burst
    Findings = {1, 2, 3}
    CaseOf <- MCCaseOf
    Operational = {1}
    MaxPerScan = 2
    MaxDeepPerScan = 2
    MaxTracked = 2
    MaxScans = 3
    MaxFaults = 2
SPECIFICATION InquestSpec
CHECK_DEADLOCK FALSE
INVARIANT
    RecordsAreWhole
PROPERTIES
    RecordHolds ChangeIsFlagged RevotedOnDeepEvidence
