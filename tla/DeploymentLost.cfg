CONSTANTS
    s1 = s1  s2 = s2  s3 = s3  c1 = c1
    Operator = Operator
    Scans = {s1, s2}
    Chats = {c1}
    MaxFaults = 0
    MaxSilences = 0
    MaxReports = 0
    MaxDecisions = 1
SPECIFICATION Spec
CHECK_DEADLOCK FALSE
INVARIANTS
    DecisionsLand
