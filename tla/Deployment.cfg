CONSTANTS
    s1 = s1  s2 = s2  s3 = s3  c1 = c1
    Operator = Operator
    Scans = {s1, s2, s3}
    Chats = {c1}
    MaxFaults = 1
    MaxSilences = 1
    MaxReports = 1
    MaxDecisions = 1
SYMMETRY Symmetry
SPECIFICATION Spec
CHECK_DEADLOCK FALSE
INVARIANTS
    TypeOK VerdictIsPublished RedHasReason
