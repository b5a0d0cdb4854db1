CONSTANTS
    Scans = {s1,s2}
    Doctor = doctor
    Keys = {k1}
    MaxRows = 1
    MaxFindings = 2
    MaxDirectives = 1
    MaxChanges = 1
    MaxFaults = 1
SPECIFICATION SteeringSpec
CHECK_DEADLOCK FALSE
INVARIANTS
    SteeringTypeOK GrantHistoryIsHonest CountsAreHonest
PROPERTY
    AllSettles
