CONSTANTS
    mapping = mapping
    miss1 = miss1
    miss2 = miss2
    detector = detector
    Runs = {r1, r2}
    DataGaps = {mapping}
    CodeGaps = {miss1, miss2}
    Detector <- MCDetector
    Batches <- MCBatches
    MaxAttempts = 2
    MaxStarts = 2
    MaxFaults = 1
SPECIFICATION Spec
CHECK_DEADLOCK FALSE
INVARIANTS
    TypeOK RejectSetIsExact OnlyCertifiedIsApplied SessionsAreClosed
PROPERTY
    EveryRunEnds
