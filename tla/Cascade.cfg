CONSTANTS
    ConsensusRuns = 3
    Confidences = {0, 2, 3, 4}
    Citations = {2, 3}
    MaxPanics = 1
SPECIFICATION Spec
CHECK_DEADLOCK FALSE
INVARIANTS
    TypeOK EvidencedUnanimity CallsBounded
PROPERTIES
    Decided
