CONSTANTS
    MaxInbox = 2
    MaxTurns = 1
    MaxTicks = 1
    MaxBoots = 5
    MaxFaults = 1
    MaxDeaths = 1
SPECIFICATION Spec
CHECK_DEADLOCK FALSE
INVARIANTS
    TypeOK AnsweredBeforeDone
PROPERTIES
    SessionSpec QuestionAnswered
