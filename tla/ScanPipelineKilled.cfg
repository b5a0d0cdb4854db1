CONSTANTS
    aws = aws  file = file
    mallory = mallory  alice = alice
    SourceOrder <- MCSourceOrder
    Cursored = {aws}
    Events <- MCEvents
    ActorOf <- MCActorOf
    Alarming <- MCAlarming
    MaxScans = 3
    MaxFaults = 1
    MaxRotations = 0
    MaxDirectives = 0
SPECIFICATION Spec
CHECK_DEADLOCK FALSE
INVARIANTS
    StoredWasFlagged
