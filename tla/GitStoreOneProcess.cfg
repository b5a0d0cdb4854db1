CONSTANTS
    a = a  b = b  c = c
    scan = scan  feedback = feedback
    Procs = {scan}
    ScanProc = scan
    Writers = {a, b}
    ProcOf <- MCProcOf
    Streams = {findings}
    Docs = {snap}
    NoDoc = NoDoc
    Free = Free
    Stale = Stale
    Nobody = Nobody
    MaxRetries = 2
    MaxSync = 2
    MaxCalls = 2
    MaxCursor = 2
    MaxFaults = 1
    MaxCrashes = 1
    MaxOperator = 1
SPECIFICATION Spec
CHECK_DEADLOCK FALSE
INVARIANTS
    CursorSurvives ProgramOrder
PROPERTIES
    CallsReturn
