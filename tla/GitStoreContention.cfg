CONSTANTS
    a = a  b = b  c = c
    scan = scan  feedback = feedback
    Procs = {scan, feedback}
    ScanProc = scan
    Writers = {a, b, c}
    ProcOf <- MCProcOf
    Streams = {findings, directives}
    Docs = {snap}
    NoDoc = NoDoc
    Free = Free
    Stale = Stale
    Nobody = Nobody
    MaxRetries = 3
    MaxSync = 2
    MaxCalls = 1
    MaxCursor = 1
    MaxFaults = 1
    MaxCrashes = 1
    MaxOperator = 1
SYMMETRY Symmetry
SPECIFICATION Spec
CHECK_DEADLOCK FALSE
INVARIANTS
    TypeOK AckedDurable NoSilentDrift
PROPERTIES
    ImplementsLog
