\* Successful writes to one profile: does the store maintain its version
\* and its cas_required flag?
CONSTANTS
    t1 = t1
    t2 = t2
    t3 = t3
    p1 = p1
    p2 = p2
    Threads <- MCThreads2
    Paths <- MCPaths1
    EntryVersions <- MCEntryVersions
    CasValues <- MCCasValues
    NestedOps = {}
    MaxDispatch = 1
    NoEntry = NoEntry
    NoCas = NoCas
    NoThread = NoThread
SPECIFICATION Spec
PROPERTY SetMaintainsEntry
