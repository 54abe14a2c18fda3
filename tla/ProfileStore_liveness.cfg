\* Two goroutines, two paths: every store call returns under fairness when
\* profiles do not call back into the store.
CONSTANTS
    t1 = t1
    t2 = t2
    t3 = t3
    p1 = p1
    p2 = p2
    Threads <- MCThreads2
    Paths <- MCPaths2
    EntryVersions <- MCEntryVersions
    CasValues <- MCCasValues
    NestedOps = {}
    MaxDispatch = 1
    NoEntry = NoEntry
    NoCas = NoCas
    NoThread = NoThread
SPECIFICATION FairSpec
PROPERTY OpsComplete
