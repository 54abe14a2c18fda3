\* A profile that reads a profile back through sys/profiles/manage, while
\* another goroutine writes: the nested RLock waits for the pending writer,
\* which waits for the outer RLock.
CONSTANTS
    t1 = t1
    t2 = t2
    t3 = t3
    p1 = p1
    p2 = p2
    Threads <- MCThreads2
    Paths <- MCPaths1
    EntryVersions <- MCEntryVersions
    CasValues <- MCCasValues
    NestedOps = {"get"}
    MaxDispatch = 1
    NoEntry = NoEntry
    NoCas = NoCas
    NoThread = NoThread
SPECIFICATION FairSpec
PROPERTY OpsComplete
CHECK_DEADLOCK FALSE
