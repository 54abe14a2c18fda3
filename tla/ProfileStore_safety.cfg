\* Three goroutines racing Get, Set, Delete and Execute on one path, with
\* profiles whose requests read and write sys/profiles/manage while Execute
\* holds the read lock.  The store can stop (see the deadlock run), so
\* deadlock is not checked here; what it does before that is safe, and the
\* inductive invariant of the proofs holds.
CONSTANTS
    t1 = t1
    t2 = t2
    t3 = t3
    p1 = p1
    p2 = p2
    Threads <- MCThreads3
    Paths <- MCPaths1
    EntryVersions <- MCEntryVersions
    CasValues <- MCCasValues
    NestedOps = {"get", "set"}
    MaxDispatch = 1
    NoEntry = NoEntry
    NoCas = NoCas
    NoThread = NoThread
SPECIFICATION Spec
SYMMETRY Symmetry3
INVARIANT TypeOK
INVARIANT ExecuteSeesStableProfile
INVARIANT CasCheckFresh
INVARIANT IInv
CHECK_DEADLOCK FALSE
