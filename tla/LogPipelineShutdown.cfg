SPECIFICATION Spec
CONSTANTS
    e1 = e1
    e2 = e2
    e3 = e3
    e4 = e4
    p1 = p1
    p2 = p2
    Entries <- MCEntries
    Providers <- MCProviders
    ProviderOf <- MCProviderOf
    Unstorable = {}
    InitialRows <- MCSomeRows
    QueueSize = 2
    BatchSize = 2
INVARIANT ShutdownFlushesRemaining
