SPECIFICATION FairSpec
CONSTANTS
    e1 = e1
    e2 = e2
    e3 = e3
    e4 = e4
    p1 = p1
    p2 = p2
    Entries <- MCEntries
    Providers <- MCProviders
    ProviderOf <- MCProviderOf
    Unstorable <- MCLastEntry
    InitialRows <- MCSomeRows
    QueueSize = 3
    BatchSize = 2
INVARIANTS
    Conservation
    NoLossWithoutFault
PROPERTIES
    LossPerStepBounded
    ImplementsAuditLog
    EntriesAreSettled
    ShutdownEnds
