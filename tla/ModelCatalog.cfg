SPECIFICATION CatalogFairSpec
CONSTANTS
    Tasks = {t1, t2, t3}
    TTL = 2
    MaxGen = 2
    None = None
CHECK_DEADLOCK FALSE
INVARIANTS
    SingleFlight
    QuietReloadIsClean
PROPERTIES
    TasksEnd
