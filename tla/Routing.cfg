CONSTANTS
    Names <- MCNames
    Globs <- MCGlobs
    Matches <- MCMatches
    Providers = {"a", "b"}
    Slugs = {"s", "t"}
    None = None
    Configs <- MCConfigs
    Requests <- MCRequests
SPECIFICATION Spec
INVARIANTS
    PriorityHolds
    FoundIfRoutable
    RoutedAsListed
    PinsAreRespected
