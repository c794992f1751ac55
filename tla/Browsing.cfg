SPECIFICATION FairSpec
CONSTANTS
    PageSize <- MCPageSize
    Tags = {"x", "y"}
    Matching = {"x"}
    MaxRows = 4
    MaxTime = 3
    None = None
INVARIANTS
    RequestsAreListedOnce
    NothingIsSkipped
    IdleConversationsAreListed
PROPERTIES
    EveryRowIsListedInTheEnd
