SPECIFICATION FairSpec
CONSTANTS
    None = None
    Null = Null
    Blank = Blank
    NoEffort = NoEffort
    t = t
    fixed = fixed
    low = low
    gemini = gemini
    gemma = gemma
    other = other
    fwOther = fwOther
    prefixed = prefixed
    Texts <- MCTexts
    Models <- MCModels
    Gemini = {gemini}
    Gemma = {gemma}
    Full <- MCFull
    Pins = {"pins", "mine"}
    Keys <- MCKeys
    EmptyKey = "empty"
    ProviderKeys = {"op", "op2", "opG", "own1", "own2"}
    Names <- MCNames
    Providers <- MCProviders
    Configs <- MCConfigs
    Requests <- MCRequests
    MaxReloads = 2
INVARIANTS
    KeyIsolation
    TenantsUseTheirKeys
    PinsReachTheProvider
    ThinkingAsAsked
    StreamAsAsked
PROPERTIES
    Answered
