SPECIFICATION Spec
CONSTANTS
    p1 = p1
    p2 = p2
    k1 = k1
    Missing = Missing
    Providers <- MCProviders
    Keys <- MCKeys
    MainContents <- MCMainContents
    SecretContents <- MCSecretContents
    MaxEdits = 3
CHECK_DEADLOCK FALSE
PROPERTY LastKnownGoodStaysActive
