SPECIFICATION FairSpec
CONSTANTS
    NumDrives = 1
    Paths = {0}
    Serials = {s1, s2}
    None = None
    Located = Located
    Blank = Blank
    NoEntry = NoEntry
    Default = Default
    Faults = FALSE
    Restarts = TRUE
INVARIANTS BothDepopulatedIsBlank
PROPERTIES ItemsKeepPromise GoneDriveErased
