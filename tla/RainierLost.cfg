SPECIFICATION Spec
CONSTANTS
    NumDrives = 1
    Paths = {0}
    Serials = {s1}
    None = None
    Located = Located
    Blank = Blank
    NoEntry = NoEntry
    Default = Default
    Faults = FALSE
    Restarts = TRUE
INVARIANT LostDriveIsAbsent
