SPECIFICATION Spec
CONSTANTS
    NumDrives = 1
    Paths = {0}
    Serials = {s1, s2}
    None = None
    Located = Located
    Blank = Blank
    NoEntry = NoEntry
    Default = Default
    Faults = TRUE
    Restarts = TRUE
SYMMETRY SerialSymmetry
INVARIANTS TypeOK WatchedMirrorsCache
PROPERTIES PlatformSpec AnnouncedWhole PowerOffKeepsDescription
