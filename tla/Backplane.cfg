SPECIFICATION FairSpec
CONSTANTS
    NumDrives = 2
    Serials = {s1}
    None = None
    Blank = Blank
    ReleasesChip = TRUE
    Faults = TRUE
INVARIANTS TypeOK NoDanglingSink WatchedDriveMatches ReleasedWithBackplane
PROPERTIES ItemsKeepPromise HostPowerNeverUnplugs ExitLeavesInventory GoneDriveWithdrawn SeatedDriveAnnounced LostBackplaneWithdrawn
