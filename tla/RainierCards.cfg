SPECIFICATION Spec
CONSTANTS
    Slots = {8, 9, 10}
    Indices = {0}
    Faults = TRUE
INVARIANTS TypeOK WatchedIsReached OnlyUnboundIsSkipped UnwatchedHasNoDevice NothingLeftInSysfs
PROPERTIES ExitKeepsDescriptions
