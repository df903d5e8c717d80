SPECIFICATION Spec
CONSTANTS
    NumObjects = 4
    PCIeSlots = {0, 1, 3}
    NVMeNames = {0, 3}
    Faults = TRUE
INVARIANTS TypeOK CleanBeforeRunning
PROPERTIES OthersUntouched CardVPDSurvives
