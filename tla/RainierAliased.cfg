SPECIFICATION Spec
CONSTANTS
    Slots = {8, 10}
    Indices = {0}
    Faults = FALSE
PROPERTIES EmptySlotErasesNothing
