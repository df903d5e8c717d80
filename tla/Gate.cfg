SPECIFICATION ClientSpec
CONSTANTS
    Paths = {p1, p2}
    Serials = {s1, s2}
    Located = Located
    Blank = Blank
    NoEntry = NoEntry
    Default = Default
    Faults = FALSE
SYMMETRY ItemSymmetry
INVARIANTS DecoratorType PresentMirrorsCache AbsentIsBlank DefaultNeverPublished
