SPECIFICATION FairSpec
CONSTANTS
    Pollers = {root, p1, p2}
    Root = root
    Bus = bus
    Exit = exit
    Faults = {"timer", "dbus", "callback", "int"}
INVARIANTS TypeOK RegisteredIsArmed ExitReleasesAll
PROPERTIES LoopSurvives PollersKeepPromise ServedInOrder ReadyIsServed SignalEnds
