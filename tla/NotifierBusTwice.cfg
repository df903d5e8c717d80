SPECIFICATION Spec
CONSTANTS
    Pollers = {root, p1, p2}
    Root = root
    Bus = bus
    Exit = exit
    Faults = {"dbus"}
PROPERTY RemovedAgainIsSkipped
