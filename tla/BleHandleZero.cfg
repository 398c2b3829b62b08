SPECIFICATION Spec
CONSTANTS
    Addrs = {a1, a2}
    MaxDevices = 2
    None = None
    Handles = {0, 1}
    Cids = {1, 2, 3}
INVARIANT
    PilotLinked
