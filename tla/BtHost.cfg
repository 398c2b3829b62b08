SPECIFICATION HostSpec
CONSTANTS
    Addrs = {a1, a2, a3}
    MaxDevices = 2
    None = None
    Handles = {1, 2}
    Cids = {1, 2, 3}
    Fns = 2
INVARIANTS
    LostLinkNeutral
    InitCompleteOnce
    WakeUpOwed
PROPERTIES
    TimeoutSparesOthers
    CallbacksInOrder
    SlotsSettle
    SetupCompletes
