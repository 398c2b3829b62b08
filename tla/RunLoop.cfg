SPECIFICATION Spec
CONSTANTS
    Bytes <- PacketBytes
    Zero <- ZeroByte
    size = 8
    Lens = {1, 3}
    MaxPackets = 3
    CmdMax = 2
    MaxCalls = 3
INVARIANTS
    PacketsWhole
    CallsInOrder
PROPERTIES
    IsFifo
    OverrunOnlyWhenFull
    PacketsArrive
    CallsRun
