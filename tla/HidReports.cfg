SPECIFICATION Spec
CONSTANTS
    Devices <- AllPeers
    Reports <- MCReports
    PadValues <- PadRange
INVARIANT
    AxesInRange
PROPERTY
    StickOrder
