SPECIFICATION SteamSpec
CONSTANTS
    Addrs = {a1, a2}
    MaxDevices = 2
    None = None
    Handles = {1, 2}
    Cids = {1, 2, 3}
INVARIANTS
    SteamTypeOK
    LostLinkNeutral
    ReportsAfterOwnSetup
    StuckSetupIsTimed
