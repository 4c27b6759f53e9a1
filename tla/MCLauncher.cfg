\* Two set-ups; an update with failures and a power cut; a tab with one fault and one lost page.
SPECIFICATION Spec
CONSTANTS
    Setting = {"bigger", "approve", "zeroPro"}
    MAX_SETUPS = 2
    MAX_SETUP_FAULTS = 1
    MAX_BOOTS = 2
    CommitCanFail = FALSE
    FoundOwners = {"none", "external", "launcher"}
    UpdatePlatform = {"darwin", "win32", "linux"}
    MAX_RELEASE = 2
    UPDATE_RETRIES = 1
    MAX_UPDATE_FAULTS = 3
    MAX_POWER_CUTS = 1
    Parts = 2
    MaxRebinds = 1
    MaxFaults = 1
INVARIANTS
    BrowserTurnInv
PROPERTIES
    SetupHolds UpdateHolds CancelledTurnEnds
CHECK_DEADLOCK FALSE
