\* The launcher's own installation is set up again: the new runtime is ready when the commit
\* that follows fails.
SPECIFICATION LSSpec
CONSTANTS
    Setting = {"bigger", "approve", "zeroPro"}
    MAX_SETUPS = 2
    MAX_SETUP_FAULTS = 1
    MAX_BOOTS = 1
    CommitCanFail = TRUE
    FoundOwners = {"launcher"}
INVARIANT
    RuntimeFitsItsConfig
CHECK_DEADLOCK FALSE
