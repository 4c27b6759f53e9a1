\* Commands with failed writes and crashes; starts, stops and exits; two updaters of a checkout;
\* two Zero Risk turns; two accounts, counted in a daily and
\* a weekly window, through both.
SPECIFICATION Spec
CONSTANTS
    UserUrl = {u1}
    BridgeUrl = {b1, b2}
    Absent = Absent
    None = None
    Unreadable = Unreadable
    Idle = Idle
    MAX_JOURNAL_FAULTS = 2
    MAX_CRASHES = 2
    MAX_EDITS = 1
    MAX_TURNS = 1
    MAX_EXITS = 1
    MAX_FAULTS = 1
    MAX_STARTS = 2
    MAX_STOPS = 1
    MAX_WAKES = 1
    Updater = {"ui", "cli"}
    ScriptUpdater = {"cli"}
    LocalDoc = {"readme"}
    MAX_UPSTREAM = 1
    MAX_KILLS = 1
    MAX_SETBACKS = 1
    TakeoverGap = TRUE
    ManualTurn <- TwoTurns
    KeepsTab = TRUE
    MAX_SIGNALS = 2
    MAX_LATE = 1
    MAX_PIDS = 2
    Account = {"a", "b"}
    Family = {"six"}
    WeeklyFamily = {"six"}
    DAY = 1
    WEEK = 2
    EVENT_CAP = 1
    ACCOUNT_CAP = 1
    MAX_TIME = 2
    MAX_SENDS = 2
    MAX_CHECKS = 1
    MAX_LIMIT_FAULTS = 1
INVARIANTS
    SupervisorInv SourceInv ManualControlInv LimitsInv
PROPERTIES
    JournalHolds SupervisionHolds
CHECK_DEADLOCK FALSE
