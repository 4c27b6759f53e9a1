\* One bounded turn and one tool call of ChatGPT, with a lost observer and a compaction; a
\* task of three turns; two daemons and two callers.
SPECIFICATION SumSpec
CONSTANTS
    turn = t1  observer = o1  x1 = x1
    Token = {t1}
    Activity = {a1}
    Call = {a1}
    Observer = {o1}
    Trace = {x1}
    TraceOf <- OneTrace
    External = {}
    Bounded = {t1}
    MAX_RETIRED_TURN_HANDLES = 1
    COMPACTS = TRUE
    MAX_OBSERVER_LOSSES = 1
    AnswerText = {"done", "x"}
    Page <- Pages
    MAX_TASK_TURNS = 3
    MAX_SAID = 3
    MAX_STORED = 2
    MAX_MISHAPS = 1
    Daemon = {d1, d2}
    Caller = {u1, u2}
    Method = {"owner_register", "owner_next", "owner_complete"}
    OneStarter = TRUE
    InodeReuse = FALSE
    MAX_BINDS = 3
    MAX_CALLS_EACH = 1
    MAX_CUTS = 1
INVARIANTS
    NativeInv CheckpointInv
PROPERTIES
    NativeTurnEnds EndpointHolds
CHECK_DEADLOCK FALSE
