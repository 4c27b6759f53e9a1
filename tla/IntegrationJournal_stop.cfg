\* A process that stops between two writes.
SPECIFICATION JournalSpec
CONSTANTS
    UserUrl = {u1}
    BridgeUrl = {b1, b2}
    Absent = Absent
    None = None
    Unreadable = Unreadable
    Idle = Idle
    MAX_JOURNAL_FAULTS = 1
    MAX_CRASHES = 1
    MAX_EDITS = 0
INVARIANTS
    StopIsUnambiguous
CHECK_DEADLOCK FALSE
