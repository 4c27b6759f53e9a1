SPECIFICATION Spec
CONSTANTS
    Request = {r1, r2}
    Turn = {t1}
    NoTurn = NoTurn
    MaxInterrupted = 1
    MaxExternal = 1
    Client = {c1, c2}
    MaxSaid = 3
    MaxBuffered = 2
    Reply = {p1, p2, p3}
    Big = {p3}
    NoReply = NoReply
    MaxStored = 2
    MaxOnDisk = 1
INVARIANTS
    ShutdownCutsNothing
PROPERTIES
    AbortsHold CatalogHolds StreamHolds HistoryHolds
CHECK_DEADLOCK FALSE
