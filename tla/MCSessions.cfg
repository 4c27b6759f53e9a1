\* A steered turn and its reconnect; a compacted turn with one cancellation; two requests for a
\* compaction, with two runs, one cancellation and one tool call.
SPECIFICATION SumSpec
CONSTANTS
    r1 = r1  r2 = r2  r3 = r3  r4 = r4  r5 = r5
    k1 = k1  k2 = k2  k3 = k3
    o1 = o1  t1 = t1  c1 = c1  i1 = i1  i2 = i2
    Requests = {r1, r2, r3, r4, r5}
    Key = {k1, k2, k3}
    Owner = {o1}
    NativeTurn = {t1}
    Conversation = {c1}
    Instruction = {i1, i2}
    NoConversation = NoConversation
    NoSession = NoSession
    Info <- SessionInfo
    MAX_CHATGPT_BROWSER_TABS = 1
    MAX_SESSIONS = 3
    MAX_CANCELS = 1
    q1 = q1  q2 = q2  kk1 = kk1  kk2 = kk2  u1 = u1
    Compacts = {q1, q2}
    CompactKey = {kk1, kk2}
    KeyOf <- KeyOfAsk
    TurnOf <- TurnOfKey
    NoRun = NoRun
    MAX_RUNS = 2
    MAX_ABORTS = 1
    MAX_CALLS = 1
INVARIANTS
    SessionInv CompactionInv
PROPERTIES
    SupersessionHolds CompactionEnds
CHECK_DEADLOCK FALSE
