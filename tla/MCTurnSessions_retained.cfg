\* A compaction that closes a retained conversation.
SPECIFICATION Spec
CONSTANTS
    r1 = r1  r2 = r2  r3 = r3
    k1 = k1  k2 = k2  k3 = k3
    o1 = o1
    t1 = t1
    c1 = c1
    i1 = i1  i2 = i2
    Requests = {r1, r2, r3}
    Key = {k1, k2, k3}
    Owner = {o1}
    NativeTurn = {t1}
    Conversation = {c1}
    Instruction = {i1, i2}
    NoConversation = NoConversation
    NoSession = NoSession
    Info <- RetainedInfo
    MAX_CHATGPT_BROWSER_TABS = 2
    MAX_SESSIONS = 3
    MAX_CANCELS = 0
INVARIANTS
    OneBrowserPerOwner
CHECK_DEADLOCK FALSE
