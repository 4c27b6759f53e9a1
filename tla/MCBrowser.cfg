SPECIFICATION Spec
CONSTANTS
    t1 = t1
    t2 = t2
    c1 = c1
    Trace = {t1, t2}
    Frail = {h1}
    ConversationOf <- SameConversation
    Helper = {h1, h2}
    Conversation = {c1}
    NoConversation = NoConversation
    MaxTabs = 2
    MaxCancelled = 1
    MaxCreated = 2
    MaxFaults = 1
    MaxChanges = 2
INVARIANTS HostInv SignInInv
PROPERTIES LiveTurnKeepsItsTab SignInProceeds
CHECK_DEADLOCK FALSE
