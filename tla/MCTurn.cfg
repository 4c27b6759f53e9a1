\* Two turns on two traces, one of them remote and bounded, with one MCP lease, two invoke
\* requests, one observer and a history of one handle; and a thread of five items under two
\* authorities.
SPECIFICATION SumSpec
CONSTANTS
    t1 = t1  t2 = t2  x1 = x1  x2 = x2  c1 = c1  c2 = c2
    Token = {t1, t2}
    Activity = {a1}
    Call = {c1, c2}
    Observer = {o1}
    Trace = {x1, x2}
    TraceOf <- TracePerToken
    External = {t2}
    Bounded = {t2}
    MAX_RETIRED_TURN_HANDLES = 1
    Authority <- TwoAuthorities
    Version <- ThreeVersions
    MAX_TURNS = 2
    MAX_ITEMS = 5
    MAX_FAULTS = 1
    Exchange <- ExchangeKeys
    Scrolls = FALSE
    Budget = 4
    Gap = 3
    Nap <- Naps
    MaxSleeps = 3
SYMMETRY CallSymmetry
INVARIANTS
    TypeOK InvocationBooks NobodyHangs
    AuthorityIsCurrent CurrentTaskIsServed ReadsItsOwnAnswer BudgetIsAwakeTime
PROPERTIES
    DeliversEachCallOnce RetiredHandleIsRemembered
CHECK_DEADLOCK FALSE
