\* A replayed tool batch; a trace that is run twice and a helper that exits; a Zero Risk
\* call and completion with a failed request.
SPECIFICATION Spec
CONSTANTS
    k1 = k1  a1 = a1  a2 = a2
    Call = {c1, c2}
    MAX_OBSERVER_LOSSES = 1
    MAX_CLOCK = 2
    Trace = {t1}
    NoTrace = NoTrace
    RUNS_PER_TRACE = 2
    MAX_EXITS = 1
    MAX_REQUESTS = 2
    SafeCall = {c1}
    Completion = {k1}
    SafeAnswer = {a1, a2}
    AnswerOf <- TwoAnswers
    RETAIN = TRUE
    FAULTS = 1
INVARIANTS
    ManualInv
PROPERTIES
    ProgressHolds RunsSettle ZeroRiskTurnEnds
CHECK_DEADLOCK FALSE
