\* A completion is accepted before the Launcher has acknowledged the start.
SPECIFICATION ZeroRiskSpec
CONSTANTS
    k1 = k1  a1 = a1  a2 = a2
    SafeCall = {}
    Completion = {k1}
    SafeAnswer = {a1, a2}
    AnswerOf <- TwoAnswers
    RETAIN = TRUE
    FAULTS = 1
INVARIANT
    AcceptedAnswerSurvives
