CONSTANTS
    Callers = {c1, c2}
    Texts = {t1, t2}
    Procs = {p1, p2}
    MaxCalls = 4
    MaxNoise = 1
    None = None
SPECIFICATION Spec
CHECK_DEADLOCK FALSE
INVARIANTS AnswersMatch RunningIsClosable DegradedForAReason
PROPERTY EveryCallReturns
