CONSTANTS
    Events = {e1, e2, e3, e4}
    Capacity = 2
    None = None
SPECIFICATION Spec
CHECK_DEADLOCK FALSE
INVARIANTS NoneLostInside EarlyEventsForwarded AtMostOnce OnlyLateOnesOvertaken
PROPERTY AcceptedIsForwarded
