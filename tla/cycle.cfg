SPECIFICATION Spec
CONSTANTS
    DayLength = 48
    Offset = 16
    Cutoff = 30
    DueTime = 33
    Span = 384
    MaxAge = 60
INVARIANTS
    DeadlineIsFirstDueAfterGrace
    BadgeCoversPending
    WeekPagesPartition
PROPERTIES
    StateMovesForward
CHECK_DEADLOCK FALSE
