SPECIFICATION LimiterSpec
CONSTANTS
    Limit = 2
    Interval = 3
    MaxTime = 10
    MaxMessages = 8
CHECK_DEADLOCK FALSE
INVARIANTS
    AtMostTwoBursts
PROPERTY
    OnlyExcessRefused
