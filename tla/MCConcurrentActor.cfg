CONSTANTS
    Service = {alice, bob}
    Closable = {bob}
    MaxRequests = 4
    MaxOther = 1
SPECIFICATION Spec
CHECK_DEADLOCK FALSE
INVARIANTS
    Exclusive
    CalledBack
    NotForgotten
PROPERTIES
    OrderKept
    Answered
