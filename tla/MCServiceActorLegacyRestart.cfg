CONSTANTS
    Systems = {"embassy"}
    Faults = {}
    MaxRequests = 5
    MaxLate = 2
SPECIFICATION Spec
CHECK_DEADLOCK FALSE
PROPERTY RestartSurvivesStart
