\* Three clicks (connect, disconnect, connect), one address, one target.
CONSTANTS
    Callers = {1, 2, 3}
    Sessions = {s1}
    Targets = {t1}
    None = None
    Outcomes <- OneOutcome
    MaxRecreations = 0
    MaxRequests = 0
SPECIFICATION UiFairSpec
PROPERTY LossIsReceived
CHECK_DEADLOCK FALSE
