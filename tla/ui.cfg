\* Two clicks, two addresses, one target, one certificate request, one
\* recreation of the activity. No symmetry: it is unsound for liveness.
CONSTANTS
    Callers = {1, 2}
    Sessions = {s1, s2}
    Targets = {t1}
    None = None
    Outcomes <- TwoOutcomes
    MaxRecreations = 1
    MaxRequests = 1
SPECIFICATION UiFairSpec
INVARIANTS
    UiTypeOK
    StatusIsTrue
    PromptIsOnItsWay
PROPERTIES
    StatusSettles
    LossIsShown
CHECK_DEADLOCK FALSE
