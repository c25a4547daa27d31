\* The liveness of two callers: no symmetry, one target, two addresses
\* (an address that is missing only makes nativeConnect fail to start).
CONSTANTS
    Callers = {c1, c2}
    Sessions = {s1, s2}
    Targets = {t1}
    None = None
    Outcomes <- OneOutcome
SPECIFICATION FairSpec
PROPERTIES
    CallsReturn
    StoppedSessionsEnd
