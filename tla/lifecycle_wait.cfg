\* The instance of lifecycle.cfg.
CONSTANTS
    Callers = {c1, c2}
    Sessions = {s1, s2, s3, s4}
    Targets = {t1, t2}
    None = None
    Outcomes <- MCOutcomes
SYMMETRY MCSymmetry
SPECIFICATION Spec
INVARIANT
    WaitsOnOwnSession
