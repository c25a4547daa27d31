CONSTANTS
    MaxPrompts = 1
    None = None
SPECIFICATION Spec
INVARIANT RefusalEndsConnect
