SPECIFICATION Spec
CONSTANTS
    a1 = a1  a2 = a2
    Admins = {a1, a2}
    MaxVersion = 1
INVARIANT ReloadIsCurrent
CHECK_DEADLOCK FALSE
