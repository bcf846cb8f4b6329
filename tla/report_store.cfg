CONSTANTS
    r1 = r1  r2 = r2  h1 = h1  h2 = h2
    Reports = {r1, r2}
    Readers = {x}
    Probes = {q}
    Processes = {h1, h2}
    Retention = 2
    CleanupInterval = 1
    MaxTime = 3
    Nobody = Nobody
    NoPlace = NoPlace
SPECIFICATION Spec
SYMMETRY Interchangeable
CONSTRAINT ProbeAndCreate
INVARIANTS NeverHalfAReport CreatedStays FailedIsUnpublished CleanupLockIsReleased
PROPERTY CleanupIsComplete
CHECK_DEADLOCK FALSE
