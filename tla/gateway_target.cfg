SPECIFICATION Spec
CONSTANTS
    r1 = r1  r2 = r2
    Requests = {r1, r2}
    v = v  w = w  c0 = c0  c1 = c1  c2 = c2  NoBody = NoBody
    pkg = pkg  chart = chart  img = img  page = page  meta = meta  admin = admin
    strict = strict  lenient = lenient
    Targets = {pkg, chart, img}
    Kind <- MCKind
    Contents = {c0, c2}
    Vulns = {v, w}
    Truth <- MCTruth
    MaxDb = 1
    Policies = {strict, lenient}
    Outcome <- MCOutcome
    Configs <- BothConfigs
    Permits = 1
    LogCapacity = 2
CONSTRAINT OneTarget
SYMMETRY RequestSymmetry
INVARIANTS BlockIsFinal BlockSequence ReleaseIsJudged CacheIsEvidence
CHECK_DEADLOCK FALSE
