SPECIFICATION FairSpec
CONSTANTS
    r1 = r1  r2 = r2
    Requests = {r1, r2}
    v = v  w = w  c0 = c0  c1 = c1  c2 = c2  NoBody = NoBody
    pkg = pkg  chart = chart  img = img  page = page  meta = meta  admin = admin
    strict = strict  lenient = lenient
    Targets = {chart, img, page, meta, admin}
    Kind <- MCKind
    Contents = {c2}
    Vulns = {v, w}
    Truth <- MCTruth
    MaxDb = 0
    Policies = {strict}
    Outcome <- MCOutcome
    Configs <- AllConfigs
    Permits = 1
    LogCapacity = 1
INVARIANTS TypeOK PermitsAccounted
PROPERTIES KeepsAdmission EveryRequestEnds
CHECK_DEADLOCK FALSE
