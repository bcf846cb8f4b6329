CONSTANTS
    Vulns <- MCVulns
    Identifiers <- MCIdentifiers
    SeverityOf <- MCSeverityOf
    Names <- MCNames
    NormalForm <- MCNormalForm
    Blank = ""
    DefaultRepository = "default"
    GenericFormat = "generic"
    PolicyFiles <- MCPolicyFiles
    Requests <- MCRequests
    NoLimit = NoLimit
    MaxTime = 2
    Reports = {r1, r2}
    Targets = {image, chart}
    VulnIds = {v1, v2}
    NoCategory = NoCategory
SPECIFICATION VerdictSpec
SYMMETRY DojoSymmetry
INVARIANTS JudgesByTheFile LeniencyIsRecorded ExpiryIsReported
INVARIANTS LinkIsTheReport OneTestPerBlock FindingsAreWork StatusCountsItsFailure
PROPERTY NoBlockIsLifted
CHECK_DEADLOCK FALSE
