SPECIFICATION SourcesSpec
CONSTANTS
    web = web  db = db  old = old  new = new
    Images = {web, db}
    Blank = Blank
    Spellings <- MCSpellings
    Unquoted <- MCUnquoted
    Charts <- MCCharts
    Contents = {old, new}
    FindingsIn <- MCFindingsIn
    MaxAdvisory = 3
    NoToken = NoToken
    EmptyToken = EmptyToken
    Scopes = {"@org"}
    NormalForm <- MCNormalForm
    FormatName <- MCFormatName
    NoEcosystem = NoEcosystem
    Packages <- MCPackages
    Spelled <- MCSpelled
    Escaped <- MCEscaped
    Downloads <- MCDownloads
    NoPackage = NoPackage
INVARIANTS ScannedIsServed MergeIsComplete
PROPERTIES ChartKeepsContract QueryKeepsContract QueryEnds
CHECK_DEADLOCK FALSE
