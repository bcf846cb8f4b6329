----------------------------- MODULE ScanSources -----------------------------
(***************************************************************************)
(* From the path of a download to the scan the request waits for: a query  *)
(* to OSV for a package, the scan of its images for a Helm chart, nothing  *)
(* for other paths.  Each source keeps ScanContract.                       *)
(***************************************************************************)
EXTENDS HelmChart, OsvQuery, Classifier

CONSTANTS
    Packages,      \* packages in the repositories: format, name, version
    Spelled,       \* Spelled[name]: how Python files spell a name
    Escaped,       \* Escaped[word]: how the Go proxy protocol writes capitals
    Downloads,     \* requests: context, method, path, and what is under the path
    NoPackage      \* an index, a checksum, a chart

VARIABLES
    download,      \* the request
    target         \* what classify_path made of it

pathVars == <<download, target>>
sourcesVars == <<vars, queryVars, pathVars>>

Unclassified == [kind |-> "unclassified"]
------------------------------------------------------------------------------
(* Where the clients of a format find the content of a release.             *)

File(parts, suffix) == [parts |-> parts, suffix |-> suffix]

MavenPaths(p) ==
    {p.name \o <<Text(p.version), File(Last(p.name).parts \o p.version \o classifier, "jar")>> :
        classifier \in {<<>>, <<"sources">>}}
NpmPaths(p) == {p.name \o <<Hyphen, File(Last(p.name).parts \o p.version, "tgz")>>}

\* PEP 503: a run of separators counts as one, so that the empty words between
\* its separators do not count.
EmptyWord == ""
NonEmpty(words) ==
    LET kept == {i \in DOMAIN words : words[i] # EmptyWord} IN
    [k \in 1..Cardinality(kept) |->
        words[CHOOSE i \in kept : Cardinality({j \in kept : j <= i}) = k]]
PypiName(parts) == <<Text(NonEmpty(PypiWords(parts)))>>

\* The name of a wheel has no hyphens.
PypiFiles(p, parts) ==
    {<<Word("packages"), File(parts \o p.version, suffix)>> : suffix \in {"tar.gz", "zip"}}
    \cup (IF Len(parts) = 1
          THEN {<<Word("packages"), File(parts \o p.version \o <<"py3", "none", "any">>, "whl")>>}
          ELSE {})
PypiPaths(p) == UNION {PypiFiles(p, parts) : parts \in Spelled[p.name]}
CargoPaths(p) ==
    {<<Word("api"), Word("v1"), Word("crates")>> \o p.name \o <<Text(p.version), Word("download")>>}

\* The protocol writes a capital as an exclamation mark and the small letter.
Escape(parts) ==
    [i \in DOMAIN parts |-> IF parts[i] \in DOMAIN Escaped THEN Escaped[parts[i]] ELSE parts[i]]
GoFiles(name, version) ==
    {name \o <<Word("@v"), File(version, suffix)>> : suffix \in {"zip", "mod", "info"}}
GoPaths(p) ==
    GoFiles([i \in DOMAIN p.name |-> [parts |-> Escape(p.name[i].parts), suffix |-> p.name[i].suffix]],
            Escape(p.version))

Layout(p) ==
    CASE p.format = "Maven" -> MavenPaths(p)
      [] p.format = "npm" -> NpmPaths(p)
      [] p.format = "PyPI" -> PypiPaths(p)
      [] p.format = "crates.io" -> CargoPaths(p)
      [] p.format = "Go" -> GoPaths(p)

\* The files whose path gives name and version letter by letter as OSV has
\* them, or with single separators of Python's choice.
PlainLayout(p) ==
    CASE p.format = "Go" -> GoPaths(p) \cap GoFiles(p.name, p.version)
      [] p.format = "PyPI" ->
            UNION {PypiFiles(p, parts) :
                      parts \in {spelling \in Spelled[p.name] :
                          \A i \in DOMAIN PypiWords(spelling) : PypiWords(spelling)[i] # EmptyWord}}
      [] OTHER -> Layout(p)

Segments == [parts : Seq(STRING) \ {<<>>}, suffix : STRING]

\* A release as it is published: a Maven artifact has a group, an npm package
\* perhaps a scope; Python versions have no hyphen; a Go module is not called @v.
Published(p) ==
    /\ p.name \in Seq(Segments)
    /\ p.version \in Seq(STRING) \ {<<>>}
    /\ \/ p.format = "Maven" /\ Len(p.name) >= 2
       \/ p.format = "npm" /\ Len(p.name) = 1
       \/ p.format = "npm" /\ Len(p.name) = 2 /\ p.name[1].parts[1] \in Scopes
       \/ p.format = "PyPI" /\ p.name \in DOMAIN Spelled /\ Len(p.version) = 1
       \/ p.format = "crates.io" /\ Len(p.name) = 1
       \/ p.format = "Go" /\ p.name # <<>> /\ \A i \in DOMAIN p.name : p.name[i] # Word("@v")

\* The repositories that hold releases of a format.
Holds(format, ecosystem) ==
    \/ format \in {"maven", "maven2"} /\ ecosystem = "Maven"
    \/ format = "npm" /\ ecosystem = "npm"
    \/ format \in {"pypi", "python"} /\ ecosystem = "PyPI"
    \/ format \in {"cargo", "rust", "rustcargo"} /\ ecosystem = "crates.io"
    \/ format \in {"go", "golang"} /\ ecosystem = "Go"

\* What else a repository of the format serves: indexes and lists, checksums
\* and metadata, files that have no version in their name or path.
NoRelease(format, s) ==
    \/ s = <<>>
    \/ \A ecosystem \in {"Maven", "npm", "PyPI", "crates.io", "Go"} : ~Holds(format, ecosystem)
    \/ /\ Holds(format, "Maven")
       /\ \/ Len(s) < 4
          \/ Last(s).suffix \in {"sidecar", "metadata"}
          \/ ~Includes(Last(s).parts, s[Len(s) - 1].parts)
    \/ /\ Holds(format, "npm")
       /\ \/ Last(s).suffix # "tgz" \/ Len(Last(s).parts) < 2
          \/ \A i \in 1..Len(s) : s[i] # Hyphen
    \/ /\ Holds(format, "PyPI")
       /\ Last(s).suffix \notin {"whl", "tar.gz", "zip", "tgz"} \/ Len(Last(s).parts) < 2
    \/ Holds(format, "crates.io") /\ \A i \in 1..Len(s) : s[i] # Word("download")
    \/ /\ Holds(format, "Go")
       /\ \A i \in 1..Len(s) : s[i] = Word("@v") =>
             i \in {1, Len(s)} \/ s[i + 1].suffix \notin {"zip", "mod", "info"}

ASSUME PackagesAssumption ==
    /\ \A p \in Packages : Published(p)
    /\ \A name \in DOMAIN Spelled : \A parts \in Spelled[name] :
          /\ parts \in Seq(STRING) \ {<<>>} /\ PypiWords(parts) \in Seq(STRING)
          /\ PypiName(parts) = name
    /\ \A word \in DOMAIN Escaped : Escaped[word] \in STRING \ {"@v"}

\* A file of a release lies where its format puts it, in a repository of that
\* format for which no other ecosystem is configured.
ASSUME DownloadsAssumption ==
    \A d \in Downloads :
        LET s == DecodedSegments(d.path)
            format == FormatName[d.context.repository_format]
        IN  /\ s \in Seq(Segments)
            /\ IF d.package # NoPackage
               THEN /\ d.package \in Packages
                    /\ Holds(format, d.package.format)
                    /\ d.context.osv_ecosystem \in {NoEcosystem, d.package.format}
                    /\ s \in Layout(d.package)
               ELSE NoRelease(format, s)

\* What OSV knows the package as.
Coordinates(p) ==
    [kind |-> "package", ecosystem |-> p.format, name |-> p.name, version |-> p.version]
------------------------------------------------------------------------------
\* The source that is not asked does not matter.
NoChart ==
    /\ chart = CHOOSE c \in Charts : TRUE
    /\ tags = [i \in Images |-> CHOOSE c \in Contents : TRUE]
    /\ fail_open = FALSE
    /\ registry = FALSE

Classified == ClassifyPath(download.context, download.method, download.path)

SourcesInit ==
    /\ download \in Downloads
    /\ target = Unclassified
    /\ Classified.kind # "artifact" => NoChart
    /\ Init
    /\ Classified.kind # "package" => listed = {}
    /\ QueryInit

Classify ==
    /\ target = Unclassified
    /\ target' = Classified
    /\ UNCHANGED <<vars, queryVars, download>>

\* authorize_package_target asks OSV, authorize_artifact_target scans a chart.
AskOsv(step) == target.kind = "package" /\ step /\ UNCHANGED <<vars, pathVars>>
ScanChart == target.kind = "artifact" /\ Next /\ UNCHANGED <<queryVars, pathVars>>

SourcesNext == Classify \/ AskOsv(QueryNext) \/ ScanChart

\* The HTTP client has a timeout for each request.
SourcesSpec ==
    /\ SourcesInit /\ [][SourcesNext]_sourcesVars
    /\ WF_sourcesVars(Classify)
    /\ WF_sourcesVars(AskOsv(PageArrives \/ PageFails))
------------------------------------------------------------------------------
(* Properties.                                                              *)

\* What is served is what is scanned: a file of a release is looked up as a
\* package of its ecosystem, under the name and version it was published with
\* wherever its path gives them plainly, hyphens in either and the spellings of
\* Python included; what is not a release is not looked up as one, nor is an
\* upload.
ScannedIsServed ==
    target # Unclassified =>
        IF download.package # NoPackage /\ download.method \in {"GET", "HEAD"}
        THEN /\ target.kind = "package" /\ target.ecosystem = download.package.format
             /\ DecodedSegments(download.path) \in PlainLayout(download.package) =>
                    target = Coordinates(download.package)
        ELSE target.kind # "package"


\* A query to OSV whose tokens grow ends, though the loop counts no pages and
\* only each single request has a timeout: the token is passed on, and either
\* mark of the end is seen.
QueryEnds ==
    (target.kind = "package" /\ query = "post") ~> (query \in {"ok", "error"})
==============================================================================
