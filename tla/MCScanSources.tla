---------------------------- MODULE MCScanSources ----------------------------
(* A small instance of ScanSources for TLC.                                 *)
EXTENDS ScanSources

CONSTANTS web, db, old, new

\* web is also written with quotes; an empty pair of quotes is Blank.
MCSpellings == {"web", "'web'", "db", "''"}
MCUnquoted == [s \in MCSpellings |-> IF s = "db" THEN db ELSE IF s = "''" THEN Blank ELSE web]
MCFindingsIn == [c \in Contents |-> IF c = old THEN {"both", "old"} ELSE {"both"}]

\* All charts of up to three of these lines.
MCLines == {line \in Lines : line.form = "key" \/ line.value = "web"}
MCCharts == UNION {[1..n -> MCLines] : n \in 0..3}

\* Names and versions with and without hyphens, and a name that ends like a
\* version.
MCNames == {<<"my">>, <<"my", "pkg">>, <<"my", "1.0">>}
MCVersions == {<<"1.0">>, <<"1.0", "beta">>}

MCNormalForm == [part \in {"", "my", "pkg", "My_Pkg", "my..pkg", "1.0"} |->
    CASE part = "My_Pkg" -> <<"my", "pkg">> [] part = "my..pkg" -> <<"my", "", "pkg">>
      [] OTHER -> <<part>>]
MCSpelled == [name \in {<<Text(<<"my">>)>>, <<Text(<<"my", "pkg">>)>>} |->
    {s \in UNION {[1..n -> DOMAIN MCNormalForm] : n \in 1..3} :
        s[1] # "" /\ Last(s) # "" /\ PypiName(s) = name}]

\* Capitals in a Go module's path and in its version.
MCEscaped == [word \in {"My", "RC"} |-> IF word = "My" THEN "!my" ELSE "!r!c"]

MCPackages ==
    {[format |-> "npm", name |-> <<Text(n)>>, version |-> v] : n \in MCNames, v \in MCVersions}
    \cup {[format |-> "npm", name |-> <<Word("@org"), Text(n)>>, version |-> <<"1.0", "beta">>] :
              n \in MCNames}
    \cup {[format |-> "Maven", name |-> <<Word("org"), Text(n)>>, version |-> v] :
              n \in MCNames, v \in MCVersions}
    \cup {[format |-> "PyPI", name |-> n, version |-> <<"1.0">>] : n \in DOMAIN MCSpelled}
    \cup {[format |-> "crates.io", name |-> <<Text(n)>>, version |-> <<"1.0", "beta">>] :
              n \in MCNames}
    \cup {[format |-> "Go", name |-> <<Word("org"), Text(n)>>, version |-> v] :
              n \in {<<"my", "pkg">>, <<"My", "pkg">>}, v \in {<<"1.0", "beta">>, <<"1.0", "RC">>}}

\* A repository's format as Nexus spells it, and its ecosystem if configured.
MCFormatName == [f \in {"maven2", "npm", "PyPI", "rust-cargo", "go", "helm", "raw"} |->
    IF f = "PyPI" THEN "pypi" ELSE IF f = "rust-cargo" THEN "rustcargo" ELSE f]
MCFormatOf(format) ==
    CASE format = "Maven" -> "maven2" [] format = "npm" -> "npm" [] format = "PyPI" -> "PyPI"
      [] format = "crates.io" -> "rust-cargo" [] format = "Go" -> "go"
MCContext(f, ecosystem) == [repository_format |-> f, osv_ecosystem |-> ecosystem]

MCRequest(context, method, path, package) ==
    [context |-> context, method |-> method, path |-> path, package |-> package]

\* Every file of every package; an upload; indexes, checksums and a chart.
MCDownloads ==
    UNION {{MCRequest(MCContext(MCFormatOf(p.format), NoEcosystem), "GET", path, p) :
               path \in Layout(p)} : p \in MCPackages}
    \cup UNION {{MCRequest(MCContext(MCFormatOf(p.format), p.format), "HEAD", <<Word("")>> \o path, p),
                 MCRequest(MCContext(MCFormatOf(p.format), p.format), "PUT", path, p)} :
               p \in {q \in MCPackages : q.format = "crates.io" /\ q.name = <<Word("my")>>},
               path \in CargoPaths([name |-> <<Word("my")>>, version |-> <<"1.0", "beta">>])}
    \cup {MCRequest(MCContext(f, NoEcosystem), "GET", path, NoPackage) :
              f \in DOMAIN MCFormatName \ {"helm"},
              path \in {<<>>, <<Word("my")>>, <<Word("my"), Hyphen, File(<<"my">>, "tgz")>>,
                        <<Word("api"), Word("v1"), Word("crates"), Word("my")>>,
                        <<Word("org"), Word("my"), Word("@v"), Word("list")>>,
                        <<Word("@v"), File(<<"1.0">>, "zip")>>,
                        <<Word("org"), Word("my"), Word("1.0"), File(<<"my", "1.0">>, "sidecar")>>,
                        <<Word("org"), Word("my"), Word("1.0"), File(<<"maven">>, "metadata")>>}}
    \cup {MCRequest(MCContext("helm", NoEcosystem), "GET",
              <<Word("charts"), File(<<"web", "1.0">>, "tgz")>>, NoPackage)}
==============================================================================
