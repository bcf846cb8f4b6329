------------------------------ MODULE Classifier ------------------------------
(***************************************************************************)
(* classify_path: which package or artifact a path of a repository stands  *)
(* for.  A path is a sequence of segments, decoded; a segment is its text  *)
(* split at hyphens, and the suffix the code looks for at its end, so that *)
(* demo-1.2.jar is [parts |-> <<"demo", "1.2">>, suffix |-> "jar"].  Names *)
(* and versions are told apart by hyphens only, and so are the texts here. *)
(***************************************************************************)
EXTENDS Naturals, SequencesExt

CONSTANTS
    Scopes,        \* words that start with @
    NormalForm,    \* a part |-> its words: cut at _ and at dots, in lower case
    FormatName,    \* normalize_format: a spelling |-> the letters, in lower case
    NoEcosystem    \* no OSV ecosystem is configured for the repository

Text(parts) == [parts |-> parts, suffix |-> "none"]
Word(w) == Text(<<w>>)
Hyphen == Text(<<"", "">>)

ProxyOnly == [kind |-> "proxy_only"]

\* The ecosystem OSV is asked about: the configured one, or the format's own.
DefaultEcosystem(format) ==
    CASE format \in {"maven", "maven2"} -> "Maven"
      [] format \in {"npm", "node"} -> "npm"
      [] format \in {"pypi", "python"} -> "PyPI"
      [] format \in {"cargo", "rust", "rustcargo"} -> "crates.io"
      [] format \in {"go", "golang"} -> "Go"

PackageTarget(context, name, version) ==
    [kind |-> "package", name |-> name, version |-> version,
     ecosystem |-> IF context.osv_ecosystem # NoEcosystem THEN context.osv_ecosystem
                   ELSE DefaultEcosystem(FormatName[context.repository_format])]

\* Empty segments disappear.
DecodedSegments(path) == SelectSeq(path, LAMBDA segment : segment # Word(""))

Includes(text, part) ==
    \E i \in 1..Len(text) : IsPrefix(part, SubSeq(text, i, Len(text)))

\* position: the first index the test accepts, 0 for None.
Position(s, Test(_)) ==
    LET found == {i \in 1..Len(s) : Test(i)} IN
    IF found = {} THEN 0 ELSE CHOOSE i \in found : \A j \in found : i <= j
------------------------------------------------------------------------------
(* One classifier per format.                                               *)

ClassifyMaven(context, s) ==
    LET n == Len(s) IN
    IF n < 4 THEN ProxyOnly
    ELSE IF \/ s[n].suffix \in {"sidecar", "metadata"}
            \/ ~Includes(s[n].parts, s[n - 1].parts)
    THEN ProxyOnly
    ELSE PackageTarget(context, SubSeq(s, 1, n - 2), s[n - 1].parts)

\* Mutant: the version is always what follows the last hyphen.
VersionAfterHyphen(stem, tarball) == <<Last(stem)>>

\* What follows the package's name in the tarball's, or else its last hyphen.
NpmVersion(stem, tarball) ==
    IF Len(tarball) < Len(stem) /\ IsPrefix(tarball, stem)
    THEN SubSeq(stem, Len(tarball) + 1, Len(stem))
    ELSE <<Last(stem)>>

ClassifyNpm(context, s) ==
    LET scoped == Len(s) >= 4 /\ s[1].parts[1] \in Scopes /\ s[3] = Hyphen
        plain == Len(s) >= 3 /\ s[2] = Hyphen
        name == SubSeq(s, 1, IF scoped THEN 2 ELSE 1)
    IN IF /\ Last(s).suffix = "tgz" /\ Len(Last(s).parts) >= 2
          /\ scoped \/ plain
       THEN PackageTarget(context, name, NpmVersion(Last(s).parts, Last(name).parts))
       ELSE ProxyOnly

PypiWords(parts) == FlattenSeq([i \in DOMAIN parts |-> NormalForm[parts[i]]])

\* Underscores and dots become hyphens, one by one.
NormalizePypiName(parts) == <<Text(PypiWords(parts))>>

ClassifyPypi(context, s) ==
    LET stem == Last(s).parts
        wheel == Last(s).suffix = "whl"
        sdist == Last(s).suffix \in {"tar.gz", "zip", "tgz"}
    IN IF Len(stem) < 2 \/ ~(wheel \/ sdist) THEN ProxyOnly
       ELSE IF wheel
       THEN PackageTarget(context, NormalizePypiName(<<stem[1]>>), <<stem[2]>>)
       ELSE PackageTarget(context, NormalizePypiName(Front(stem)), <<Last(stem)>>)

ClassifyCargo(context, s) ==
    LET at == Position(s, LAMBDA i :
                  IsPrefix(<<Word("api"), Word("v1"), Word("crates")>>, SubSeq(s, i, Len(s))))
    IN IF at = 0 \/ Len(s) < at + 5 THEN ProxyOnly
       ELSE IF s[at + 5] # Word("download") THEN ProxyOnly
       ELSE PackageTarget(context, <<s[at + 3]>>, s[at + 4].parts)

ClassifyGo(context, s) ==
    LET marker == Position(s, LAMBDA i : s[i] = Word("@v")) IN
    IF marker < 2 \/ Len(s) = marker THEN ProxyOnly
    ELSE IF s[marker + 1].suffix \notin {"zip", "mod", "info"} THEN ProxyOnly
    ELSE PackageTarget(context, SubSeq(s, 1, marker - 1), s[marker + 1].parts)

ClassifyHelm(context, path, s) ==
    IF Last(s).suffix \in {"tgz", "tar.gz"}
    THEN [kind |-> "artifact", source_format |-> context.repository_format, uri |-> path]
    ELSE ProxyOnly

\* Docker repositories have a registry path of their own; other formats have
\* no vulnerability database.
ClassifyPath(context, method, path) ==
    LET s == DecodedSegments(path)
        format == FormatName[context.repository_format]
    IN IF method \notin {"GET", "HEAD"} \/ s = <<>> THEN ProxyOnly
       ELSE CASE format \in {"maven", "maven2"} -> ClassifyMaven(context, s)
              [] format = "npm" -> ClassifyNpm(context, s)
              [] format \in {"pypi", "python"} -> ClassifyPypi(context, s)
              [] format \in {"cargo", "rust", "rustcargo"} -> ClassifyCargo(context, s)
              [] format \in {"go", "golang"} -> ClassifyGo(context, s)
              [] format = "helm" -> ClassifyHelm(context, path, s)
              [] OTHER -> ProxyOnly
==============================================================================
