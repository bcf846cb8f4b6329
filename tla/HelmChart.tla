------------------------------ MODULE HelmChart ------------------------------
(***************************************************************************)
(* The scan of one Helm chart: render it, extract the image references,    *)
(* scan the images one after the other by tag and merge what is found.     *)
(* Tags are moved meanwhile, images fail, and a scanner that is given up   *)
(* on runs on.  Gateway takes this scan as one step.                       *)
(***************************************************************************)
EXTENDS Naturals, Sequences, FiniteSets, SequencesExt

CONSTANTS
    Images,          \* image references
    Blank,           \* a value of which nothing is left
    Spellings,       \* values as they are written, with or without quotes
    Unquoted,        \* what unquote makes of them
    Charts,          \* rendered charts: sequences of Lines
    Contents,        \* images a tag can name
    FindingsIn       \* FindingsIn[c]: what the scanner says of content c

\* A line of the rendered manifests: `image: x` as a key of its own line or as
\* the first key of a list item, in a comment, or something else.
Lines == [form : {"key", "item", "comment", "other"}, value : Spellings]

ASSUME ChartAssumptions ==
    /\ Unquoted \in [Spellings -> Images \cup {Blank}]
    /\ Charts \subseteq Seq(Lines)

VARIABLES
    chart,       \* what helm template renders
    fail_open,
    registry,    \* a Docker registry is configured
    tags,        \* the content each tag names now
    pc,          \* the call scan_helm_chart waits for
    images,      \* the extracted references
    at,          \* the image being scanned
    merged,      \* all_vulnerabilities
    saw,         \* the content a completed scan looked at, per image
    skipped,     \* images passed over with fail_open
    named,       \* history: the contents each tag named during the scan
    orphans      \* scanners running without anyone waiting for them

configVars == <<chart, fail_open, registry>>
scanVars == <<at, merged, saw, skipped>>
vars == <<configVars, tags, named, pc, images, scanVars, orphans>>

\* A line that starts with image: adds its value, once.
Extend(found, line) ==
    IF /\ line.form = "key"
       /\ Unquoted[line.value] \notin ToSet(found) \cup {Blank}
    THEN Append(found, Unquoted[line.value])
    ELSE found

\* parse_image_references: what the first i lines add, in their order.
FoundUpTo(lines) ==
    LET upTo[i \in 0..Len(lines)] ==
            IF i = 0 THEN <<>> ELSE Extend(upTo[i - 1], lines[i])
    IN  upTo

Extracted(lines) == FoundUpTo(lines)[Len(lines)]

Init ==
    /\ chart \in Charts
    /\ fail_open \in BOOLEAN
    /\ registry \in BOOLEAN
    /\ tags \in [Images -> Contents]
    /\ pc = "render"
    /\ images = <<>>
    /\ at = 1
    /\ merged = {}
    /\ saw = <<>>
    /\ skipped = {}
    /\ named = [i \in Images |-> {tags[i]}]
    /\ orphans = 0

\* extract_chart_images.  Without references, or without a registry to resolve
\* them against, the scan ends here.
Render ==
    /\ pc = "render"
    /\ images' = Extracted(chart)
    /\ pc' = IF images' = <<>> THEN "ok" ELSE IF registry THEN "auth" ELSE "error"
    /\ UNCHANGED <<configVars, tags, named, scanVars, orphans>>

RenderFails ==
    /\ pc = "render"
    /\ pc' = "error"
    /\ UNCHANGED <<configVars, tags, named, images, scanVars, orphans>>

\* docker_auth_config writes the scanner's credentials, or cannot.
WriteAuth ==
    /\ pc = "auth"
    /\ pc' \in {"scan", "error"}
    /\ UNCHANGED <<configVars, tags, named, images, scanVars, orphans>>

\* On to the next image, or out of the loop.
Advance ==
    /\ at' = at + 1
    /\ pc' = IF at = Len(images) THEN "ok" ELSE "scan"

\* The scanner pulls the tag and reports on what it got.
ScanImage ==
    /\ pc = "scan"
    /\ LET content == tags[images[at]] IN
       /\ saw' = Append(saw, [image |-> images[at], content |-> content])
       /\ merged' = merged \cup FindingsIn[content]
    /\ Advance
    /\ UNCHANGED <<configVars, tags, named, images, skipped, orphans>>

\* Mutant: with fail_open an image that fails ends the scan.
FailedImageEndsScan ==
    /\ pc = "scan"
    /\ UNCHANGED <<configVars, tags, named, images, merged, saw>>
    /\ IF fail_open
       THEN pc' = "ok" /\ skipped' = skipped \cup {images[at]} /\ UNCHANGED at
       ELSE pc' = "error" /\ UNCHANGED <<at, skipped>>

\* Mutant: an image that fails is passed over in any case.
FailedImageIsSkipped ==
    /\ pc = "scan"
    /\ UNCHANGED <<configVars, tags, named, images, merged, saw>>
    /\ Advance
    /\ skipped' = skipped \cup {images[at]}

\* An image that cannot be scanned is passed over, or fails the chart.
FailedImage ==
    /\ pc = "scan"
    /\ UNCHANGED <<configVars, tags, named, images, merged, saw>>
    /\ IF fail_open
       THEN Advance /\ skipped' = skipped \cup {images[at]}
       ELSE pc' = "error" /\ UNCHANGED <<at, skipped>>

ScanFails == FailedImage /\ UNCHANGED orphans

\* The timeout drops the future of command.output(), not the process.
ScanTimesOut == FailedImage /\ orphans' = orphans + 1

\* A scanner that was left behind ends by itself.
OrphanExits ==
    /\ orphans > 0
    /\ orphans' = orphans - 1
    /\ UNCHANGED <<configVars, tags, named, pc, images, scanVars>>

Ended == pc \in {"ok", "error"}

\* Somebody pushes an image under the same tag.
MoveTag(i, c) ==
    /\ tags' = [tags EXCEPT ![i] = c]
    /\ named' = IF Ended THEN named ELSE [named EXCEPT ![i] = @ \cup {c}]
    /\ UNCHANGED <<configVars, pc, images, scanVars, orphans>>

Scan == Render \/ RenderFails \/ WriteAuth \/ ScanImage \/ ScanFails \/ ScanTimesOut

Next ==
    \/ Scan \/ OrphanExits
    \/ \E i \in Images, c \in Contents : MoveTag(i, c)

Spec == Init /\ [][Next]_vars
------------------------------------------------------------------------------
(* Properties.                                                              *)

\* A scan that ends well has looked at every extracted image once, in some
\* content its tag had, and has kept every finding of each of them; only with
\* fail_open are images missing, and then only the ones that failed
\* (README.md:606-608).
MergeIsComplete ==
    pc = "ok" =>
        LET scanned == {saw[k].image : k \in DOMAIN saw} IN
        /\ ToSet(images) = scanned \cup skipped
        /\ skipped # {} => fail_open
        /\ Len(saw) + Cardinality(skipped) = Len(images)
        /\ merged = UNION {FindingsIn[saw[k].content] : k \in DOMAIN saw}

\* The images the chart names on a line of their own.
References ==
    {Unquoted[chart[k].value] : k \in {j \in DOMAIN chart : chart[j].form = "key"}} \ {Blank}

ChartContract == INSTANCE ScanContract WITH
    status <- IF Ended THEN pc ELSE "pending",
    answer <- IF pc = "ok" THEN merged ELSE {},
    lenient <- fail_open,
    must <- {v \in UNION {FindingsIn[c] : c \in Contents} :
                \E i \in References : \A c \in named[i] : v \in FindingsIn[c]},
    may <- UNION {FindingsIn[c] : c \in UNION {named[i] : i \in References}}

\* The scan of a chart is one scan, though it visits the images one by one
\* while their tags move: without fail_open it lacks nothing that every content
\* of a referenced image has, and it never reports what no content has.
ChartKeepsContract == ChartContract!Spec

\* README.md:590: "Extracts all `image:` references from the rendered
\* manifests."  An `image:` that is the first key of a list item is passed
\* over, and a chart all of whose references are like that counts as clean.
AllReferencesAreScanned ==
    (pc = "ok" /\ ~fail_open) =>
        \A k \in DOMAIN chart :
            (chart[k].form \in {"key", "item"} /\ Unquoted[chart[k].value] # Blank) =>
                \E j \in DOMAIN saw : saw[j].image = Unquoted[chart[k].value]
==============================================================================
