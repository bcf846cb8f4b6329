-------------------------- MODULE ScanSourcesProofs --------------------------
(***************************************************************************)
(* From a path to its scan.  A file of a release is looked up in the       *)
(* ecosystem of its release, and as that release where its path gives name *)
(* and version plainly.  The paged OSV query implements ScanContract, for  *)
(* any number of advisories, any page breaks and any changes of the        *)
(* listing; so does the scan of a Helm chart, for any chart and any moves  *)
(* of the tags.                                                            *)
(***************************************************************************)
EXTENDS ScanSources, FiniteSetTheorems, WellFoundedInduction, TLAPS

------------------------------------------------------------------------------
(* OsvQuery.                                                                *)

\* What the loop has done so far: the advisories that stayed and lie behind the
\* cursor have been collected, and nothing but what occurred.
Progress ==
    /\ listed \subseteq Advisories
    /\ query \in {"post", "ok", "error"}
    /\ page_token \in 1..MaxAdvisory \cup {NoToken, EmptyToken}
    /\ stayed \subseteq Advisories
    /\ query = "post" => stayed \subseteq listed /\ listed \subseteq occurred
    /\ query = "post" => \A v \in stayed : v <= Cursor(page_token) => v \in collected
    /\ collected \subseteq occurred

\* A query starts with nothing behind the cursor.
LEMMA ProgressInit == QueryInit => Progress
BY QueryAssumptions DEF QueryInit, Progress, Cursor, Advisories

\* What one page adds: everything listed between the cursor and the page's end.
LEMMA PageCollects ==
    ASSUME Progress, query = "post",
           NEW to \in 0..MaxAdvisory, NEW next \in 1..MaxAdvisory \cup {NoToken, EmptyToken},
           Page(to, next), collected' = collected \cup Served(to)
    PROVE  /\ \A v \in stayed : v <= to => v \in collected'
           /\ collected' \subseteq occurred
<1>1. Cursor(page_token) \in Nat
  BY QueryAssumptions DEF Progress, Cursor
<1>2. ASSUME NEW v \in stayed, v <= to
      PROVE  v \in collected'
  <2>1. v \in Nat /\ v \in listed
    BY DEF Progress, Advisories
  <2>2. CASE v <= Cursor(page_token)
    BY <2>2 DEF Progress
  <2>3. CASE Cursor(page_token) < v
    BY <1>2, <2>1, <2>3 DEF Served
  <2> QED BY <1>1, <2>1, <2>2, <2>3
<1>3. collected' \subseteq occurred
  BY DEF Progress, Served
<1> QED BY <1>2, <1>3

\* Every step of the query and of the service keeps Progress.
LEMMA ProgressStep == Progress /\ [QueryNext]_queryVars => Progress'
<1> SUFFICES ASSUME Progress, [QueryNext]_queryVars
             PROVE  Progress'
  OBVIOUS
<1>1. CASE PageArrives
  <2>1. PICK to \in 0..MaxAdvisory, next \in 1..MaxAdvisory \cup {NoToken, EmptyToken} :
            /\ Page(to, next)
            /\ collected' = collected \cup Served(to)
            /\ IF Continues(next)
               THEN page_token' = next /\ UNCHANGED query
               ELSE query' = "ok" /\ UNCHANGED page_token
    BY <1>1 DEF PageArrives
  <2>2. /\ query = "post"
        /\ UNCHANGED <<listed, stayed, occurred>>
    BY <1>1 DEF PageArrives
  <2>3. /\ \A v \in stayed : v <= to => v \in collected'
        /\ collected' \subseteq occurred
    BY <2>1, <2>2, PageCollects
  <2>4. CASE Continues(next)
    <3>1. next = to
      BY <2>1, <2>4 DEF Page, Continues
    <3>2. to \in Nat /\ page_token' = to
      BY <2>1, <2>4, <3>1
    <3>3. Cursor(page_token)' = to
      BY <3>2 DEF Cursor
    <3> QED BY <2>1, <2>2, <2>3, <2>4, <3>1, <3>2, <3>3 DEF Progress
  <2>5. CASE ~Continues(next)
    BY <2>1, <2>2, <2>3, <2>5 DEF Progress
  <2> QED BY <2>4, <2>5
<1>2. CASE PageFails
  BY <1>2 DEF Progress, PageFails, Cursor
<1>3. CASE ListingChanges
  <2>1. Cursor(page_token)' = Cursor(page_token)
    BY <1>3 DEF ListingChanges, Cursor
  <2> QED BY <1>3, <2>1 DEF Progress, ListingChanges
<1>4. CASE UNCHANGED queryVars
  BY <1>4 DEF Progress, queryVars, Cursor
<1> QED BY <1>1, <1>2, <1>3, <1>4 DEF QueryNext

\* The states the query starts in are states of the contract's start.
LEMMA ContractInit == QueryInit => QueryContract!Init
BY DEF QueryInit, QueryContract!Init

\* A step of the query is a step of the contract, or none that it sees.
LEMMA ContractStep ==
    Progress /\ [QueryNext]_queryVars => [QueryContract!Next]_(QueryContract!vars)
<1> SUFFICES ASSUME Progress, [QueryNext]_queryVars
             PROVE  QueryContract!Next \/ UNCHANGED QueryContract!vars
  OBVIOUS
<1>1. CASE PageArrives
  <2>1. PICK to \in 0..MaxAdvisory, next \in 1..MaxAdvisory \cup {NoToken, EmptyToken} :
            /\ Page(to, next)
            /\ collected' = collected \cup Served(to)
            /\ IF Continues(next)
               THEN page_token' = next /\ UNCHANGED query
               ELSE query' = "ok" /\ UNCHANGED page_token
    BY <1>1 DEF PageArrives
  <2>2. /\ query = "post"
        /\ UNCHANGED <<listed, stayed, occurred>>
    BY <1>1 DEF PageArrives
  <2>3. /\ \A v \in stayed : v <= to => v \in collected'
        /\ collected' \subseteq occurred
    BY <2>1, <2>2, PageCollects
  <2>4. CASE Continues(next)
    BY <2>1, <2>2, <2>4 DEF QueryContract!vars
  <2>5. CASE ~Continues(next)
    <3>1. to = MaxAdvisory
      BY <2>1, <2>5, QueryAssumptions DEF Page, Continues
    <3>2. stayed \subseteq collected'
      BY <2>3, <3>1, QueryAssumptions DEF Progress, Advisories
    <3>3. query' = "ok"
      BY <2>1, <2>5
    <3>4. QueryContract!Succeed
      BY <2>2, <2>3, <3>2, <3>3 DEF QueryContract!Succeed
    <3> QED BY <3>4 DEF QueryContract!Next
  <2> QED BY <2>4, <2>5
<1>2. CASE PageFails
  BY <1>2 DEF PageFails, QueryContract!Next, QueryContract!Fail
<1>3. CASE ListingChanges
  <2>1. CASE query = "post"
    BY <1>3, <2>1 DEF ListingChanges, QueryContract!Next, QueryContract!Move
  <2>2. CASE query # "post"
    BY <1>3, <2>2 DEF ListingChanges, QueryContract!vars
  <2> QED BY <2>1, <2>2
<1>4. CASE UNCHANGED queryVars
  BY <1>4 DEF queryVars, QueryContract!vars
<1> QED BY <1>1, <1>2, <1>3, <1>4 DEF QueryNext

\* The paged query of query_package is one scan as ScanContract describes it:
\* an error gives out nothing, a list lacks no advisory that was there
\* throughout and holds none that never was.
THEOREM QueryImplementsContract == QuerySpec => QueryKeepsContract
<1>1. QueryInit => Progress /\ QueryContract!Init
  BY ProgressInit, ContractInit
<1>2. Progress /\ [QueryNext]_queryVars => Progress'
  BY ProgressStep
<1>3. Progress /\ [QueryNext]_queryVars => [QueryContract!Next]_(QueryContract!vars)
  BY ContractStep
<1> QED BY <1>1, <1>2, <1>3, PTL DEF QuerySpec, QueryKeepsContract, QueryContract!Spec
------------------------------------------------------------------------------
(* HelmChart: what parse_image_references extracts.                          *)

\* A set of numbers has a least one.
LEMMA LeastNumber ==
    ASSUME NEW T, T \subseteq Nat, T # {}
    PROVE  \E i \in T : \A j \in T : i <= j
<1> DEFINE R == OpToRel(<, Nat)
<1>1. PICK i \in T : \A j \in T : ~(<<j, i>> \in R)
  <2> HIDE DEF R
  <2>1. IsWellFoundedOn(R, Nat)
    BY NatLessThanWellFounded DEF R
  <2> QED BY <2>1, WFMin
<1>2. ASSUME NEW j \in T
      PROVE  i <= j
  <2>1. ASSUME j < i PROVE <<j, i>> \in R
    <3>1. <<j, i>> \in Nat \X Nat
      OBVIOUS
    <3>2. <<j, i>>[1] < <<j, i>>[2]
      BY <2>1
    <3> QED BY <3>1, <3>2, Zenon DEF OpToRel
  <2>2. ~(j < i)
    BY <1>1, <2>1
  <2> QED BY <2>2
<1> QED BY <1>2

\* Induction over the lines of a text, for a set of line numbers.
LEMMA LineInduction ==
    ASSUME NEW n \in Nat, NEW T, 0 \in T,
           \A i \in 0..(n - 1) : i \in T => i + 1 \in T
    PROVE  \A i \in 0..n : i \in T
<1> DEFINE missing == {i \in 0..n : i \notin T}
<1> SUFFICES ASSUME missing # {} PROVE FALSE
  OBVIOUS
<1>1. PICK i \in missing : \A j \in missing : i <= j
  <2>1. missing \subseteq Nat
    OBVIOUS
  <2> HIDE DEF missing
  <2> QED BY <2>1, LeastNumber
<1>2. i # 0 /\ i - 1 \in 0..(n - 1) /\ (i - 1) + 1 = i
  OBVIOUS
<1>3. i - 1 \in T
  BY <1>1, <1>2
<1> QED BY <1>2, <1>3

\* There is a function as FoundUpTo describes it.
LEMMA FoundExists ==
    ASSUME NEW lines \in Seq(Lines)
    PROVE  \E f : f = [i \in 0..Len(lines) |->
                          IF i = 0 THEN <<>> ELSE Extend(f[i - 1], lines[i])]
<1> DEFINE n == Len(lines)
           Upto(f, m) == f = [i \in 0..m |-> IF i = 0 THEN <<>> ELSE Extend(f[i - 1], lines[i])]
           T == {m \in 0..n : \E f : Upto(f, m)}
<1>1. n \in Nat
  OBVIOUS
<1>2. 0 \in T
  <2>1. Upto([i \in 0..0 |-> <<>>], 0)
    OBVIOUS
  <2> HIDE DEF Upto
  <2> QED BY <1>1, <2>1
<1>3. ASSUME NEW m \in 0..(n - 1), m \in T PROVE m + 1 \in T
  <2>1. PICK f : Upto(f, m)
    BY <1>3
  <2> DEFINE g == [i \in 0..(m + 1) |-> IF i = m + 1 THEN Extend(f[m], lines[m + 1]) ELSE f[i]]
  <2>2. ASSUME NEW i \in 0..(m + 1)
        PROVE  g[i] = IF i = 0 THEN <<>> ELSE Extend(g[i - 1], lines[i])
    <3>1. CASE i = m + 1
      <4>1. g[i] = Extend(f[m], lines[i]) /\ g[i - 1] = f[m]
        BY <1>1, <3>1
      <4> QED BY <1>1, <3>1, <4>1
    <3>2. CASE i # m + 1
      <4>1. i \in 0..m /\ g[i] = f[i]
        BY <1>1, <3>2
      <4>2. i # 0 => g[i - 1] = f[i - 1]
        BY <1>1, <4>1
      <4>3. f[i] = IF i = 0 THEN <<>> ELSE Extend(f[i - 1], lines[i])
        BY <2>1, <4>1
      <4> QED BY <4>1, <4>2, <4>3
    <3> QED BY <3>1, <3>2
  <2>3. Upto(g, m + 1)
    BY <2>2
  <2> HIDE DEF Upto, g
  <2> QED BY <1>1, <2>3
<1>4. n \in T
  <2> HIDE DEF T, n
  <2>1. \A i \in 0..(n - 1) : i \in T => i + 1 \in T
    BY <1>3
  <2>2. \A i \in 0..n : i \in T
    BY <1>1, <1>2, <2>1, LineInduction
  <2> QED BY <1>1, <2>2
<1> QED BY <1>4

\* FoundUpTo satisfies its own equation.
LEMMA FoundEquation ==
    ASSUME NEW lines \in Seq(Lines)
    PROVE  FoundUpTo(lines) = [i \in 0..Len(lines) |->
              IF i = 0 THEN <<>> ELSE Extend(FoundUpTo(lines)[i - 1], lines[i])]
<1> DEFINE Eq(f) == f = [i \in 0..Len(lines) |-> IF i = 0 THEN <<>> ELSE Extend(f[i - 1], lines[i])]
<1>1. \E f : Eq(f)
  BY FoundExists
<1>2. FoundUpTo(lines) = CHOOSE f : Eq(f)
  BY DEF FoundUpTo
<1>3. Eq(FoundUpTo(lines))
  <2> HIDE DEF Eq
  <2> QED BY <1>1, <1>2
<1> QED BY <1>3

\* The references on the first i lines.
Named(lines, i) ==
    {Unquoted[lines[k].value] : k \in {j \in 1..i : lines[j].form = "key"}} \ {Blank}

\* A list of images without repetition.
Distinct(s) == s \in Seq(Images) /\ \A j, k \in 1..Len(s) : s[j] = s[k] => j = k

\* One line adds its own reference and keeps the list free of repetition.
LEMMA ExtendAdds ==
    ASSUME NEW found, Distinct(found), NEW line \in Lines
    PROVE  /\ Distinct(Extend(found, line))
           /\ ToSet(Extend(found, line)) =
                 ToSet(found) \cup (IF line.form = "key" THEN {Unquoted[line.value]} \ {Blank} ELSE {})
<1> DEFINE x == Unquoted[line.value]
<1>1. line.value \in Spellings /\ x \in Images \cup {Blank}
  BY ChartAssumptions DEF Lines
<1>2. found \in Seq(Images) /\ ToSet(found) = {found[k] : k \in 1..Len(found)} /\ Len(found) \in Nat
  BY DEF Distinct, ToSet
<1> HIDE DEF x
<1>3. CASE line.form = "key" /\ x \notin ToSet(found) \cup {Blank}
  <2>1. Extend(found, line) = Append(found, x) /\ x \in Images
    BY <1>1, <1>3 DEF Extend, x
  <2> DEFINE longer == Append(found, x)
  <2>2. /\ longer \in Seq(Images) /\ Len(longer) = Len(found) + 1
        /\ \A k \in 1..Len(found) : longer[k] = found[k]
        /\ longer[Len(found) + 1] = x
    BY <1>2, <2>1
  <2> HIDE DEF longer
  <2>3. \A k \in 1..Len(longer) : k \in 1..Len(found) \/ k = Len(found) + 1
    BY <1>2, <2>2
  <2>4. Distinct(longer)
    <3> SUFFICES ASSUME NEW j \in 1..Len(longer), NEW k \in 1..Len(longer), longer[j] = longer[k]
                 PROVE  j = k
      BY <2>2 DEF Distinct
    <3>1. \A m \in 1..Len(found) : found[m] # x
      BY <1>2, <1>3
    <3> QED BY <2>2, <2>3, <3>1 DEF Distinct
  <2>5. ToSet(longer) = ToSet(found) \cup {x}
    <3>1. DOMAIN longer = 1..Len(longer)
      BY <2>2
    <3>2. ToSet(longer) = {longer[k] : k \in 1..Len(longer)}
      BY <3>1 DEF ToSet
    <3>3. Len(found) + 1 \in 1..Len(longer) /\ 1..Len(found) \subseteq 1..Len(longer)
      BY <1>2, <2>2
    <3> QED BY <1>2, <2>2, <2>3, <3>2, <3>3
  <2>6. {x} \ {Blank} = {x}
    BY <1>3
  <2> QED BY <1>3, <2>1, <2>4, <2>5, <2>6 DEF longer, x
<1>4. CASE ~(line.form = "key" /\ x \notin ToSet(found) \cup {Blank})
  <2>1. Extend(found, line) = found
    BY <1>4 DEF Extend, x
  <2> QED BY <1>4, <2>1 DEF x
<1> QED BY <1>3, <1>4

\* One more line names what it names.
LEMMA NamedGrows ==
    ASSUME NEW lines \in Seq(Lines), NEW i \in 0..(Len(lines) - 1)
    PROVE  Named(lines, i + 1) = Named(lines, i) \cup
              (IF lines[i + 1].form = "key" THEN {Unquoted[lines[i + 1].value]} \ {Blank} ELSE {})
<1>1. 1..(i + 1) = (1..i) \cup {i + 1}
  OBVIOUS
<1> QED BY <1>1 DEF Named

\* parse_image_references extracts the references of all lines, each once.
LEMMA ExtractedMeans ==
    ASSUME NEW lines \in Seq(Lines)
    PROVE  /\ Distinct(Extracted(lines))
           /\ ToSet(Extracted(lines)) = Named(lines, Len(lines))
<1> DEFINE n == Len(lines)
           f == FoundUpTo(lines)
           T == {i \in 0..n : Distinct(f[i]) /\ ToSet(f[i]) = Named(lines, i)}
<1>1. n \in Nat
  OBVIOUS
<1>2. \A i \in 0..n : f[i] = IF i = 0 THEN <<>> ELSE Extend(f[i - 1], lines[i])
  <2> DEFINE g == [i \in 0..n |-> IF i = 0 THEN <<>> ELSE Extend(f[i - 1], lines[i])]
  <2>1. f = g
    BY FoundEquation
  <2>2. \A i \in 0..n : g[i] = IF i = 0 THEN <<>> ELSE Extend(f[i - 1], lines[i])
    OBVIOUS
  <2> HIDE DEF f, g
  <2> QED BY <2>1, <2>2
<1> HIDE DEF f
<1>3. 0 \in T
  <2>1. f[0] = <<>> /\ 0 \in 0..n
    BY <1>1, <1>2
  <2>2. Distinct(<<>>) /\ ToSet(<<>>) = {}
    <3>1. <<>> \in Seq(Images) /\ Len(<<>>) = 0 /\ DOMAIN <<>> = {}
      OBVIOUS
    <3>2. \A j, k \in 1..Len(<<>>) : FALSE
      BY <3>1
    <3> QED BY <3>1, <3>2 DEF Distinct, ToSet
  <2>3. Named(lines, 0) = {}
    BY DEF Named
  <2> QED BY <2>1, <2>2, <2>3
<1>4. ASSUME NEW i \in 0..(n - 1), i \in T PROVE i + 1 \in T
  <2>1. i + 1 \in 0..n /\ i + 1 # 0 /\ (i + 1) - 1 = i /\ lines[i + 1] \in Lines
    BY <1>1
  <2>2. f[i + 1] = Extend(f[i], lines[i + 1])
    BY <1>2, <2>1
  <2>3. Distinct(f[i]) /\ ToSet(f[i]) = Named(lines, i)
    BY <1>4
  <2>4. /\ Distinct(f[i + 1])
        /\ ToSet(f[i + 1]) = Named(lines, i + 1)
    <3> DEFINE found == f[i]
               line == lines[i + 1]
               added == IF line.form = "key" THEN {Unquoted[line.value]} \ {Blank} ELSE {}
    <3>1. Named(lines, i + 1) = Named(lines, i) \cup added
      BY NamedGrows
    <3>2. Distinct(found) /\ line \in Lines
      BY <2>1, <2>3
    <3>3. /\ Distinct(Extend(found, line))
          /\ ToSet(Extend(found, line)) = ToSet(found) \cup added
      <4> HIDE DEF found, line
      <4> QED BY <3>2, ExtendAdds
    <3> QED BY <2>2, <2>3, <3>1, <3>3
  <2> QED BY <2>1, <2>4
<1>5. n \in T
  <2> HIDE DEF T, n
  <2>1. \A i \in 0..(n - 1) : i \in T => i + 1 \in T
    BY <1>4
  <2>2. \A i \in 0..n : i \in T
    BY <1>1, <1>3, <2>1, LineInduction
  <2> QED BY <1>1, <2>2
<1> QED BY <1>5 DEF Extracted, f

\* What is extracted from the chart are its references.
LEMMA ExtractsReferences ==
    ASSUME chart \in Charts
    PROVE  /\ Distinct(Extracted(chart))
           /\ ToSet(Extracted(chart)) = References
           /\ References \subseteq Images
<1>1. chart \in Seq(Lines)
  BY ChartAssumptions
<1>2. DOMAIN chart = 1..Len(chart)
  BY <1>1
<1>3. References = Named(chart, Len(chart))
  BY <1>2 DEF References, Named
<1>4. Distinct(Extracted(chart)) /\ ToSet(Extracted(chart)) = References
  BY <1>1, <1>3, ExtractedMeans
<1>5. ToSet(Extracted(chart)) \subseteq Images
  BY <1>4 DEF Distinct, ToSet
<1> QED BY <1>4, <1>5
------------------------------------------------------------------------------
(* HelmChart: the loop over the images.                                      *)

\* The images a completed scan looked at.
Looked == {saw[k].image : k \in DOMAIN saw}

\* What the variables hold.
ChartTyped ==
    /\ chart \in Charts
    /\ pc \in {"render", "auth", "scan", "ok", "error"}
    /\ tags \in [Images -> Contents]
    /\ named \in [Images -> SUBSET Contents]
    /\ saw \in Seq([image : Images, content : Contents])
    /\ at \in Nat \ {0}
    /\ IsFiniteSet(skipped)

\* Where the loop is.
ChartPlace ==
    /\ pc = "render" => images = <<>>
    /\ pc \in {"auth", "scan", "ok"} => images = Extracted(chart)
    /\ pc = "auth" => images # <<>>
    /\ pc \in {"render", "auth"} => at = 1
    /\ pc = "scan" => at \in 1..Len(images)
    /\ pc = "ok" => at = Len(images) + 1

\* What it has done: each image before the current one was looked at or passed
\* over, once, in a content its tag had, and all findings were kept.
ChartDone ==
    /\ {images[k] : k \in 1..(at - 1)} = Looked \cup skipped
    /\ Len(saw) + Cardinality(skipped) = at - 1
    /\ skipped # {} => fail_open
    /\ merged = UNION {FindingsIn[saw[k].content] : k \in DOMAIN saw}

\* The history records what the tags name and what was seen.
ChartHistory ==
    /\ ~Ended => \A i \in Images : tags[i] \in named[i]
    /\ \A k \in DOMAIN saw : saw[k].content \in named[saw[k].image]

ChartInv == ChartTyped /\ ChartPlace /\ ChartDone /\ ChartHistory

\* The entries of a list of scans.
LEMMA EntriesTyped ==
    ASSUME NEW s \in Seq([image : Images, content : Contents]), NEW k \in DOMAIN s
    PROVE  s[k].image \in Images /\ s[k].content \in Contents
<1> DEFINE S == [image : Images, content : Contents]
<1>1. s[k] \in S
  <2> HIDE DEF S
  <2>1. s \in Seq(S)
    BY DEF S
  <2> QED BY <2>1
<1> QED BY <1>1

\* A chart is scanned from its beginning.
LEMMA ChartInitial == Init => ChartInv
<1> SUFFICES ASSUME Init PROVE ChartInv
  OBVIOUS
<1>1. <<>> \in Seq([image : Images, content : Contents]) /\ DOMAIN <<>> = {} /\ Len(<<>>) = 0
  OBVIOUS
<1>2. IsFiniteSet({}) /\ Cardinality({}) = 0
  BY FS_EmptySet
<1>3. ChartTyped
  <2>1. named = [i \in Images |-> {tags[i]}] /\ tags \in [Images -> Contents]
    BY DEF Init
  <2>2. named \in [Images -> SUBSET Contents]
    BY <2>1
  <2> QED BY <1>1, <1>2, <2>2 DEF Init, ChartTyped
<1>4. ChartPlace
  BY DEF Init, ChartPlace
<1>5. ChartDone
  <2>1. /\ images = <<>> /\ at = 1 /\ merged = {} /\ saw = <<>> /\ skipped = {}
    BY DEF Init
  <2>2. Looked = {}
    BY <1>1, <2>1 DEF Looked
  <2>3. 1..(at - 1) = {}
    BY <2>1
  <2> QED BY <1>1, <1>2, <2>1, <2>2, <2>3 DEF ChartDone
<1>6. ChartHistory
  <2>1. \A k \in DOMAIN saw : FALSE
    BY <1>1 DEF Init
  <2> QED BY <2>1 DEF Init, ChartHistory
<1> QED BY <1>3, <1>4, <1>5, <1>6 DEF ChartInv

\* The image the loop is at.
LEMMA CurrentImage ==
    ASSUME ChartInv, pc = "scan"
    PROVE  /\ at \in 1..Len(images) /\ Len(images) \in Nat
           /\ images[at] \in Images
           /\ \A k \in 1..(at - 1) : images[k] # images[at]
           /\ images = Extracted(chart)
           /\ fail_open \/ skipped = {}
<1>1. images = Extracted(chart) /\ at \in 1..Len(images) /\ chart \in Charts
  BY DEF ChartInv, ChartTyped, ChartPlace
<1>2. Distinct(images)
  BY <1>1, ExtractsReferences
<1>3. images \in Seq(Images) /\ \A j, k \in 1..Len(images) : images[j] = images[k] => j = k
  BY <1>2 DEF Distinct
<1>4. Len(images) \in Nat /\ images[at] \in Images
  BY <1>1, <1>3
<1>5. ASSUME NEW k \in 1..(at - 1) PROVE images[k] # images[at]
  <2>1. k \in 1..Len(images) /\ k # at
    BY <1>1, <1>4
  <2> QED BY <1>1, <1>3, <2>1
<1> QED BY <1>1, <1>4, <1>5 DEF ChartInv, ChartDone

\* The loop goes on behind the current image.
LEMMA AdvancePlace ==
    ASSUME ChartInv, pc = "scan", Advance, UNCHANGED <<chart, images>>
    PROVE  /\ ChartPlace'
           /\ pc' \in {"scan", "ok"} /\ at' \in Nat \ {0}
           /\ {images'[k] : k \in 1..(at' - 1)} =
                 {images[k] : k \in 1..(at - 1)} \cup {images[at]}
<1>1. /\ at \in 1..Len(images) /\ Len(images) \in Nat /\ images = Extracted(chart)
      /\ images' = images /\ chart' = chart
      /\ at' = at + 1 /\ pc' = IF at = Len(images) THEN "ok" ELSE "scan"
  BY CurrentImage DEF Advance
<1>2. images' = Extracted(chart') /\ Len(images') = Len(images)
  BY <1>1
<1>3. pc' \in {"scan", "ok"} /\ at' \in Nat \ {0}
  BY <1>1
<1>4. ChartPlace'
  <2>1. pc' = "scan" => at' \in 1..Len(images')
    BY <1>1, <1>2
  <2>2. pc' = "ok" => at' = Len(images') + 1
    BY <1>1, <1>2
  <2> QED BY <1>2, <1>3, <2>1, <2>2 DEF ChartPlace
<1>5. 1..(at' - 1) = 1..(at - 1) \cup {at}
  BY <1>1
<1> QED BY <1>1, <1>3, <1>4, <1>5

\* An image that was scanned is looked at, and its findings are kept.
LEMMA ScanImageKeeps == ASSUME ChartInv, ScanImage PROVE ChartInv'
<1> DEFINE content == tags[images[at]]
           entry == [image |-> images[at], content |-> content]
<1>1. /\ pc = "scan" /\ saw' = Append(saw, entry)
      /\ merged' = merged \cup FindingsIn[content]
      /\ Advance
      /\ UNCHANGED <<chart, fail_open, registry, tags, named, images, skipped, orphans>>
  BY DEF ScanImage, configVars
<1>2. /\ images[at] \in Images /\ content \in Contents
      /\ content \in named[images[at]]
  <2>1. images[at] \in Images
    BY <1>1, CurrentImage
  <2>2. ~Ended
    BY <1>1 DEF Ended
  <2> QED BY <2>1, <2>2 DEF ChartInv, ChartTyped, ChartHistory
<1>3. saw \in Seq([image : Images, content : Contents])
  BY DEF ChartInv, ChartTyped
<1>4. entry \in [image : Images, content : Contents]
  BY <1>2
<1>5. /\ saw' \in Seq([image : Images, content : Contents])
      /\ Len(saw) \in Nat /\ Len(saw') = Len(saw) + 1
      /\ DOMAIN saw = 1..Len(saw) /\ DOMAIN saw' = 1..(Len(saw) + 1)
      /\ \A k \in 1..Len(saw) : saw'[k] = saw[k]
      /\ saw'[Len(saw) + 1] = entry
  <2> HIDE DEF entry
  <2> QED BY <1>1, <1>3, <1>4
<1>6. DOMAIN saw' = DOMAIN saw \cup {Len(saw) + 1}
  BY <1>5
<1>7. entry.image = images[at] /\ entry.content = content
  OBVIOUS
<1> HIDE DEF entry, content
<1>8. /\ ChartPlace'
      /\ pc' \in {"scan", "ok"} /\ at' \in Nat \ {0}
      /\ {images'[k] : k \in 1..(at' - 1)} = {images[k] : k \in 1..(at - 1)} \cup {images[at]}
  BY <1>1, AdvancePlace
<1>9. ChartTyped'
  BY <1>1, <1>5, <1>8 DEF ChartInv, ChartTyped
<1>10. ChartDone'
  <2>1. Looked' = Looked \cup {images[at]}
    BY <1>5, <1>6, <1>7 DEF Looked
  <2>2. UNION {FindingsIn[saw'[k].content] : k \in DOMAIN saw'}
           = (UNION {FindingsIn[saw[k].content] : k \in DOMAIN saw}) \cup FindingsIn[content]
    BY <1>5, <1>6, <1>7
  <2>3. at' = at + 1 /\ at \in Nat
    BY <1>1 DEF Advance, ChartInv, ChartTyped
  <2>4. Cardinality(skipped) \in Nat
    BY FS_CardinalityType DEF ChartInv, ChartTyped
  <2>5. Len(saw') + Cardinality(skipped') = at' - 1
    <3>1. Len(saw) + Cardinality(skipped) = at - 1 /\ skipped' = skipped
      BY <1>1 DEF ChartInv, ChartDone
    <3> QED BY <1>5, <2>3, <2>4, <3>1
  <2>6. {images'[k] : k \in 1..(at' - 1)} = Looked' \cup skipped'
    BY <1>1, <1>8, <2>1 DEF ChartInv, ChartDone
  <2>7. merged' = UNION {FindingsIn[saw'[k].content] : k \in DOMAIN saw'}
    BY <1>1, <2>2 DEF ChartInv, ChartDone
  <2>8. skipped' # {} => fail_open'
    BY <1>1 DEF ChartInv, ChartDone
  <2> QED BY <2>5, <2>6, <2>7, <2>8 DEF ChartDone
<1>11. ChartHistory'
  <2>1. \A k \in DOMAIN saw' : saw'[k].content \in named'[saw'[k].image]
    BY <1>1, <1>2, <1>5, <1>6, <1>7 DEF ChartInv, ChartHistory
  <2>2. ~Ended' => \A i \in Images : tags'[i] \in named'[i]
    BY <1>1 DEF ChartInv, ChartHistory, Ended
  <2> QED BY <2>1, <2>2 DEF ChartHistory
<1> QED BY <1>8, <1>9, <1>10, <1>11 DEF ChartInv

\* An image that failed is passed over with fail_open, or fails the chart.
LEMMA FailedImageKeeps == ASSUME ChartInv, FailedImage PROVE ChartInv'
<1>1. /\ pc = "scan"
      /\ UNCHANGED <<chart, fail_open, registry, tags, named, images, merged, saw>>
  BY DEF FailedImage, configVars
<1>2. Looked' = Looked
  BY <1>1 DEF Looked
<1>3. ~Ended
  BY <1>1 DEF Ended
<1>4. CASE fail_open
  <2>1. Advance /\ skipped' = skipped \cup {images[at]}
    BY <1>4 DEF FailedImage
  <2>2. /\ ChartPlace'
        /\ pc' \in {"scan", "ok"} /\ at' \in Nat \ {0}
        /\ {images'[k] : k \in 1..(at' - 1)} = {images[k] : k \in 1..(at - 1)} \cup {images[at]}
    BY <1>1, <2>1, AdvancePlace
  <2>3. images[at] \notin skipped
    <3>1. skipped \subseteq {images[k] : k \in 1..(at - 1)}
      BY DEF ChartInv, ChartDone
    <3> QED BY <1>1, <3>1, CurrentImage
  <2>4. /\ IsFiniteSet(skipped) /\ IsFiniteSet(skipped')
        /\ Cardinality(skipped) \in Nat /\ Cardinality(skipped') = Cardinality(skipped) + 1
    BY <2>1, <2>3, FS_AddElement, FS_CardinalityType DEF ChartInv, ChartTyped
  <2>5. ChartTyped'
    BY <1>1, <2>2, <2>4 DEF ChartInv, ChartTyped
  <2>6. ChartDone'
    <3>1. at' = at + 1 /\ at \in Nat /\ Len(saw) \in Nat
      BY <2>1 DEF Advance, ChartInv, ChartTyped
    <3>2. Len(saw') + Cardinality(skipped') = at' - 1
      BY <1>1, <2>4, <3>1 DEF ChartInv, ChartDone
    <3>3. {images'[k] : k \in 1..(at' - 1)} = Looked' \cup skipped'
      BY <1>2, <2>1, <2>2 DEF ChartInv, ChartDone
    <3> QED BY <1>1, <1>4, <3>2, <3>3 DEF ChartInv, ChartDone
  <2>7. ChartHistory'
    BY <1>1, <1>3 DEF ChartInv, ChartHistory
  <2> QED BY <2>2, <2>5, <2>6, <2>7 DEF ChartInv
<1>5. CASE ~fail_open
  <2>1. pc' = "error" /\ UNCHANGED <<at, skipped>>
    BY <1>5 DEF FailedImage
  <2>2. ChartTyped' /\ ChartPlace'
    BY <1>1, <2>1 DEF ChartInv, ChartTyped, ChartPlace
  <2>3. ChartDone'
    BY <1>1, <1>2, <2>1 DEF ChartInv, ChartDone
  <2>4. ChartHistory'
    BY <1>1, <1>3 DEF ChartInv, ChartHistory
  <2> QED BY <2>2, <2>3, <2>4 DEF ChartInv
<1> QED BY <1>4, <1>5

\* Before the loop nothing is looked at and nothing is passed over.
LEMMA BeforeTheLoop ==
    ASSUME ChartInv, at = 1
    PROVE  Looked = {} /\ skipped = {} /\ Len(saw) = 0 /\ merged = {}
<1>1. 1..(at - 1) = {}
  OBVIOUS
<1>2. Looked \cup skipped = {}
  BY <1>1 DEF ChartInv, ChartDone
<1>3. saw \in Seq([image : Images, content : Contents]) /\ IsFiniteSet(skipped)
  BY DEF ChartInv, ChartTyped
<1>4. Len(saw) \in Nat /\ DOMAIN saw = 1..Len(saw)
  BY <1>3
<1>5. \A k \in DOMAIN saw : FALSE
  BY <1>2 DEF Looked
<1>6. Len(saw) = 0
  BY <1>4, <1>5
<1> QED BY <1>2, <1>5, <1>6 DEF ChartInv, ChartDone

\* Every step of the scan, of the scanners left behind and of the registry
\* keeps the invariant.
LEMMA ChartStep == ChartInv /\ [Next]_vars => ChartInv'
<1> SUFFICES ASSUME ChartInv, [Next]_vars PROVE ChartInv'
  OBVIOUS
<1>1. CASE Render
  <2>1. /\ pc = "render" /\ images' = Extracted(chart)
        /\ pc' = IF images' = <<>> THEN "ok" ELSE IF registry THEN "auth" ELSE "error"
        /\ UNCHANGED <<chart, fail_open, registry, tags, named, at, merged, saw, skipped, orphans>>
    BY <1>1 DEF Render, configVars, scanVars
  <2>2. at = 1 /\ ~Ended /\ Looked' = Looked
    BY <2>1 DEF ChartInv, ChartPlace, Ended, Looked
  <2>3. ChartTyped'
    BY <2>1 DEF ChartInv, ChartTyped
  <2>4. ChartPlace'
    BY <2>1, <2>2 DEF ChartPlace
  <2>5. ChartDone'
    <3>1. Looked = {} /\ skipped = {}
      BY <2>2, BeforeTheLoop
    <3>2. {images'[k] : k \in 1..(at' - 1)} = {}
      BY <2>1, <2>2
    <3> QED BY <2>1, <2>2, <3>1, <3>2 DEF ChartInv, ChartDone
  <2>6. ChartHistory'
    BY <2>1, <2>2 DEF ChartInv, ChartHistory
  <2> QED BY <2>3, <2>4, <2>5, <2>6 DEF ChartInv
<1>2. CASE RenderFails \/ WriteAuth
  <2>1. /\ pc \in {"render", "auth"} /\ pc' \in {"scan", "error"}
        /\ pc' = "scan" => pc = "auth"
        /\ UNCHANGED <<chart, fail_open, registry, tags, named, images, at, merged, saw, skipped, orphans>>
    BY <1>2 DEF RenderFails, WriteAuth, configVars, scanVars
  <2>2. ~Ended /\ Looked' = Looked
    BY <2>1 DEF Ended, Looked
  <2>3. ChartTyped'
    BY <2>1 DEF ChartInv, ChartTyped
  <2>4. ChartPlace'
    <3>1. CASE pc' = "error"
      BY <2>1, <3>1 DEF ChartPlace
    <3>2. CASE pc' = "scan"
      <4>1. pc = "auth" /\ images = Extracted(chart) /\ at = 1 /\ images # <<>>
        BY <2>1, <3>2 DEF ChartInv, ChartPlace
      <4>2. images \in Seq(Images)
        BY <4>1, ExtractsReferences DEF ChartInv, ChartTyped, Distinct
      <4>3. 1 \in 1..Len(images)
        BY <4>1, <4>2
      <4> QED BY <2>1, <3>2, <4>1, <4>3 DEF ChartPlace
    <3> QED BY <2>1, <3>1, <3>2
  <2>5. ChartDone'
    BY <2>1, <2>2 DEF ChartInv, ChartDone
  <2>6. ChartHistory'
    BY <2>1, <2>2 DEF ChartInv, ChartHistory
  <2> QED BY <2>3, <2>4, <2>5, <2>6 DEF ChartInv
<1>3. CASE ScanImage
  BY <1>3, ScanImageKeeps
<1>4. CASE ScanFails \/ ScanTimesOut
  BY <1>4, FailedImageKeeps DEF ScanFails, ScanTimesOut
<1>5. CASE OrphanExits \/ UNCHANGED vars
  <2>1. UNCHANGED <<chart, fail_open, registry, tags, named, pc, images, at, merged, saw, skipped>>
    BY <1>5 DEF OrphanExits, vars, configVars, scanVars
  <2>2. Looked' = Looked /\ Ended' = Ended
    BY <2>1 DEF Looked, Ended
  <2> QED BY <2>1, <2>2 DEF ChartInv, ChartTyped, ChartPlace, ChartDone, ChartHistory
<1>6. ASSUME NEW i \in Images, NEW c \in Contents, MoveTag(i, c) PROVE ChartInv'
  <2>1. /\ tags' = [tags EXCEPT ![i] = c]
        /\ named' = IF Ended THEN named ELSE [named EXCEPT ![i] = @ \cup {c}]
        /\ UNCHANGED <<chart, fail_open, registry, pc, images, at, merged, saw, skipped, orphans>>
    BY <1>6 DEF MoveTag, configVars, scanVars
  <2>2. Looked' = Looked /\ Ended' = Ended
    BY <2>1 DEF Looked, Ended
  <2>3. tags' \in [Images -> Contents] /\ named' \in [Images -> SUBSET Contents]
    BY <2>1 DEF ChartInv, ChartTyped
  <2>4. \A j \in Images : named[j] \subseteq named'[j]
    BY <2>1 DEF ChartInv, ChartTyped
  <2>5. ChartTyped'
    BY <2>1, <2>3 DEF ChartInv, ChartTyped
  <2>6. ChartPlace' /\ ChartDone'
    BY <2>1, <2>2 DEF ChartInv, ChartPlace, ChartDone
  <2>7. ChartHistory'
    <3>1. ~Ended => \A j \in Images : tags'[j] \in named'[j]
      BY <2>1 DEF ChartInv, ChartTyped, ChartHistory
    <3>2. \A k \in DOMAIN saw : saw[k].image \in Images
      BY EntriesTyped DEF ChartInv, ChartTyped
    <3> QED BY <2>1, <2>2, <2>4, <3>1, <3>2 DEF ChartInv, ChartHistory
  <2> QED BY <2>5, <2>6, <2>7 DEF ChartInv
<1> QED BY <1>1, <1>2, <1>3, <1>4, <1>5, <1>6 DEF Next, Scan

\* At the end every image the chart refers to was looked at or passed over.
LEMMA EndedWell ==
    ASSUME ChartInv, pc = "ok"
    PROVE  /\ References = Looked \cup skipped
           /\ Looked \cup skipped = ToSet(images)
           /\ References \subseteq Images
           /\ Len(saw) + Cardinality(skipped) = Len(images)
<1>1. chart \in Charts /\ images = Extracted(chart) /\ at = Len(images) + 1
  BY DEF ChartInv, ChartTyped, ChartPlace
<1>2. Distinct(images) /\ ToSet(images) = References /\ References \subseteq Images
  BY <1>1, ExtractsReferences
<1>3. Len(images) \in Nat /\ DOMAIN images = 1..Len(images)
  BY <1>2 DEF Distinct
<1>4. at - 1 = Len(images)
  BY <1>1, <1>3
<1>5. ToSet(images) = {images[k] : k \in 1..(at - 1)}
  BY <1>3, <1>4 DEF ToSet
<1> QED BY <1>2, <1>4, <1>5 DEF ChartInv, ChartDone

\* The invariant says what MergeIsComplete says.
LEMMA InvariantMerges == ChartInv => MergeIsComplete
<1> SUFFICES ASSUME ChartInv, pc = "ok"
             PROVE  /\ ToSet(images) = Looked \cup skipped
                    /\ skipped # {} => fail_open
                    /\ Len(saw) + Cardinality(skipped) = Len(images)
                    /\ merged = UNION {FindingsIn[saw[k].content] : k \in DOMAIN saw}
  BY DEF MergeIsComplete, Looked
<1> QED BY EndedWell DEF ChartInv, ChartDone
------------------------------------------------------------------------------
(* HelmChart implements ScanContract.                                        *)

\* The findings of the referenced images, under every content and under some
\* content that their tags named.
Must ==
    {v \in UNION {FindingsIn[c] : c \in Contents} :
        \E i \in References : \A c \in named[i] : v \in FindingsIn[c]}
May == UNION {FindingsIn[c] : c \in UNION {named[i] : i \in References}}

\* A scan that ends well gives out what the contract asks for.
LEMMA AnswerIsRight ==
    ASSUME ChartInv, pc = "ok"
    PROVE  /\ fail_open \/ Must \subseteq merged
           /\ merged \subseteq May
<1>1. /\ References = Looked \cup skipped /\ References \subseteq Images
      /\ merged = UNION {FindingsIn[saw[k].content] : k \in DOMAIN saw}
      /\ skipped # {} => fail_open
      /\ \A k \in DOMAIN saw : saw[k].content \in named[saw[k].image]
  BY EndedWell DEF ChartInv, ChartDone, ChartHistory
<1>2. ASSUME ~fail_open, NEW v \in Must PROVE v \in merged
  <2>1. PICK i \in References : \A c \in named[i] : v \in FindingsIn[c]
    BY DEF Must
  <2>2. PICK k \in DOMAIN saw : saw[k].image = i
    BY <1>1, <1>2 DEF Looked
  <2>3. v \in FindingsIn[saw[k].content]
    BY <1>1, <2>1, <2>2
  <2> QED BY <1>1, <2>3
<1>3. ASSUME NEW v \in merged PROVE v \in May
  <2>1. PICK k \in DOMAIN saw : v \in FindingsIn[saw[k].content]
    BY <1>1
  <2>2. saw[k].image \in References
    BY <1>1 DEF Looked
  <2>3. saw[k].content \in UNION {named[i] : i \in References}
    BY <1>1, <2>2
  <2> QED BY <2>1, <2>3 DEF May
<1> QED BY <1>2, <1>3

\* The same of the state after a step.
LEMMA AnswerAfter ==
    ChartInv' /\ (pc = "ok")' => (fail_open \/ Must \subseteq merged)' /\ (merged \subseteq May)'
<1>1. ChartInv /\ pc = "ok" => (fail_open \/ Must \subseteq merged) /\ merged \subseteq May
  BY AnswerIsRight
<1> QED BY <1>1, PTL

\* A chart that is not rendered yet has given out nothing.
LEMMA ChartContractInit == Init => ChartContract!Init
<1> SUFFICES ASSUME Init PROVE ChartContract!Init
  OBVIOUS
<1>1. pc = "render" /\ fail_open \in BOOLEAN /\ chart \in Charts
  BY DEF Init
<1>2. tags \in [Images -> Contents] /\ named = [i \in Images |-> {tags[i]}]
  BY DEF Init
<1>3. References \subseteq Images
  BY <1>1, ExtractsReferences
<1>4. \A i \in References : named[i] = {tags[i]} /\ tags[i] \in Contents
  BY <1>2, <1>3
<1>5. Must = May
  <2>1. ASSUME NEW v \in Must PROVE v \in May
    <3>1. PICK i \in References : \A c \in named[i] : v \in FindingsIn[c]
      BY DEF Must
    <3>2. tags[i] \in UNION {named[j] : j \in References} /\ v \in FindingsIn[tags[i]]
      BY <1>4, <3>1
    <3> QED BY <3>2 DEF May
  <2>2. ASSUME NEW v \in May PROVE v \in Must
    <3>1. PICK i \in References : v \in FindingsIn[tags[i]]
      BY <1>4 DEF May
    <3>2. v \in UNION {FindingsIn[c] : c \in Contents}
      BY <1>4, <3>1
    <3>3. \A c \in named[i] : v \in FindingsIn[c]
      BY <1>4, <3>1
    <3> QED BY <3>1, <3>2, <3>3 DEF Must
  <2> QED BY <2>1, <2>2
<1> QED BY <1>1, <1>5 DEF ChartContract!Init, Ended, Must, May

\* What a step does that leaves the tags alone.
LEMMA WorldStays ==
    ASSUME UNCHANGED <<chart, named>>
    PROVE  Must' = Must /\ May' = May
<1>1. References' = References
  BY DEF References
<1> QED BY <1>1 DEF Must, May

\* A step that does not end the scan and leaves the tags alone is no step of
\* the contract.
LEMMA ContractStutters ==
    ASSUME pc = pc' \/ ({pc, pc'} \cap {"ok", "error"} = {}),
           pc = "ok" => UNCHANGED merged,
           UNCHANGED <<chart, named, fail_open>>
    PROVE  UNCHANGED ChartContract!vars
<1>1. Must' = Must /\ May' = May
  BY WorldStays
<1>2. (IF Ended THEN pc ELSE "pending")' = IF Ended THEN pc ELSE "pending"
  BY DEF Ended
<1>3. (IF pc = "ok" THEN merged ELSE {})' = IF pc = "ok" THEN merged ELSE {}
  OBVIOUS
<1> QED BY <1>1, <1>2, <1>3 DEF ChartContract!vars, Must, May

\* A step that ends the scan well is the contract's Succeed.
LEMMA ContractSucceeds ==
    ASSUME ChartInv', ~Ended, pc' = "ok", UNCHANGED <<chart, named, fail_open>>
    PROVE  ChartContract!Succeed
<1>1. Must' = Must /\ May' = May
  BY WorldStays
<1>2. (fail_open \/ Must \subseteq merged)' /\ (merged \subseteq May)'
  BY AnswerAfter
<1> QED BY <1>1, <1>2 DEF ChartContract!Succeed, Ended, Must, May

\* A step of the scan, of the scanners left behind or of the registry is a step
\* of the contract, or none that it sees.
LEMMA ChartContractStep ==
    ChartInv /\ ChartInv' /\ [Next]_vars => [ChartContract!Next]_(ChartContract!vars)
<1> SUFFICES ASSUME ChartInv, ChartInv', [Next]_vars
             PROVE  ChartContract!Next \/ UNCHANGED ChartContract!vars
  OBVIOUS
<1>1. CASE Scan
  <2>1. /\ pc \in {"render", "auth", "scan"}
        /\ UNCHANGED <<chart, fail_open, named>>
    BY <1>1 DEF Scan, Render, RenderFails, WriteAuth, ScanImage, ScanFails, ScanTimesOut,
                FailedImage, configVars
  <2>2. ~Ended /\ pc' \in {"render", "auth", "scan", "ok", "error"}
    BY <2>1 DEF Ended, ChartInv, ChartTyped
  <2>3. CASE pc' = "ok"
    BY <2>1, <2>2, <2>3, ContractSucceeds DEF ChartContract!Next
  <2>4. CASE pc' = "error"
    <3>1. Must' = Must /\ May' = May
      BY <2>1, WorldStays
    <3>2. ChartContract!Fail
      BY <2>1, <2>2, <2>4, <3>1 DEF ChartContract!Fail, Ended, Must, May
    <3> QED BY <3>2 DEF ChartContract!Next
  <2>5. CASE pc' \in {"render", "auth", "scan"}
    BY <2>1, <2>5, ContractStutters
  <2> QED BY <2>2, <2>3, <2>4, <2>5
<1>2. CASE OrphanExits \/ UNCHANGED vars
  <2>1. UNCHANGED <<chart, fail_open, named, pc, merged>>
    BY <1>2 DEF OrphanExits, vars, configVars, scanVars
  <2> QED BY <2>1, ContractStutters
<1>3. ASSUME NEW i \in Images, NEW c \in Contents, MoveTag(i, c)
      PROVE  ChartContract!Next \/ UNCHANGED ChartContract!vars
  <2>1. /\ named' = IF Ended THEN named ELSE [named EXCEPT ![i] = @ \cup {c}]
        /\ UNCHANGED <<chart, fail_open, pc, merged>>
    BY <1>3 DEF MoveTag, configVars, scanVars
  <2>2. CASE Ended
    BY <2>1, <2>2, ContractStutters
  <2>3. CASE ~Ended
    <3>1. \A j \in Images : named[j] \subseteq named'[j]
      BY <2>1, <2>3 DEF ChartInv, ChartTyped
    <3>2. References' = References /\ References \subseteq Images
      BY <2>1, ExtractsReferences DEF References, ChartInv, ChartTyped
    <3>3. Must' \subseteq Must
      BY <3>1, <3>2 DEF Must
    <3>4. May \subseteq May'
      <4> SUFFICES ASSUME NEW v \in May PROVE v \in May'
        OBVIOUS
      <4>1. PICK d \in UNION {named[j] : j \in References} : v \in FindingsIn[d]
        BY DEF May
      <4>2. d \in UNION {named'[j] : j \in References'}
        BY <3>1, <3>2
      <4> QED BY <4>1, <4>2 DEF May
    <3>5. ChartContract!Move
      BY <2>1, <2>3, <3>3, <3>4 DEF ChartContract!Move, Ended, Must, May
    <3> QED BY <3>5 DEF ChartContract!Next
  <2> QED BY <2>2, <2>3
<1> QED BY <1>1, <1>2, <1>3 DEF Next
------------------------------------------------------------------------------
(* The sources of a scan together.                                           *)

\* A behaviour of ScanSources is one of the chart's scan and one of the query;
\* whichever is not asked stutters.
LEMMA SourcesAreTheirParts == SourcesSpec => Spec /\ QuerySpec
<1>1. SourcesInit => Init /\ QueryInit
  BY DEF SourcesInit
<1>2. [SourcesNext]_sourcesVars => [Next]_vars /\ [QueryNext]_queryVars
  BY DEF SourcesNext, sourcesVars, Classify, AskOsv, ScanChart
<1> QED BY <1>1, <1>2, PTL DEF SourcesSpec, Spec, QuerySpec

\* A Helm chart whose scan ends well was scanned to its last image: each image
\* that parse_image_references extracts was looked at once, or passed over with
\* fail_open, and no finding was dropped in the merge; for any chart, any number
\* of images and any moves of their tags.
THEOREM MergesAreComplete == SourcesSpec => []MergeIsComplete
<1>1. Init => ChartInv
  BY ChartInitial
<1>2. ChartInv /\ [Next]_vars => ChartInv'
  BY ChartStep
<1>3. ChartInv => MergeIsComplete
  BY InvariantMerges
<1> QED BY <1>1, <1>2, <1>3, SourcesAreTheirParts, PTL DEF Spec

\* The scan of a Helm chart, image after image while tags move, is one scan as
\* ScanContract describes it.
THEOREM ChartImplementsContract == Spec => ChartKeepsContract
<1>1. Init => ChartInv /\ ChartContract!Init
  BY ChartInitial, ChartContractInit
<1>2. ChartInv /\ [Next]_vars => ChartInv'
  BY ChartStep
<1>3. ChartInv /\ ChartInv' /\ [Next]_vars => [ChartContract!Next]_(ChartContract!vars)
  BY ChartContractStep
<1> QED BY <1>1, <1>2, <1>3, PTL DEF Spec, ChartKeepsContract, ChartContract!Spec

\* Whatever is downloaded, both sources keep the contract the request path
\* relies on.
THEOREM SourcesKeepContract == SourcesSpec => ChartKeepsContract /\ QueryKeepsContract
BY SourcesAreTheirParts, ChartImplementsContract, QueryImplementsContract, PTL
------------------------------------------------------------------------------
(* Classifier: what the paths of releases are taken for.                     *)

\* What is put after a text keeps its order, and so does the text.
LEMMA Joined ==
    ASSUME NEW S, NEW a \in Seq(S), NEW b \in Seq(S)
    PROVE  /\ a \o b \in Seq(S) /\ Len(a \o b) = Len(a) + Len(b)
           /\ \A i \in 1..Len(a) : (a \o b)[i] = a[i]
           /\ \A i \in 1..Len(b) : (a \o b)[Len(a) + i] = b[i]
           /\ Len(a) \in Nat /\ Len(b) \in Nat
OBVIOUS

\* A path made of a name and two more segments.
LEMMA TwoMore ==
    ASSUME NEW S, NEW name \in Seq(S), NEW a, NEW b
    PROVE  LET s == name \o <<a, b>> IN
           /\ Len(s) = Len(name) + 2
           /\ \A i \in 1..Len(name) : s[i] = name[i]
           /\ s[Len(name) + 1] = a /\ s[Len(name) + 2] = b
           /\ SubSeq(s, 1, Len(name)) = name
<1> DEFINE T == S \cup {a, b}
           s == name \o <<a, b>>
<1>1. name \in Seq(T) /\ <<a, b>> \in Seq(T) /\ Len(name) \in Nat
  <2>1. ASSUME NEW U, NEW x \in U, NEW y \in U PROVE <<x, y>> \in Seq(U)
    OBVIOUS
  <2>2. a \in T /\ b \in T /\ S \subseteq T
    OBVIOUS
  <2>3. ASSUME NEW U, S \subseteq U PROVE name \in Seq(U)
    BY <2>3
  <2> HIDE DEF T
  <2> QED BY <2>1, <2>2, <2>3
<1>2. Len(<<a, b>>) = 2 /\ <<a, b>>[1] = a /\ <<a, b>>[2] = b
  OBVIOUS
<1> HIDE DEF T
<1>3. /\ s \in Seq(T) /\ Len(s) = Len(name) + 2
      /\ \A i \in 1..Len(name) : s[i] = name[i]
      /\ s[Len(name) + 1] = a /\ s[Len(name) + 2] = b
  <2> DEFINE u == <<a, b>>
  <2>1. u \in Seq(T) /\ Len(u) = 2 /\ u[1] = a /\ u[2] = b
    BY <1>1, <1>2
  <2>0. name \in Seq(T) /\ u \in Seq(T)
    BY <1>1
  <2> HIDE DEF u
  <2>2. /\ name \o u \in Seq(T) /\ Len(name \o u) = Len(name) + Len(u)
        /\ \A i \in 1..Len(name) : (name \o u)[i] = name[i]
        /\ \A i \in 1..Len(u) : (name \o u)[Len(name) + i] = u[i]
    BY <2>0, Joined
  <2>3. 1 \in 1..Len(u) /\ 2 \in 1..Len(u)
    BY <2>1
  <2>4. (name \o u)[Len(name) + 1] = u[1] /\ (name \o u)[Len(name) + 2] = u[2]
    BY <2>2, <2>3
  <2> QED BY <2>1, <2>2, <2>4 DEF u
<1> HIDE DEF s
<1>4. SubSeq(s, 1, Len(name)) = name
  BY <1>1, <1>3
<1> QED BY <1>3, <1>4 DEF s

\* A file name that starts with a, goes on with b and may go on with c.
LEMMA Stem ==
    ASSUME NEW S, NEW a \in Seq(S), NEW b \in Seq(S), NEW c \in Seq(S)
    PROVE  /\ a \o b \in Seq(S) /\ a \o b \o c \in Seq(S)
           /\ Len(a \o b) = Len(a) + Len(b)
           /\ Len(a \o b \o c) = Len(a) + Len(b) + Len(c)
           /\ \A i \in 1..Len(a) : (a \o b)[i] = a[i] /\ (a \o b \o c)[i] = a[i]
           /\ \A i \in 1..Len(b) : /\ (a \o b)[Len(a) + i] = b[i]
                                   /\ (a \o b \o c)[Len(a) + i] = b[i]
<1> DEFINE d == a \o b
<1>1. /\ d \in Seq(S) /\ Len(d) = Len(a) + Len(b)
      /\ \A i \in 1..Len(a) : d[i] = a[i]
      /\ \A i \in 1..Len(b) : d[Len(a) + i] = b[i]
      /\ Len(a) \in Nat /\ Len(b) \in Nat
  BY Joined
<1>0. d \in Seq(S)
  BY <1>1
<1> HIDE DEF d
<1>2. /\ d \o c \in Seq(S) /\ Len(d \o c) = Len(d) + Len(c)
      /\ \A i \in 1..Len(d) : (d \o c)[i] = d[i]
  BY <1>0, Joined
<1>3. /\ \A i \in 1..Len(a) : i \in 1..Len(d)
      /\ \A i \in 1..Len(b) : Len(a) + i \in 1..Len(d)
  BY <1>1
<1> QED BY <1>1, <1>2, <1>3 DEF d

\* The middle of a file name is included in it.
LEMMA MiddleIsIncluded ==
    ASSUME NEW S, NEW a \in Seq(S), NEW b \in Seq(S), NEW c \in Seq(S), b # <<>>
    PROVE  Includes(a \o b \o c, b)
<1> DEFINE text == a \o b \o c
           i == Len(a) + 1
           rest == SubSeq(text, i, Len(text))
<1>1. /\ text \in Seq(S) /\ Len(text) = Len(a) + Len(b) + Len(c)
      /\ \A k \in 1..Len(b) : text[Len(a) + k] = b[k]
  BY Stem
<1>2. Len(a) \in Nat /\ Len(b) \in Nat /\ Len(c) \in Nat /\ Len(b) # 0
  OBVIOUS
<1> HIDE DEF text
<1>3. i \in 1..Len(text)
  BY <1>1, <1>2
<1>4. /\ rest \in Seq(S) /\ Len(rest) = Len(b) + Len(c)
      /\ \A k \in 1..Len(rest) : rest[k] = text[i + k - 1]
  BY <1>1, <1>2
<1>5. \A k \in 1..Len(b) : rest[k] = b[k]
  <2> SUFFICES ASSUME NEW k \in 1..Len(b) PROVE rest[k] = b[k]
    OBVIOUS
  <2>1. k \in 1..Len(rest) /\ i + k - 1 = Len(a) + k
    BY <1>2, <1>4
  <2> QED BY <1>1, <1>4, <2>1
<1> HIDE DEF rest
<1>6. Len(b) <= Len(rest) /\ SubSeq(b, 1, Len(b)) = SubSeq(rest, 1, Len(b))
  BY <1>2, <1>4, <1>5
<1>7. IsPrefix(b, rest)
  BY <1>6 DEF IsPrefix
<1> QED BY <1>3, <1>7 DEF Includes, rest, text

\* A segment of a published name.
LEMMA SegmentParts ==
    ASSUME NEW x \in Segments
    PROVE  x.parts \in Seq(STRING) /\ x.parts # <<>>
BY DEF Segments

\* The name and the version of a release.
LEMMA PublishedParts ==
    ASSUME NEW p, Published(p)
    PROVE  /\ p.name \in Seq(Segments) /\ Len(p.name) \in Nat
           /\ p.version \in Seq(STRING) /\ p.version # <<>>
           /\ \A i \in 1..Len(p.name) : p.name[i].parts \in Seq(STRING) /\ p.name[i].parts # <<>>
<1>1. p.name \in Seq(Segments) /\ p.version \in Seq(STRING) /\ p.version # <<>>
  BY DEF Published
<1>2. Len(p.name) \in Nat /\ \A i \in 1..Len(p.name) : p.name[i] \in Segments
  BY <1>1
<1> QED BY <1>1, <1>2, SegmentParts

\* Words of file names.
Words == STRING \cup {"sources", "py3", "none", "any"}

\* A sequence over a set is one over a larger set.
LEMMA MoreWords ==
    ASSUME NEW S, NEW T, S \subseteq T, NEW t \in Seq(S)
    PROVE  t \in Seq(T)
OBVIOUS

\* A path with a file below something is not empty.
LEMMA NotEmpty ==
    ASSUME NEW s, NEW k \in Nat, Len(s) = k + 2
    PROVE  s # <<>>
<1>1. Len(<<>>) = 0 /\ k + 2 # 0
  OBVIOUS
<1> QED BY <1>1, Zenon

\* A jar is looked up under the group and artifact above it and the version of
\* its directory.
LEMMA MavenRelease ==
    ASSUME NEW p, Published(p), Len(p.name) >= 2, NEW context, NEW s \in MavenPaths(p)
    PROVE  s # <<>> /\ ClassifyMaven(context, s) = PackageTarget(context, p.name, p.version)
<1> DEFINE n == Len(p.name)
           artifact == p.name[n].parts
<1>1. PICK classifier \in {<<>>, <<"sources">>} :
         s = p.name \o <<Text(p.version), File(artifact \o p.version \o classifier, "jar")>>
  BY DEF MavenPaths, Last
<1> DEFINE dir == Text(p.version)
           file == File(artifact \o p.version \o classifier, "jar")
<1>2. n \in Nat /\ artifact \in Seq(STRING) /\ p.version \in Seq(STRING) /\ p.version # <<>>
  <2>1. n \in 1..Len(p.name) /\ n \in Nat
    BY PublishedParts
  <2> QED BY <2>1, PublishedParts
<1>3. Includes(artifact \o p.version \o classifier, p.version)
  <2>1. STRING \subseteq Words /\ "sources" \in Words
    BY DEF Words
  <2>2. artifact \in Seq(Words) /\ p.version \in Seq(Words)
    BY <1>2, <2>1, MoreWords
  <2>3. classifier \in Seq(Words)
    <3>1. ASSUME NEW S, NEW x \in S PROVE <<>> \in Seq(S) /\ <<x>> \in Seq(S)
      OBVIOUS
    <3> QED BY <2>1, <3>1
  <2> HIDE DEF artifact
  <2> QED BY <1>2, <2>2, <2>3, MiddleIsIncluded
<1>4. dir.parts = p.version /\ file.parts = artifact \o p.version \o classifier /\ file.suffix = "jar"
  BY DEF Text, File
<1> HIDE DEF dir, file
<1>5. /\ Len(s) = n + 2 /\ s[n + 1] = dir /\ s[n + 2] = file /\ SubSeq(s, 1, n) = p.name
  <2>1. p.name \in Seq(Segments) /\ s = p.name \o <<dir, file>>
    BY <1>1, PublishedParts DEF dir, file
  <2> QED BY <2>1, TwoMore
<1>6. Len(s) >= 4 /\ Len(s) - 1 = n + 1 /\ Len(s) - 2 = n
  BY <1>2, <1>5
<1>7. /\ s[Len(s)] = file /\ s[Len(s) - 1] = dir /\ SubSeq(s, 1, Len(s) - 2) = p.name
  BY <1>5, <1>6
<1>8. ~(Len(s) < 4) /\ Len(s) \in Nat
  BY <1>2, <1>5, <1>6
<1>9. ~(s[Len(s)].suffix \in {"sidecar", "metadata"}) /\ Includes(s[Len(s)].parts, s[Len(s) - 1].parts)
  BY <1>3, <1>4, <1>7
<1>10. s # <<>>
  BY <1>2, <1>5, NotEmpty
<1> QED BY <1>4, <1>7, <1>8, <1>9, <1>10 DEF ClassifyMaven


\* What follows the beginning of a file name, and its last part.
LEMMA AfterPrefix ==
    ASSUME NEW S, NEW a \in Seq(S), NEW b \in Seq(S), b # <<>>
    PROVE  /\ Len(a) < Len(a \o b) /\ IsPrefix(a, a \o b)
           /\ SubSeq(a \o b, Len(a) + 1, Len(a \o b)) = b
           /\ Len(b) = 1 => Front(a \o b) = a /\ <<Last(a \o b)>> = b
           /\ Len(a \o b) = Len(a) + Len(b) /\ Len(b) >= 1
<1> DEFINE t == a \o b
<1>1. /\ t \in Seq(S) /\ Len(t) = Len(a) + Len(b)
      /\ \A i \in 1..Len(a) : t[i] = a[i]
      /\ \A i \in 1..Len(b) : t[Len(a) + i] = b[i]
      /\ Len(a) \in Nat /\ Len(b) \in Nat
  BY Joined
<1>2. Len(b) >= 1
  BY <1>1
<1> HIDE DEF t
<1>3. Len(a) < Len(t)
  BY <1>1, <1>2
<1>4. SubSeq(t, 1, Len(a)) = a
  BY <1>1
<1>5. SubSeq(t, Len(a) + 1, Len(t)) = b
  BY <1>1, <1>2
<1>6. IsPrefix(a, t)
  <2>1. SubSeq(a, 1, Len(a)) = a
    OBVIOUS
  <2> QED BY <1>1, <1>3, <1>4, <2>1 DEF IsPrefix
<1>7. Len(b) = 1 => Front(t) = a /\ <<Last(t)>> = b
  <2> SUFFICES ASSUME Len(b) = 1 PROVE Front(t) = a /\ <<Last(t)>> = b
    OBVIOUS
  <2>1. Len(t) - 1 = Len(a) /\ Len(t) = Len(a) + 1
    BY <1>1
  <2>2. Front(t) = a
    BY <1>4, <2>1 DEF Front
  <2>3. Last(t) = b[1]
    BY <1>1, <2>1 DEF Last
  <2>4. b = <<b[1]>>
    OBVIOUS
  <2> QED BY <2>2, <2>3, <2>4
<1> QED BY <1>1, <1>2, <1>3, <1>5, <1>6, <1>7 DEF t

\* A tarball is looked up under the name above it, with the scope it may have,
\* and the version after that name, hyphens included.
LEMMA NpmRelease ==
    ASSUME NEW p, Published(p), NEW context, NEW s \in NpmPaths(p),
           \/ Len(p.name) = 1
           \/ Len(p.name) = 2 /\ p.name[1].parts[1] \in Scopes
    PROVE  s # <<>> /\ ClassifyNpm(context, s) = PackageTarget(context, p.name, p.version)
<1> DEFINE n == Len(p.name)
           base == p.name[n].parts
           file == File(base \o p.version, "tgz")
<1>1. s = p.name \o <<Hyphen, file>>
  BY DEF NpmPaths, Last
<1>2. n \in {1, 2} /\ p.name \in Seq(Segments) /\ p.version \in Seq(STRING) /\ p.version # <<>>
  BY PublishedParts
<1>3. base \in Seq(STRING) /\ base # <<>>
  <2>1. ASSUME NEW k \in {1, 2} PROVE k \in 1..k
    OBVIOUS
  <2>2. n \in 1..Len(p.name)
    BY <1>2, <2>1
  <2> QED BY <2>2, PublishedParts
<1>4. file.parts = base \o p.version /\ file.suffix = "tgz"
  BY DEF File
<1> HIDE DEF base, file
<1>5. /\ Len(s) = n + 2 /\ s[n + 1] = Hyphen /\ s[n + 2] = file /\ SubSeq(s, 1, n) = p.name
      /\ \A i \in 1..n : s[i] = p.name[i]
  BY <1>1, <1>2, TwoMore
<1>6. /\ Len(base) < Len(base \o p.version) /\ IsPrefix(base, base \o p.version)
      /\ SubSeq(base \o p.version, Len(base) + 1, Len(base \o p.version)) = p.version
  BY <1>2, <1>3, AfterPrefix
<1>7. NpmVersion(base \o p.version, base) = p.version
  BY <1>6 DEF NpmVersion
<1>8. Len(base \o p.version) >= 2
  <2>1. Len(base) \in Nat /\ Len(base) # 0
    BY <1>3
  <2>2. Len(base \o p.version) = Len(base) + Len(p.version) /\ Len(p.version) >= 1
    BY <1>2, <1>3, AfterPrefix
  <2>3. Len(p.version) \in Nat
    BY <1>2
  <2> QED BY <2>1, <2>2, <2>3
<1>9. Last(s) = file /\ Last(p.name).parts = base
  BY <1>2, <1>5 DEF Last, base
<1>10. ASSUME n = 1 PROVE ClassifyNpm(context, s) = PackageTarget(context, p.name, p.version)
  <2>1. Len(s) = 3 /\ s[2] = Hyphen /\ SubSeq(s, 1, 1) = p.name
    BY <1>5, <1>10
  <2>2. ~(Len(s) >= 4) /\ Len(s) >= 3
    BY <2>1
  <2> QED BY <1>4, <1>7, <1>8, <1>9, <2>1, <2>2 DEF ClassifyNpm
<1>11. ASSUME n = 2 PROVE ClassifyNpm(context, s) = PackageTarget(context, p.name, p.version)
  <2>1. Len(s) = 4 /\ s[3] = Hyphen /\ SubSeq(s, 1, 2) = p.name /\ s[1] = p.name[1]
    BY <1>5, <1>11
  <2>2. Len(s) >= 4 /\ s[1].parts[1] \in Scopes
    BY <1>11, <2>1
  <2> QED BY <1>4, <1>7, <1>8, <1>9, <2>1, <2>2 DEF ClassifyNpm
<1>12. s # <<>>
  BY <1>2, <1>5, NotEmpty
<1> QED BY <1>2, <1>10, <1>11, <1>12

\* A file name with one part after the others.
LEMMA OneMore ==
    ASSUME NEW S, NEW a \in Seq(S), a # <<>>, NEW b \in Seq(S), Len(b) = 1
    PROVE  Front(a \o b) = a /\ <<Last(a \o b)>> = b /\ ~(Len(a \o b) < 2)
<1>1. b # <<>> /\ Len(a) \in Nat /\ Len(a) # 0
  <2>1. ASSUME NEW T, NEW t \in Seq(T) PROVE Len(t) \in Nat /\ (Len(t) = 0 <=> t = <<>>)
    OBVIOUS
  <2>2. Len(a) \in Nat /\ Len(a) # 0
    BY <2>1
  <2>3. Len(<<>>) = 0 /\ 1 # 0
    OBVIOUS
  <2>4. b # <<>>
    BY <2>3, Zenon
  <2> QED BY <2>2, <2>4
<1>2. /\ Len(b) = 1 => Front(a \o b) = a /\ <<Last(a \o b)>> = b
      /\ Len(a \o b) = Len(a) + Len(b)
  BY <1>1, AfterPrefix
<1>3. ~(Len(a \o b) < 2)
  BY <1>1, <1>2
<1> QED BY <1>2, <1>3

\* A file name that starts with two parts.
LEMMA TwoParts ==
    ASSUME NEW S, NEW a \in Seq(S), Len(a) = 1, NEW b \in Seq(S), Len(b) = 1, NEW c \in Seq(S)
    PROVE  LET t == a \o b \o c IN <<t[1]>> = a /\ <<t[2]>> = b /\ ~(Len(t) < 2)
<1> DEFINE t == a \o b \o c
<1>1. /\ Len(t) = Len(a) + Len(b) + Len(c)
      /\ \A i \in 1..Len(a) : t[i] = a[i]
      /\ \A i \in 1..Len(b) : t[Len(a) + i] = b[i]
  BY Stem
<1>2. Len(c) \in Nat /\ <<a[1]>> = a /\ <<b[1]>> = b
  OBVIOUS
<1> HIDE DEF t
<1>3. 1 \in 1..Len(a) /\ 1 \in 1..Len(b) /\ Len(a) + 1 = 2 /\ ~(Len(t) < 2)
  BY <1>1, <1>2
<1>4. t[1] = a[1] /\ t[2] = b[1]
  BY <1>1, <1>3
<1> QED BY <1>2, <1>3, <1>4 DEF t

\* The file at the end of a path of two segments.
LEMMA FileAtEnd ==
    ASSUME NEW a, NEW stem, NEW suffix
    PROVE  /\ Last(<<a, File(stem, suffix)>>).parts = stem
           /\ Last(<<a, File(stem, suffix)>>).suffix = suffix
<1>1. ASSUME NEW b PROVE Last(<<a, b>>) = b
  BY DEF Last
<1>2. File(stem, suffix).parts = stem /\ File(stem, suffix).suffix = suffix
  BY DEF File
<1> HIDE DEF File
<1> QED BY <1>1, <1>2

\* A source archive: the name before the last hyphen.
LEMMA SourceArchive ==
    ASSUME NEW context, NEW a, NEW stem, NEW suffix \in {"tar.gz", "zip"}, ~(Len(stem) < 2)
    PROVE  ClassifyPypi(context, <<a, File(stem, suffix)>>)
             = PackageTarget(context, NormalizePypiName(Front(stem)), <<Last(stem)>>)
<1> DEFINE s == <<a, File(stem, suffix)>>
<1>1. Last(s).parts = stem /\ Last(s).suffix = suffix
  BY FileAtEnd
<1>2. suffix # "whl" /\ suffix \in {"tar.gz", "zip", "tgz"}
  OBVIOUS
<1> HIDE DEF s
<1>3. ClassifyPypi(context, s)
        = PackageTarget(context, NormalizePypiName(Front(stem)), <<Last(stem)>>)
  BY <1>1, <1>2 DEF ClassifyPypi
<1> QED BY <1>3 DEF s

\* A wheel: the name before the first hyphen, the version before the second.
LEMMA Wheel ==
    ASSUME NEW context, NEW a, NEW stem, ~(Len(stem) < 2)
    PROVE  ClassifyPypi(context, <<a, File(stem, "whl")>>)
             = PackageTarget(context, NormalizePypiName(<<stem[1]>>), <<stem[2]>>)
<1> DEFINE s == <<a, File(stem, "whl")>>
<1>1. Last(s).parts = stem /\ Last(s).suffix = "whl"
  BY FileAtEnd
<1> HIDE DEF s
<1>2. ClassifyPypi(context, s)
        = PackageTarget(context, NormalizePypiName(<<stem[1]>>), <<stem[2]>>)
  BY <1>1 DEF ClassifyPypi
<1> QED BY <1>2 DEF s

\* Words none of which is empty stay as they are.
LEMMA NoRuns ==
    ASSUME NEW words \in Seq(STRING), \A i \in DOMAIN words : words[i] # EmptyWord
    PROVE  NonEmpty(words) = words
<1> DEFINE n == Len(words)
           kept == {i \in DOMAIN words : words[i] # EmptyWord}
           Nth(k) == CHOOSE i \in kept : Cardinality({j \in kept : j <= i}) = k
<1>1. n \in Nat /\ DOMAIN words = 1..n
  OBVIOUS
<1>2. kept = 1..n
  BY <1>1
<1>3. ASSUME NEW m \in 0..n PROVE Cardinality(1..m) = m
  <2>1. Cardinality(1..m) = IF 1 > m THEN 0 ELSE m - 1 + 1
    BY <1>1, FS_Interval
  <2> QED BY <1>1, <2>1
<1> HIDE DEF kept
<1>4. ASSUME NEW i \in 1..n PROVE Cardinality({j \in kept : j <= i}) = i
  <2>1. {j \in kept : j <= i} = 1..i
    BY <1>1, <1>2
  <2>2. i \in 0..n
    BY <1>1
  <2> QED BY <1>3, <2>1, <2>2
<1>5. ASSUME NEW k \in 1..n PROVE Nth(k) = k
  <2>1. k \in kept /\ Cardinality({j \in kept : j <= k}) = k
    BY <1>2, <1>4
  <2>2. \A i \in kept : Cardinality({j \in kept : j <= i}) = k => i = k
    BY <1>2, <1>4
  <2> QED BY <2>1, <2>2
<1>6. Cardinality(kept) = n
  <2>1. n \in 0..n
    BY <1>1
  <2> QED BY <1>2, <1>3, <2>1
<1>7. NonEmpty(words) = [k \in 1..Cardinality(kept) |-> words[Nth(k)]]
  BY DEF NonEmpty, kept
<1> HIDE DEF Nth
<1>8. NonEmpty(words) = [k \in 1..n |-> words[k]]
  BY <1>5, <1>6, <1>7
<1>9. words = [k \in 1..n |-> words[k]]
  BY <1>1
<1> QED BY <1>8, <1>9, Zenon

\* With single separators normalize_pypi_name finds the name.
LEMMA PlainSpelling ==
    ASSUME NEW name \in DOMAIN Spelled, NEW parts \in Spelled[name],
           \A i \in DOMAIN PypiWords(parts) : PypiWords(parts)[i] # EmptyWord
    PROVE  NormalizePypiName(parts) = name
<1>1. PypiWords(parts) \in Seq(STRING) /\ PypiName(parts) = name
  BY PackagesAssumption
<1>2. NonEmpty(PypiWords(parts)) = PypiWords(parts)
  BY <1>1, NoRuns
<1> QED BY <1>1, <1>2 DEF NormalizePypiName, PypiName

\* A file of a release is looked up under its version and its name as
\* normalize_pypi_name makes it of the spelling.
LEMMA PypiRelease ==
    ASSUME NEW p \in Packages, p.name \in DOMAIN Spelled, Len(p.version) = 1,
           NEW context, NEW parts \in Spelled[p.name], NEW s \in PypiFiles(p, parts)
    PROVE  /\ s # <<>>
           /\ ClassifyPypi(context, s)
                = PackageTarget(context, NormalizePypiName(parts), p.version)
<1> DEFINE version == p.version
           rest == <<"py3", "none", "any">>
           wanted == PackageTarget(context, NormalizePypiName(parts), version)
<1>1. version \in Seq(STRING) /\ Len(version) = 1
  BY PackagesAssumption, PublishedParts
<1>2. parts \in Seq(STRING) /\ parts # <<>>
  BY PackagesAssumption
<1>3. version \in Seq(Words) /\ rest \in Seq(Words)
  <2>1. STRING \subseteq Words /\ "py3" \in Words /\ "none" \in Words /\ "any" \in Words
    BY DEF Words
  <2>2. ASSUME NEW S, NEW x \in S, NEW y \in S, NEW z \in S PROVE <<x, y, z>> \in Seq(S)
    OBVIOUS
  <2>3. rest \in Seq(Words)
    BY <2>1, <2>2
  <2> QED BY <1>1, <2>1, <2>3, MoreWords
<1>4. \/ \E suffix \in {"tar.gz", "zip"} :
           s = <<Word("packages"), File(parts \o version, suffix)>>
      \/ Len(parts) = 1 /\ s = <<Word("packages"), File(parts \o version \o rest, "whl")>>
  BY DEF PypiFiles
<1> HIDE DEF version, rest
<1>5. ASSUME NEW suffix \in {"tar.gz", "zip"},
             s = <<Word("packages"), File(parts \o version, suffix)>>
      PROVE  ClassifyPypi(context, s) = wanted
  <2>1. /\ Front(parts \o version) = parts /\ <<Last(parts \o version)>> = version
        /\ ~(Len(parts \o version) < 2)
    BY <1>1, <1>2, OneMore, Zenon
  <2>2. ClassifyPypi(context, s) = PackageTarget(context,
            NormalizePypiName(Front(parts \o version)), <<Last(parts \o version)>>)
    BY <1>5, <2>1, SourceArchive, Zenon
  <2> QED BY <2>1, <2>2, Zenon
<1>6. ASSUME Len(parts) = 1, s = <<Word("packages"), File(parts \o version \o rest, "whl")>>
      PROVE  ClassifyPypi(context, s) = wanted
  <2> DEFINE stem == parts \o version \o rest
  <2>1. STRING \subseteq Words
    BY DEF Words
  <2>2. parts \in Seq(Words)
    BY <1>2, <2>1, MoreWords, Zenon
  <2>3. <<stem[1]>> = parts /\ <<stem[2]>> = version /\ ~(Len(stem) < 2)
    BY <1>1, <1>3, <1>6, <2>2, TwoParts, Zenon
  <2>4. ClassifyPypi(context, s) = PackageTarget(context,
            NormalizePypiName(<<stem[1]>>), <<stem[2]>>)
    BY <1>6, <2>3, Wheel, Zenon
  <2> QED BY <2>3, <2>4, Zenon
<1>7. ClassifyPypi(context, s) = wanted
  BY <1>4, <1>5, <1>6, Zenon
<1>8. s # <<>>
  <2>1. ASSUME NEW a, NEW b PROVE <<a, b>> # <<>>
    OBVIOUS
  <2> QED BY <1>4, <2>1
<1> QED BY <1>7, <1>8 DEF version

\* position finds the least index that passes the test.
LEMMA FirstOf ==
    ASSUME NEW n \in Nat, NEW found \in SUBSET (1..n), NEW first \in found,
           \A j \in found : first <= j
    PROVE  (CHOOSE i \in found : \A j \in found : i <= j) = first
<1>1. \E i \in found : \A j \in found : i <= j
  OBVIOUS
<1> DEFINE chosen == CHOOSE i \in found : \A j \in found : i <= j
<1>2. chosen \in found /\ \A j \in found : chosen <= j
  BY <1>1
<1> HIDE DEF chosen
<1>3. chosen <= first /\ first <= chosen /\ chosen \in Nat /\ first \in Nat
  BY <1>2
<1>4. chosen = first
  BY <1>3
<1> QED BY <1>4 DEF chosen

\* If some index passes, position finds one that does.
LEMMA SomeFirst ==
    ASSUME NEW n \in Nat, NEW found \in SUBSET (1..n), found # {}
    PROVE  (CHOOSE i \in found : \A j \in found : i <= j) \in found
<1>1. found \subseteq Nat
  OBVIOUS
<1>2. \E i \in found : \A j \in found : i <= j
  BY <1>1, LeastNumber
<1> QED BY <1>2

\* A path starts with the segments it starts with.
LEMMA StartsWith ==
    ASSUME NEW S, NEW s \in Seq(S), NEW h \in Seq(S), Len(h) <= Len(s),
           \A i \in 1..Len(h) : s[i] = h[i]
    PROVE  IsPrefix(h, SubSeq(s, 1, Len(s)))
<1>1. SubSeq(s, 1, Len(s)) = s
  OBVIOUS
<1>2. SubSeq(h, 1, Len(h)) = SubSeq(s, 1, Len(h))
  OBVIOUS
<1> QED BY <1>1, <1>2 DEF IsPrefix

\* The path of a crate, segment by segment.
LEMMA CratePath ==
    ASSUME NEW S, NEW h \in Seq(S), NEW x \in Seq(S), NEW v \in S, NEW d \in S
    PROVE  Len(h) = 3 /\ Len(x) = 1 =>
           LET s == h \o x \o <<v, d>> IN
           /\ Len(s) = 6 /\ <<s[4]>> = x /\ s[5] = v /\ s[6] = d
           /\ IsPrefix(h, SubSeq(s, 1, Len(s)))
<1> DEFINE hx == h \o x
<1>1. /\ hx \in Seq(S) /\ Len(hx) = Len(h) + Len(x)
      /\ \A i \in 1..Len(h) : hx[i] = h[i]
      /\ \A i \in 1..Len(x) : hx[Len(h) + i] = x[i]
  BY Joined
<1> HIDE DEF hx
<1> DEFINE rest == <<v, d>>
<1>2. rest \in Seq(S) /\ Len(rest) = 2 /\ rest[1] = v /\ rest[2] = d
  OBVIOUS
<1>3. hx \in Seq(S) /\ rest \in Seq(S)
  BY <1>1, <1>2, Zenon
<1> HIDE DEF rest
<1> DEFINE s == hx \o rest
<1>4. /\ s \in Seq(S) /\ Len(s) = Len(hx) + Len(rest)
      /\ \A i \in 1..Len(hx) : s[i] = hx[i]
      /\ \A i \in 1..Len(rest) : s[Len(hx) + i] = rest[i]
  BY <1>3, Joined
<1> HIDE DEF s
<1> SUFFICES ASSUME Len(h) = 3, Len(x) = 1
             PROVE  /\ Len(s) = 6 /\ <<s[4]>> = x /\ s[5] = v /\ s[6] = d
                    /\ IsPrefix(h, SubSeq(s, 1, Len(s)))
  BY DEF s, hx, rest
<1>5. ASSUME NEW T, NEW t \in Seq(T), Len(t) = 1 PROVE <<t[1]>> = t
  BY <1>5
<1>6. <<x[1]>> = x
  BY <1>5, Zenon
<1>7. 3 + 1 = 4 /\ 1 \in 1..1 /\ 4 + 2 = 6
  OBVIOUS
<1>8. Len(hx) = 4 /\ hx[4] = x[1] /\ \A i \in 1..3 : hx[i] = h[i]
  BY <1>1, <1>7, Zenon
<1>9. /\ Len(s) = 6
      /\ \A i \in 1..4 : s[i] = hx[i]
      /\ \A i \in 1..2 : s[4 + i] = rest[i]
  BY <1>2, <1>4, <1>7, <1>8, Zenon
<1>10. s[4] = x[1] /\ s[5] = v /\ s[6] = d
  BY <1>2, <1>8, <1>9
<1>11. Len(h) <= Len(s) /\ \A i \in 1..Len(h) : s[i] = h[i]
  BY <1>8, <1>9
<1>12. IsPrefix(h, SubSeq(s, 1, Len(s)))
  BY <1>4, <1>11, StartsWith, Zenon
<1> QED BY <1>6, <1>9, <1>10, <1>12, Zenon

\* What the crates API is asked for at the start of a path.
LEMMA CrateAtStart ==
    ASSUME NEW context, NEW s, Len(s) = 6, s[6] = Word("download"),
           IsPrefix(<<Word("api"), Word("v1"), Word("crates")>>, SubSeq(s, 1, Len(s)))
    PROVE  ClassifyCargo(context, s) = PackageTarget(context, <<s[4]>>, s[5].parts)
<1> DEFINE found == {i \in 1..Len(s) :
               IsPrefix(<<Word("api"), Word("v1"), Word("crates")>>, SubSeq(s, i, Len(s)))}
           first == CHOOSE i \in found : \A j \in found : i <= j
           place == IF found = {} THEN 0 ELSE first
<1>1. 6 \in Nat /\ found \in SUBSET (1..6) /\ 1 \in found
  OBVIOUS
<1>2. \A j \in found : 1 <= j
  OBVIOUS
<1>3. ClassifyCargo(context, s) =
        IF place = 0 \/ Len(s) < place + 5 THEN ProxyOnly
        ELSE IF s[place + 5] # Word("download") THEN ProxyOnly
        ELSE PackageTarget(context, <<s[place + 3]>>, s[place + 4].parts)
  BY DEF ClassifyCargo, Position
<1> HIDE DEF found
<1>4. first = 1
  BY <1>1, <1>2, FirstOf
<1> HIDE DEF first
<1>5. place = 1
  BY <1>1, <1>4
<1> HIDE DEF place
<1>6. place # 0 /\ ~(Len(s) < place + 5) /\ place + 5 = 6 /\ place + 3 = 4 /\ place + 4 = 5
  BY <1>5
<1> QED BY <1>3, <1>6

\* A crate is looked up under the name and the version in its path.
LEMMA CargoRelease ==
    ASSUME NEW p, Published(p), Len(p.name) = 1, NEW context, NEW s \in CargoPaths(p)
    PROVE  s # <<>> /\ ClassifyCargo(context, s) = PackageTarget(context, p.name, p.version)
<1> DEFINE api == Word("api")
           v1 == Word("v1")
           crates == Word("crates")
           version == Text(p.version)
           last == Word("download")
           name == p.name
           S == Segments \cup {api, v1, crates, version, last}
           h == <<api, v1, crates>>
<1>1. s = h \o name \o <<version, last>> /\ Len(name) = 1 /\ name \in Seq(Segments)
  BY PublishedParts DEF CargoPaths
<1>2. version.parts = p.version
  BY DEF Text
<1> HIDE DEF api, v1, crates, version, last, name
<1>3. Segments \subseteq S /\ api \in S /\ v1 \in S /\ crates \in S /\ version \in S /\ last \in S
  OBVIOUS
<1> HIDE DEF S
<1>4. ASSUME NEW T, NEW a \in T, NEW b \in T, NEW c \in T
      PROVE  <<a, b, c>> \in Seq(T) /\ Len(<<a, b, c>>) = 3
  OBVIOUS
<1>5. h \in Seq(S) /\ Len(h) = 3
  BY <1>3, <1>4, Zenon
<1>6. name \in Seq(S)
  BY <1>1, <1>3, MoreWords, Zenon
<1> HIDE DEF h
<1>7. /\ Len(s) = 6 /\ <<s[4]>> = name /\ s[5] = version /\ s[6] = last
      /\ IsPrefix(h, SubSeq(s, 1, Len(s)))
  <2> DEFINE path == h \o name \o <<version, last>>
  <2>1. h \in Seq(S) /\ name \in Seq(S) /\ version \in S /\ last \in S
    BY <1>3, <1>5, <1>6, Zenon
  <2>2. Len(h) = 3 /\ Len(name) = 1 =>
          /\ Len(path) = 6 /\ <<path[4]>> = name /\ path[5] = version /\ path[6] = last
          /\ IsPrefix(h, SubSeq(path, 1, Len(path)))
    BY <2>1, CratePath
  <2> HIDE DEF path
  <2>3. /\ Len(path) = 6 /\ <<path[4]>> = name /\ path[5] = version /\ path[6] = last
        /\ IsPrefix(h, SubSeq(path, 1, Len(path)))
    BY <1>1, <1>5, <2>2, Zenon
  <2>4. s = path
    BY <1>1 DEF path
  <2> QED BY <2>3, <2>4, Zenon
<1>8. ClassifyCargo(context, s) = PackageTarget(context, <<s[4]>>, s[5].parts)
  BY <1>7, CrateAtStart, Zenon DEF h, api, v1, crates, last
<1>9. s # <<>>
  <2>1. 4 \in Nat /\ 6 = 4 + 2
    OBVIOUS
  <2> QED BY <1>7, <2>1, NotEmpty, Zenon
<1> QED BY <1>2, <1>7, <1>8, <1>9, Zenon DEF name

\* A module is looked up under the path before @v and the version after it.
LEMMA GoRelease ==
    ASSUME NEW name \in Seq(Segments), name # <<>>, NEW version,
           NEW context, NEW s \in GoFiles(name, version),
           \A i \in DOMAIN name : name[i] # Word("@v")
    PROVE  s # <<>> /\ ClassifyGo(context, s) = PackageTarget(context, name, version)
<1> DEFINE n == Len(name)
<1>1. PICK suffix \in {"zip", "mod", "info"} :
         s = name \o <<Word("@v"), File(version, suffix)>>
  BY DEF GoFiles
<1> DEFINE file == File(version, suffix)
<1>2. n \in Nat /\ n # 0 /\ DOMAIN name = 1..n
  OBVIOUS
<1>3. file.parts = version /\ file.suffix = suffix
  BY DEF File
<1> HIDE DEF file
<1>4. /\ Len(s) = n + 2 /\ s[n + 1] = Word("@v") /\ s[n + 2] = file /\ SubSeq(s, 1, n) = name
      /\ \A i \in 1..n : s[i] = name[i]
  <2>1. s = name \o <<Word("@v"), file>>
    BY <1>1 DEF file
  <2> QED BY <1>2, <2>1, TwoMore
<1> DEFINE found == {i \in 1..Len(s) : s[i] = Word("@v")}
           first == CHOOSE i \in found : \A j \in found : i <= j
           marker == IF found = {} THEN 0 ELSE first
<1>5. ClassifyGo(context, s) =
        IF marker < 2 \/ Len(s) = marker THEN ProxyOnly
        ELSE IF s[marker + 1].suffix \notin {"zip", "mod", "info"} THEN ProxyOnly
        ELSE PackageTarget(context, SubSeq(s, 1, marker - 1), s[marker + 1].parts)
  BY DEF ClassifyGo, Position
<1>6. \A i \in 1..n : s[i] # Word("@v")
  BY <1>2, <1>4
<1> HIDE DEF n
<1>7. n + 2 \in Nat /\ found \in SUBSET (1..(n + 2)) /\ n + 1 \in found /\ \A j \in found : n + 1 <= j
  BY <1>2, <1>4, <1>6
<1> HIDE DEF found
<1>8. first = n + 1
  BY <1>7, FirstOf
<1> HIDE DEF first
<1>9. marker = n + 1
  BY <1>7, <1>8
<1> HIDE DEF marker
<1>10. ~(marker < 2) /\ Len(s) # marker /\ marker + 1 = n + 2 /\ marker - 1 = n
  BY <1>2, <1>4, <1>9
<1>11. s[marker + 1] = file /\ SubSeq(s, 1, marker - 1) = name
  BY <1>4, <1>10
<1>12. ~(s[marker + 1].suffix \notin {"zip", "mod", "info"})
  BY <1>3, <1>11
<1>13. s # <<>>
  BY <1>2, <1>4, NotEmpty
<1> QED BY <1>3, <1>5, <1>10, <1>11, <1>12, <1>13

\* A path of a module that is not called @v has no such segment before the
\* marker, escaped or not.
LEMMA EscapedName ==
    ASSUME NEW name \in Seq(Segments), name # <<>>,
           \A i \in DOMAIN name : name[i] # Word("@v")
    PROVE  LET escaped == [i \in DOMAIN name |->
                              [parts |-> Escape(name[i].parts), suffix |-> name[i].suffix]]
           IN  /\ escaped \in Seq(Segments) /\ escaped # <<>>
               /\ \A i \in DOMAIN escaped : escaped[i] # Word("@v")
<1> DEFINE n == Len(name)
           Segment(x) == [parts |-> Escape(x.parts), suffix |-> x.suffix]
           escaped == [i \in DOMAIN name |-> Segment(name[i])]
<1>1. n \in Nat /\ n # 0 /\ DOMAIN name = 1..n
  OBVIOUS
<1>2. ASSUME NEW i \in 1..n
      PROVE  name[i] \in Segments /\ name[i] # Word("@v")
  BY <1>1, <1>2
<1>3. ASSUME NEW x \in Segments PROVE Segment(x) \in Segments
  <2>1. x.parts \in Seq(STRING) /\ x.parts # <<>> /\ x.suffix \in STRING
    BY DEF Segments
  <2>2. ASSUME NEW t \in Seq(STRING), t # <<>> PROVE Escape(t) \in Seq(STRING) /\ Escape(t) # <<>>
    <3>1. Len(t) \in Nat /\ Len(t) # 0 /\ DOMAIN t = 1..Len(t)
      BY <2>2
    <3>2. \A k \in 1..Len(t) :
             (IF t[k] \in DOMAIN Escaped THEN Escaped[t[k]] ELSE t[k]) \in STRING
      BY <2>2, PackagesAssumption
    <3>3. Escape(t) = [k \in 1..Len(t) |-> IF t[k] \in DOMAIN Escaped THEN Escaped[t[k]] ELSE t[k]]
      BY <3>1 DEF Escape
    <3>4. Escape(t) \in Seq(STRING)
      BY <3>1, <3>2, <3>3
    <3>5. Len(Escape(t)) = Len(t)
      BY <3>1, <3>3
    <3> QED BY <3>1, <3>4, <3>5
  <2>3. Escape(x.parts) \in Seq(STRING) \ {<<>>}
    BY <2>1, <2>2
  <2> QED BY <2>1, <2>3 DEF Segments
<1>4. ASSUME NEW x \in Segments, x # Word("@v") PROVE Segment(x) # Word("@v")
  <2> SUFFICES ASSUME Segment(x) = Word("@v") PROVE FALSE
    OBVIOUS
  <2>1. x.parts \in Seq(STRING) /\ x = [parts |-> x.parts, suffix |-> x.suffix]
    BY DEF Segments
  <2>2. Escape(x.parts) = <<"@v">> /\ x.suffix = "none"
    BY DEF Word, Text
  <2>3. DOMAIN x.parts = {1} /\ Escape(x.parts)[1] = "@v"
    BY <2>1, <2>2 DEF Escape
  <2>4. x.parts[1] = "@v"
    BY <2>3, PackagesAssumption DEF Escape
  <2>5. x.parts = <<"@v">>
    BY <2>1, <2>3, <2>4
  <2> QED BY <1>4, <2>1, <2>2, <2>5 DEF Word, Text
<1> HIDE DEF Segment
<1>5. escaped \in Seq(Segments)
  BY <1>1, <1>2, <1>3
<1>6. Len(escaped) = n /\ DOMAIN escaped = 1..n
  BY <1>1
<1>7. \A i \in 1..n : escaped[i] # Word("@v")
  BY <1>1, <1>2, <1>4
<1>8. escaped # <<>>
  BY <1>1, <1>6
<1> QED BY <1>5, <1>6, <1>7, <1>8 DEF Segment

\* Which classifier a path goes to.
LEMMA Dispatch ==
    ASSUME NEW context, NEW method \in {"GET", "HEAD"}, NEW path,
           DecodedSegments(path) # <<>>
    PROVE  LET s == DecodedSegments(path)
               format == FormatName[context.repository_format]
               result == ClassifyPath(context, method, path)
           IN  /\ Holds(format, "Maven") => result = ClassifyMaven(context, s)
               /\ Holds(format, "npm") => result = ClassifyNpm(context, s)
               /\ Holds(format, "PyPI") => result = ClassifyPypi(context, s)
               /\ Holds(format, "crates.io") => result = ClassifyCargo(context, s)
               /\ Holds(format, "Go") => result = ClassifyGo(context, s)
               /\ (\A e \in {"Maven", "npm", "PyPI", "crates.io", "Go"} : ~Holds(format, e))
                     => result \in {ClassifyHelm(context, path, s), ProxyOnly}
<1> DEFINE s == DecodedSegments(path)
           format == FormatName[context.repository_format]
           result == ClassifyPath(context, method, path)
<1>1. result =
        CASE format \in {"maven", "maven2"} -> ClassifyMaven(context, s)
          [] format = "npm" -> ClassifyNpm(context, s)
          [] format \in {"pypi", "python"} -> ClassifyPypi(context, s)
          [] format \in {"cargo", "rust", "rustcargo"} -> ClassifyCargo(context, s)
          [] format \in {"go", "golang"} -> ClassifyGo(context, s)
          [] format = "helm" -> ClassifyHelm(context, path, s)
          [] OTHER -> ProxyOnly
  BY DEF ClassifyPath
<1> HIDE DEF s, format, result
<1>2. /\ Holds(format, "Maven") => format \in {"maven", "maven2"}
      /\ Holds(format, "npm") => format = "npm"
      /\ Holds(format, "PyPI") => format \in {"pypi", "python"}
      /\ Holds(format, "crates.io") => format \in {"cargo", "rust", "rustcargo"}
      /\ Holds(format, "Go") => format \in {"go", "golang"}
  BY DEF Holds
<1>3. (\A e \in {"Maven", "npm", "PyPI", "crates.io", "Go"} : ~Holds(format, e))
        => format \notin {"maven", "maven2", "npm", "pypi", "python", "cargo", "rust", "rustcargo",
                          "go", "golang"}
  BY DEF Holds
<1>4. Holds(format, "Maven") => result = ClassifyMaven(context, s)
  BY <1>1, <1>2
<1>5. Holds(format, "npm") => result = ClassifyNpm(context, s)
  BY <1>1, <1>2
<1>6. Holds(format, "PyPI") => result = ClassifyPypi(context, s)
  BY <1>1, <1>2
<1>7. Holds(format, "crates.io") => result = ClassifyCargo(context, s)
  BY <1>1, <1>2
<1>8. Holds(format, "Go") => result = ClassifyGo(context, s)
  BY <1>1, <1>2
<1>9. (\A e \in {"Maven", "npm", "PyPI", "crates.io", "Go"} : ~Holds(format, e))
        => result \in {ClassifyHelm(context, path, s), ProxyOnly}
  BY <1>1, <1>3
<1> QED BY <1>4, <1>5, <1>6, <1>7, <1>8, <1>9 DEF s, format, result

\* The ecosystem OSV is asked about is the one the release belongs to.
LEMMA TargetIsRelease ==
    ASSUME NEW context, NEW p, Holds(FormatName[context.repository_format], p.format),
           context.osv_ecosystem \in {NoEcosystem, p.format}, NEW name, NEW version
    PROVE  PackageTarget(context, name, version) =
             [kind |-> "package", ecosystem |-> p.format, name |-> name, version |-> version]
<1> DEFINE format == FormatName[context.repository_format]
           ecosystem == IF context.osv_ecosystem # NoEcosystem THEN context.osv_ecosystem
                        ELSE DefaultEcosystem(format)
<1>1. Holds(format, p.format)
  OBVIOUS
<1>2. ASSUME NEW f, NEW e, Holds(f, e) PROVE DefaultEcosystem(f) = e
  <2>1. CASE f \in {"maven", "maven2"} /\ e = "Maven"
    BY <2>1 DEF DefaultEcosystem
  <2>2. CASE f = "npm" /\ e = "npm"
    BY <2>2 DEF DefaultEcosystem
  <2>3. CASE f \in {"pypi", "python"} /\ e = "PyPI"
    BY <2>3 DEF DefaultEcosystem
  <2>4. CASE f \in {"cargo", "rust", "rustcargo"} /\ e = "crates.io"
    BY <2>4 DEF DefaultEcosystem
  <2>5. CASE f \in {"go", "golang"} /\ e = "Go"
    BY <2>5 DEF DefaultEcosystem
  <2> QED BY <1>2, <2>1, <2>2, <2>3, <2>4, <2>5 DEF Holds
<1>3. DefaultEcosystem(format) = p.format
  BY <1>1, <1>2
<1>4. ecosystem = p.format
  BY <1>3
<1>5. PackageTarget(context, name, version) =
        [kind |-> "package", name |-> name, version |-> version, ecosystem |-> ecosystem]
  BY DEF PackageTarget
<1> QED BY <1>4, <1>5

\* A file of a release is taken for a release of its ecosystem, and for that
\* very release when its path is plain.
LEMMA ReleaseIsFound ==
    ASSUME NEW d \in Downloads, d.package # NoPackage, d.method \in {"GET", "HEAD"}
    PROVE  LET result == ClassifyPath(d.context, d.method, d.path) IN
           /\ result.kind = "package" /\ result.ecosystem = d.package.format
           /\ DecodedSegments(d.path) \in PlainLayout(d.package) =>
                 result = Coordinates(d.package)
<1> DEFINE p == d.package
           s == DecodedSegments(d.path)
           format == FormatName[d.context.repository_format]
           result == ClassifyPath(d.context, d.method, d.path)
<1>1. /\ s \in Seq(Segments) /\ p \in Packages /\ Holds(format, p.format)
      /\ d.context.osv_ecosystem \in {NoEcosystem, p.format} /\ s \in Layout(p)
  BY DownloadsAssumption
<1>2. Published(p)
  BY <1>1, PackagesAssumption
<1> DEFINE Target(name, version) == PackageTarget(d.context, name, version)
           wanted == Target(p.name, p.version)
<1>3. ASSUME NEW name, NEW version
      PROVE  /\ Target(name, version).kind = "package"
             /\ Target(name, version).ecosystem = p.format
             /\ wanted = Coordinates(p)
  <2>1. ASSUME NEW a, NEW b
        PROVE  Target(a, b) = [kind |-> "package", ecosystem |-> p.format, name |-> a, version |-> b]
    BY <1>1, TargetIsRelease
  <2> HIDE DEF Target
  <2> QED BY <2>1 DEF Coordinates
<1>4. s # <<>> =>
        /\ Holds(format, "Maven") => result = ClassifyMaven(d.context, s)
        /\ Holds(format, "npm") => result = ClassifyNpm(d.context, s)
        /\ Holds(format, "PyPI") => result = ClassifyPypi(d.context, s)
        /\ Holds(format, "crates.io") => result = ClassifyCargo(d.context, s)
        /\ Holds(format, "Go") => result = ClassifyGo(d.context, s)
  BY Dispatch
<1> HIDE DEF p, s, format, result
<1>5. p.format \in {"Maven", "npm", "PyPI", "crates.io", "Go"}
  BY <1>2 DEF Published
<1> DEFINE Goal == /\ result.kind = "package" /\ result.ecosystem = p.format
                   /\ s \in PlainLayout(p) => result = Coordinates(p)
<1>6. ASSUME p.format = "Maven" PROVE Goal
  <2>1. s \in MavenPaths(p) /\ Len(p.name) >= 2
    BY <1>1, <1>2, <1>6 DEF Layout, Published
  <2>2. s # <<>> /\ ClassifyMaven(d.context, s) = wanted
    BY <1>2, <2>1, MavenRelease
  <2>3. result = wanted
    BY <1>1, <1>4, <1>6, <2>2
  <2> HIDE DEF Target
  <2> QED BY <1>3, <2>3
<1>7. ASSUME p.format = "npm" PROVE Goal
  <2>1. /\ s \in NpmPaths(p)
        /\ \/ Len(p.name) = 1
           \/ Len(p.name) = 2 /\ p.name[1].parts[1] \in Scopes
    BY <1>1, <1>2, <1>7 DEF Layout, Published
  <2>2. s # <<>> /\ ClassifyNpm(d.context, s) = wanted
    BY <1>2, <2>1, NpmRelease
  <2>3. result = wanted
    BY <1>1, <1>4, <1>7, <2>2
  <2> HIDE DEF Target
  <2> QED BY <1>3, <2>3
<1>8. ASSUME p.format = "PyPI" PROVE Goal
  <2>1. s \in PypiPaths(p) /\ p.name \in DOMAIN Spelled /\ Len(p.version) = 1
    BY <1>1, <1>2, <1>8 DEF Layout, Published
  <2>2. ASSUME NEW parts \in Spelled[p.name], s \in PypiFiles(p, parts)
        PROVE  result = Target(NormalizePypiName(parts), p.version)
    <3>1. s # <<>> /\ ClassifyPypi(d.context, s) = Target(NormalizePypiName(parts), p.version)
      BY <1>1, <2>1, <2>2, PypiRelease
    <3> QED BY <1>1, <1>4, <1>8, <3>1
  <2>3. \E parts \in Spelled[p.name] : s \in PypiFiles(p, parts)
    BY <2>1 DEF PypiPaths
  <2>4. ASSUME s \in PlainLayout(p) PROVE result = wanted
    <3>1. PICK parts \in Spelled[p.name] :
             /\ s \in PypiFiles(p, parts)
             /\ \A i \in DOMAIN PypiWords(parts) : PypiWords(parts)[i] # EmptyWord
      BY <1>8, <2>4 DEF PlainLayout
    <3>2. NormalizePypiName(parts) = p.name
      BY <2>1, <3>1, PlainSpelling
    <3> HIDE DEF Target
    <3> QED BY <2>2, <3>1, <3>2
  <2> HIDE DEF Target
  <2> QED BY <1>3, <2>2, <2>3, <2>4
<1>9. ASSUME p.format = "crates.io" PROVE Goal
  <2>1. s \in CargoPaths(p) /\ Len(p.name) = 1
    BY <1>1, <1>2, <1>9 DEF Layout, Published
  <2>2. s # <<>> /\ ClassifyCargo(d.context, s) = wanted
    BY <1>2, <2>1, CargoRelease
  <2>3. result = wanted
    BY <1>1, <1>4, <1>9, <2>2
  <2> HIDE DEF Target
  <2> QED BY <1>3, <2>3
<1>10. ASSUME p.format = "Go" PROVE Goal
  <2> DEFINE escaped == [i \in DOMAIN p.name |->
                            [parts |-> Escape(p.name[i].parts), suffix |-> p.name[i].suffix]]
  <2>1. /\ s \in GoFiles(escaped, Escape(p.version)) /\ p.name \in Seq(Segments)
        /\ p.name # <<>> /\ \A i \in DOMAIN p.name : p.name[i] # Word("@v")
    BY <1>1, <1>2, <1>10 DEF Layout, Published, GoPaths
  <2>2. /\ escaped \in Seq(Segments) /\ escaped # <<>>
        /\ \A i \in DOMAIN escaped : escaped[i] # Word("@v")
    BY <2>1, EscapedName
  <2> HIDE DEF escaped
  <2>3. s # <<>> /\ ClassifyGo(d.context, s) = Target(escaped, Escape(p.version))
    BY <2>1, <2>2, GoRelease
  <2>4. result = Target(escaped, Escape(p.version))
    BY <1>1, <1>4, <1>10, <2>3
  <2>5. ASSUME s \in PlainLayout(p) PROVE result = wanted
    <3>1. s \in GoFiles(p.name, p.version)
      BY <1>10, <2>5 DEF PlainLayout
    <3>2. ClassifyGo(d.context, s) = wanted
      BY <2>1, <3>1, GoRelease
    <3> QED BY <1>1, <1>4, <1>10, <2>3, <3>2
  <2> HIDE DEF Target
  <2> QED BY <1>3, <2>4, <2>5
<1>11. Goal
  BY <1>5, <1>6, <1>7, <1>8, <1>9, <1>10
<1> QED BY <1>11 DEF p, s, result

\* What repositories serve besides releases is not taken for one: the five
\* classifiers one by one.
LEMMA NoReleaseFound ==
    ASSUME NEW context, NEW s \in Seq(Segments), s # <<>>,
           NoRelease(FormatName[context.repository_format], s)
    PROVE  LET format == FormatName[context.repository_format] IN
           /\ Holds(format, "Maven") => ClassifyMaven(context, s) = ProxyOnly
           /\ Holds(format, "npm") => ClassifyNpm(context, s) = ProxyOnly
           /\ Holds(format, "PyPI") => ClassifyPypi(context, s) = ProxyOnly
           /\ Holds(format, "crates.io") => ClassifyCargo(context, s) = ProxyOnly
           /\ Holds(format, "Go") => ClassifyGo(context, s) = ProxyOnly
<1> DEFINE format == FormatName[context.repository_format]
<1>1. NoRelease(format, s)
  OBVIOUS
<1>2. Len(s) \in Nat /\ Len(s) # 0
  OBVIOUS
<1>3. /\ \A e \in {"npm", "PyPI", "crates.io", "Go"} : Holds(format, "Maven") => ~Holds(format, e)
      /\ \A e \in {"Maven", "PyPI", "crates.io", "Go"} : Holds(format, "npm") => ~Holds(format, e)
      /\ \A e \in {"Maven", "npm", "crates.io", "Go"} : Holds(format, "PyPI") => ~Holds(format, e)
      /\ \A e \in {"Maven", "npm", "PyPI", "Go"} : Holds(format, "crates.io") => ~Holds(format, e)
      /\ \A e \in {"Maven", "npm", "PyPI", "crates.io"} : Holds(format, "Go") => ~Holds(format, e)
  BY DEF Holds
<1> HIDE DEF format
<1>4. ASSUME Holds(format, "Maven") PROVE ClassifyMaven(context, s) = ProxyOnly
  <2>1. \/ Len(s) < 4
        \/ Last(s).suffix \in {"sidecar", "metadata"}
        \/ ~Includes(Last(s).parts, s[Len(s) - 1].parts)
    BY <1>1, <1>3, <1>4 DEF NoRelease
  <2> QED BY <2>1 DEF ClassifyMaven, Last
<1>5. ASSUME Holds(format, "npm") PROVE ClassifyNpm(context, s) = ProxyOnly
  <2>1. \/ Last(s).suffix # "tgz" \/ Len(Last(s).parts) < 2
        \/ \A i \in 1..Len(s) : s[i] # Hyphen
    BY <1>1, <1>3, <1>5 DEF NoRelease
  <2>2. CASE Last(s).suffix # "tgz"
    BY <2>2 DEF ClassifyNpm
  <2>3. CASE Len(Last(s).parts) < 2
    <3>1. Last(s).parts \in Seq(STRING)
      <4>1. Last(s) \in Segments
        BY <1>2 DEF Last
      <4> QED BY <4>1, SegmentParts
    <3>2. Len(Last(s).parts) \in Nat
      BY <3>1
    <3>3. ~(Len(Last(s).parts) >= 2)
      BY <2>3, <3>2
    <3> QED BY <3>3 DEF ClassifyNpm
  <2>4. CASE \A i \in 1..Len(s) : s[i] # Hyphen
    <3>1. ~(Len(s) >= 4 /\ s[3] = Hyphen) /\ ~(Len(s) >= 3 /\ s[2] = Hyphen)
      BY <1>2, <2>4
    <3> QED BY <3>1 DEF ClassifyNpm
  <2> QED BY <2>1, <2>2, <2>3, <2>4
<1>6. ASSUME Holds(format, "PyPI") PROVE ClassifyPypi(context, s) = ProxyOnly
  <2>1. Last(s).suffix \notin {"whl", "tar.gz", "zip", "tgz"} \/ Len(Last(s).parts) < 2
    BY <1>1, <1>3, <1>6 DEF NoRelease
  <2> QED BY <2>1 DEF ClassifyPypi
<1>7. ASSUME Holds(format, "crates.io") PROVE ClassifyCargo(context, s) = ProxyOnly
  <2>1. \A i \in 1..Len(s) : s[i] # Word("download")
    BY <1>1, <1>3, <1>7 DEF NoRelease
  <2> DEFINE found == {i \in 1..Len(s) :
                 IsPrefix(<<Word("api"), Word("v1"), Word("crates")>>, SubSeq(s, i, Len(s)))}
             first == CHOOSE i \in found : \A j \in found : i <= j
             place == IF found = {} THEN 0 ELSE first
  <2>2. ClassifyCargo(context, s) =
          IF place = 0 \/ Len(s) < place + 5 THEN ProxyOnly
          ELSE IF s[place + 5] # Word("download") THEN ProxyOnly
          ELSE PackageTarget(context, <<s[place + 3]>>, s[place + 4].parts)
    BY DEF ClassifyCargo, Position
  <2>3. found \in SUBSET (1..Len(s))
    OBVIOUS
  <2> HIDE DEF found
  <2>4. found # {} => first \in found
    BY <1>2, <2>3, SomeFirst
  <2> HIDE DEF first
  <2>5. place = 0 \/ place \in 1..Len(s)
    BY <2>3, <2>4, Zenon
  <2> HIDE DEF place
  <2>6. place = 0 \/ Len(s) < place + 5 \/ place + 5 \in 1..Len(s)
    BY <1>2, <2>5
  <2> QED BY <2>1, <2>2, <2>6
<1>8. ASSUME Holds(format, "Go") PROVE ClassifyGo(context, s) = ProxyOnly
  <2>1. \A i \in 1..Len(s) : s[i] = Word("@v") =>
          i \in {1, Len(s)} \/ s[i + 1].suffix \notin {"zip", "mod", "info"}
    BY <1>1, <1>3, <1>8 DEF NoRelease
  <2> DEFINE found == {i \in 1..Len(s) : s[i] = Word("@v")}
             first == CHOOSE i \in found : \A j \in found : i <= j
             marker == IF found = {} THEN 0 ELSE first
  <2>2. ClassifyGo(context, s) =
          IF marker < 2 \/ Len(s) = marker THEN ProxyOnly
          ELSE IF s[marker + 1].suffix \notin {"zip", "mod", "info"} THEN ProxyOnly
          ELSE PackageTarget(context, SubSeq(s, 1, marker - 1), s[marker + 1].parts)
    BY DEF ClassifyGo, Position
  <2>3. found \in SUBSET (1..Len(s)) /\ \A i \in found : s[i] = Word("@v")
    OBVIOUS
  <2> HIDE DEF found
  <2>4. found # {} => first \in found
    BY <1>2, <2>3, SomeFirst
  <2> HIDE DEF first
  <2>5. marker = 0 \/ (marker \in 1..Len(s) /\ s[marker] = Word("@v"))
    BY <2>3, <2>4, Zenon
  <2> HIDE DEF marker
  <2>6. \/ marker < 2 \/ Len(s) = marker
        \/ s[marker + 1].suffix \notin {"zip", "mod", "info"}
    BY <2>1, <2>5
  <2> QED BY <2>2, <2>6
<1> QED BY <1>4, <1>5, <1>6, <1>7, <1>8 DEF format

\* What is no file of a release is not taken for one.
LEMMA OtherIsNotFound ==
    ASSUME NEW d \in Downloads, d.package = NoPackage \/ d.method \notin {"GET", "HEAD"}
    PROVE  ClassifyPath(d.context, d.method, d.path).kind # "package"
<1> DEFINE s == DecodedSegments(d.path)
           format == FormatName[d.context.repository_format]
           result == ClassifyPath(d.context, d.method, d.path)
<1>1. ProxyOnly.kind # "package"
  BY DEF ProxyOnly
<1>2. CASE d.method \notin {"GET", "HEAD"} \/ s = <<>>
  <2>1. result = ProxyOnly
    BY <1>2 DEF ClassifyPath
  <2> QED BY <1>1, <2>1
<1>3. CASE d.method \in {"GET", "HEAD"} /\ s # <<>>
  <2>1. s \in Seq(Segments) /\ NoRelease(format, s)
    BY <1>3, DownloadsAssumption
  <2>2. /\ Holds(format, "Maven") => result = ClassifyMaven(d.context, s)
        /\ Holds(format, "npm") => result = ClassifyNpm(d.context, s)
        /\ Holds(format, "PyPI") => result = ClassifyPypi(d.context, s)
        /\ Holds(format, "crates.io") => result = ClassifyCargo(d.context, s)
        /\ Holds(format, "Go") => result = ClassifyGo(d.context, s)
        /\ (\A e \in {"Maven", "npm", "PyPI", "crates.io", "Go"} : ~Holds(format, e))
              => result \in {ClassifyHelm(d.context, d.path, s), ProxyOnly}
    BY <1>3, Dispatch
  <2>3. /\ Holds(format, "Maven") => ClassifyMaven(d.context, s) = ProxyOnly
        /\ Holds(format, "npm") => ClassifyNpm(d.context, s) = ProxyOnly
        /\ Holds(format, "PyPI") => ClassifyPypi(d.context, s) = ProxyOnly
        /\ Holds(format, "crates.io") => ClassifyCargo(d.context, s) = ProxyOnly
        /\ Holds(format, "Go") => ClassifyGo(d.context, s) = ProxyOnly
    BY <1>3, <2>1, NoReleaseFound
  <2>4. ClassifyHelm(d.context, d.path, s).kind # "package"
    <3>1. ASSUME NEW a, NEW b
          PROVE  [kind |-> "artifact", source_format |-> a, uri |-> b].kind # "package"
      OBVIOUS
    <3> QED BY <1>1, <3>1 DEF ClassifyHelm
  <2> HIDE DEF s, format, result
  <2>5. CASE \A e \in {"Maven", "npm", "PyPI", "crates.io", "Go"} : ~Holds(format, e)
    BY <1>1, <2>2, <2>4, <2>5 DEF result
  <2>6. CASE \E e \in {"Maven", "npm", "PyPI", "crates.io", "Go"} : Holds(format, e)
    <3>1. result = ProxyOnly
      BY <2>2, <2>3, <2>6
    <3> QED BY <1>1, <3>1 DEF result
  <2> QED BY <2>5, <2>6
<1> QED BY <1>2, <1>3

\* The request stays the same, and what it is taken for is what its path says.
PathInv == download \in Downloads /\ target \in {Unclassified, Classified}

\* What is served is what is scanned, for any packages that are published as
\* their formats have it: classify_path takes every file of a release for a
\* package of its ecosystem, and for that very release where the path gives its
\* name and version as OSV has them, or a Python name in any spelling without
\* runs of separators; it takes nothing else for a release.  Capitals in Go
\* modules are what it does not undo.
THEOREM ScansWhatIsServed == SourcesSpec => []ScannedIsServed
<1>1. SourcesInit => PathInv
  BY DEF SourcesInit, PathInv
<1>2. PathInv /\ [SourcesNext]_sourcesVars => PathInv'
  <2> SUFFICES ASSUME PathInv, [SourcesNext]_sourcesVars PROVE PathInv'
    OBVIOUS
  <2>1. CASE Classify
    BY <2>1 DEF PathInv, Classify, Classified
  <2>2. CASE UNCHANGED pathVars
    BY <2>2 DEF PathInv, Classified, pathVars, Unclassified
  <2>3. ~Classify => UNCHANGED pathVars
    BY DEF SourcesNext, AskOsv, ScanChart, sourcesVars, pathVars
  <2> QED BY <2>1, <2>2, <2>3
<1>3. PathInv => ScannedIsServed
  <2> SUFFICES ASSUME PathInv, target # Unclassified
               PROVE  IF download.package # NoPackage /\ download.method \in {"GET", "HEAD"}
                      THEN /\ target.kind = "package"
                           /\ target.ecosystem = download.package.format
                           /\ DecodedSegments(download.path) \in PlainLayout(download.package)
                                 => target = Coordinates(download.package)
                      ELSE target.kind # "package"
    BY DEF ScannedIsServed
  <2>1. /\ download \in Downloads
        /\ target = ClassifyPath(download.context, download.method, download.path)
    BY DEF PathInv, Classified
  <2>2. CASE download.package # NoPackage /\ download.method \in {"GET", "HEAD"}
    BY <2>1, <2>2, ReleaseIsFound
  <2>3. CASE ~(download.package # NoPackage /\ download.method \in {"GET", "HEAD"})
    BY <2>1, <2>3, OtherIsNotFound
  <2> QED BY <2>2, <2>3
<1> QED BY <1>1, <1>2, <1>3, PTL DEF SourcesSpec
==============================================================================
