------------------------------ MODULE TierCache ------------------------------
(***************************************************************************)
(* The two moka caches behind MokaScanCache: one for scans that found      *)
(* nothing, one for scans that found something, each with its own time to  *)
(* live.  A tier maps a key to the set of scans it holds for the key,      *)
(* which has at most one member.  Every operator here is ONE call on one   *)
(* tier: get and put each make two such calls with an await in between,    *)
(* so the modules that use them take one step per call.                    *)
(***************************************************************************)

VARIABLES
    clean,       \* key |-> {} or {scan}, kept for allowed_ttl
    vulnerable   \* key |-> {} or {scan}, kept for blocked_ttl

cacheVars == <<clean, vulnerable>>

\* A scan is the set of vulnerabilities it reported.
HasVulnerabilities(scan) == scan # {}

\* put, first call: the entry of the other tier goes.
PutInvalidate(key, scan) ==
    IF HasVulnerabilities(scan)
    THEN clean' = [clean EXCEPT ![key] = {}] /\ UNCHANGED vulnerable
    ELSE vulnerable' = [vulnerable EXCEPT ![key] = {}] /\ UNCHANGED clean

\* put, second call: the scan enters its own tier.
PutInsert(key, scan) ==
    IF HasVulnerabilities(scan)
    THEN vulnerable' = [vulnerable EXCEPT ![key] = {scan}] /\ UNCHANGED clean
    ELSE clean' = [clean EXCEPT ![key] = {scan}] /\ UNCHANGED vulnerable

\* A tier drops an entry by itself: its time to live is over, or the tier is
\* at its maximum capacity.
ExpireVulnerable(key) ==
    /\ vulnerable[key] # {}
    /\ vulnerable' = [vulnerable EXCEPT ![key] = {}]
    /\ UNCHANGED clean

ExpireClean(key) ==
    /\ clean[key] # {}
    /\ clean' = [clean EXCEPT ![key] = {}]
    /\ UNCHANGED vulnerable
==============================================================================
