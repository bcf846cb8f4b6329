------------------------------- MODULE OsvQuery -------------------------------
(***************************************************************************)
(* OsvClient::query_package: the advisories on one package, asked of OSV   *)
(* page after page.  The service is external: it lists advisories in the   *)
(* order of their numbers, gives out as many at a time as it likes, even   *)
(* none, and its page token says after which number to go on, so that the  *)
(* tokens of one query grow.  The end is marked by no token or by an empty *)
(* one.  Advisories are published and withdrawn between two pages.         *)
(***************************************************************************)
EXTENDS Naturals

CONSTANTS
    MaxAdvisory,        \* advisories are numbered 1..MaxAdvisory
    NoToken,            \* next_page_token: null, or missing
    EmptyToken          \* next_page_token: ""

ASSUME QueryAssumptions ==
    /\ MaxAdvisory \in Nat
    /\ NoToken \notin Nat /\ EmptyToken \notin Nat

Advisories == 1..MaxAdvisory

VARIABLES
    listed,       \* the advisories OSV lists for the package now
    query,        \* query_package: post, ok or error
    page_token,
    collected,    \* vulnerabilities
    stayed,       \* history: advisories listed since the query began
    occurred      \* history: advisories listed at some time since

queryVars == <<listed, query, page_token, collected, stayed, occurred>>

QueryInit ==
    /\ listed \in SUBSET Advisories
    /\ query = "post"
    /\ page_token = NoToken
    /\ collected = {}
    /\ stayed = listed
    /\ occurred = listed
------------------------------------------------------------------------------
(* The service.                                                             *)

Cursor(token) == IF token \in Nat THEN token ELSE 0

\* What OSV can answer to the token: the advisories up to some number, with a
\* token where there may be more.
Served(to) == {v \in listed : Cursor(page_token) < v /\ v <= to}

Page(to, next) ==
    /\ Cursor(page_token) <= to
    /\ \/ next = to /\ Cursor(page_token) < to
       \/ to = MaxAdvisory /\ next \in {NoToken, EmptyToken}
------------------------------------------------------------------------------
(* The loop.                                                                *)

\* Mutant: an empty token is a token.
AnyToken(next) == next # NoToken
Continues(next) == next \notin {NoToken, EmptyToken}

\* A page is read to its end; the next one is asked for, or the loop ends.
PageArrives ==
    /\ query = "post"
    /\ \E to \in 0..MaxAdvisory, next \in 1..MaxAdvisory \cup {NoToken, EmptyToken} :
          /\ Page(to, next)
          /\ collected' = collected \cup Served(to)
          /\ IF Continues(next)
             THEN page_token' = next /\ UNCHANGED query
             ELSE query' = "ok" /\ UNCHANGED page_token
    /\ UNCHANGED <<listed, stayed, occurred>>

\* Mutant: the pages that did arrive are returned.
PageFailsKeepingOthers ==
    /\ query = "post"
    /\ query' = IF collected = {} THEN "error" ELSE "ok"
    /\ UNCHANGED <<listed, page_token, collected, stayed, occurred>>

\* No answer in time, an error status or no JSON: what was collected is
\* dropped with the call.
PageFails ==
    /\ query = "post"
    /\ query' = "error"
    /\ UNCHANGED <<listed, page_token, collected, stayed, occurred>>

\* An advisory is published or withdrawn.
ListingChanges ==
    /\ listed' \in SUBSET Advisories
    /\ stayed' = IF query = "post" THEN stayed \cap listed' ELSE stayed
    /\ occurred' = IF query = "post" THEN occurred \cup listed' ELSE occurred
    /\ UNCHANGED <<query, page_token, collected>>

QueryNext == PageArrives \/ PageFails \/ ListingChanges

QuerySpec == QueryInit /\ [][QueryNext]_queryVars
------------------------------------------------------------------------------
(* Properties.                                                              *)

QueryContract == INSTANCE ScanContract WITH
    status <- IF query = "post" THEN "pending" ELSE query,
    answer <- IF query = "ok" THEN collected ELSE {},
    lenient <- FALSE,
    must <- stayed,
    may <- occurred

\* The paged query is one scan: it answers once, an error gives out nothing
\* although pages had arrived, and a list has every advisory that was there
\* from the first page to the last and none that never was, wherever the pages
\* break and whatever is published in between.
QueryKeepsContract == QueryContract!Spec
==============================================================================
