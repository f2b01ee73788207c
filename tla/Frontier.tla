------------------------------ MODULE Frontier ------------------------------
(***************************************************************************)
(* The state a crawl keeps between two levels and the steps of the one     *)
(* goroutine that owns it: internal/crawler/crawler.go, functions Crawl,   *)
(* skip, skipAll and nextLevel, with the robots policy cache that          *)
(* internal/audit/audit.go hands to the crawl as Options.Allowed.          *)
(*                                                                         *)
(* How the pages of a level are fetched is not said here: EndLevel takes   *)
(* them as a parameter.  LevelCrawl fetches a level in one step, Crawler   *)
(* with a pool of workers.                                                 *)
(*                                                                         *)
(* A URL is a number.  The code sorts the URLs of a level as strings and   *)
(* drops repetitions, so a level is a set and its order that of numbers.   *)
(***************************************************************************)
EXTENDS Integers, FiniteSets

CONSTANTS
    N,          \* the URLs are 1 .. N
    Start,      \* the URL the crawl starts from
    InScope,    \* the URLs of the audited site (urlnorm.Scope)
    Seeds,      \* the URLs read from the sitemaps
    Origins,    \* scheme and host pairs; each has a robots.txt of its own
    Origin,     \* the origin of a URL
    RobotsFiles,\* the URLs of robots.txt files, which no policy refuses
    Counters,   \* what the trap guard counts: URL templates, and paths with queries
    Counted,    \* the counters of a URL: its template and, if it has a query, its path
    Limit,      \* the limit of a counter
    Traps,      \* URLs the trap guard refuses by their shape alone
    MaxPages, MaxDepth, MaxQueue, MaxRecords,
    Sites       \* what the web may answer; see SiteType

URLs == 1 .. N
None == 0       \* no URL

SiteType ==
    [ links      : [URLs -> SUBSET InScope],  \* what Process returns for a page
      final      : [URLs -> URLs],            \* where its redirects end
      fails      : SUBSET URLs,               \* fetches that end in an error
      disallowed : SUBSET URLs,               \* refused by their robots.txt
      down       : SUBSET Origins ]           \* robots.txt cannot be had

ASSUME URLAssumption ==
    /\ N \in Nat \ {0}
    /\ InScope \subseteq URLs /\ Start \in InScope
    /\ Seeds \subseteq URLs /\ Traps \subseteq URLs /\ RobotsFiles \subseteq URLs
    /\ Origin \in [URLs -> Origins] /\ Counted \in [URLs -> SUBSET Counters]
ASSUME LimitAssumption ==
    /\ MaxPages \in Nat \ {0} /\ MaxDepth \in Nat /\ MaxQueue \in Nat \ {0}
    /\ Limit \in [Counters -> Nat \ {0}] /\ MaxRecords \in Nat
ASSUME SiteAssumption == Sites \subseteq SiteType

VARIABLES
    site,      \* what the web answers; never changes
    ctx,       \* the context of the run: live, past its deadline, or canceled
    phase,     \* where the coordinating goroutine is
    depth,     \* the depth of the level being fetched or formed
    level,     \* the URLs being fetched
    cand,      \* links of the last level that nextLevel has still to look at
    next,      \* the level being formed
    seen,      \* crawl.seen
    admitted,  \* TrapGuard.seen
    policy,    \* the robots.txt files fetched so far, per origin
    pages,     \* Result.Pages
    skipped,   \* per URL, the reason of the last skip() for it
    count,     \* Result.SkippedCount
    recorded,  \* the URLs of Result.Skipped
    stop       \* Result.StopReason

coordinator == <<phase, depth, level, cand, next, seen, admitted, policy>>
result == <<pages, skipped, count, recorded, stop>>
frontier == <<site, ctx, coordinator, result>>

Contexts == {"live", "deadline", "canceled"}
Phases == {"robots", "start", "level", "fetch", "admit", "done"}
Reasons == {"robots-disallowed", "max-depth", "max-pages", "queue-full", "trap"}
StopReasons ==
    {"completed", "max-pages", "max-duration", "interrupted", "start-disallowed"}
Outcomes == {"ok", "failed", "canceled", "timeout"}
Pages ==
    [url : URLs, depth : Nat, final : URLs \cup {None},
     outcome : Outcomes, links : SUBSET InScope]

-----------------------------------------------------------------------------
(* The pages a fetch can leave.                                            *)

\* Fault: the depth of the next level is recorded.
FetchedLate(u) ==
    [url |-> u, depth |-> depth + 1, final |-> site.final[u],
     outcome |-> IF u \in site.fails THEN "failed" ELSE "ok",
     links |-> IF u \in site.fails THEN {} ELSE site.links[u]]

\* fetchPage when the context stays live: what the site answers for u.
Fetched(u) ==
    LET ok == u \notin site.fails
    IN  [url |-> u, depth |-> depth, final |-> site.final[u],
         outcome |-> IF ok THEN "ok" ELSE "failed",
         links |-> IF ok THEN site.links[u] ELSE {}]

\* fetchPage when the context is done before the request is made.
NotFetched(u) ==
    [url |-> u, depth |-> depth, final |-> None, outcome |-> "canceled", links |-> {}]

\* fetchPage when the context ends during the request to f: Classify names
\* the error after the way the context ended.
CutOff(u, f) ==
    [url |-> u, depth |-> depth, final |-> f,
     outcome |-> IF ctx = "deadline" THEN "timeout" ELSE "canceled",
     links |-> {}]

CutOffs(u) == {CutOff(u, f) : f \in {u, site.final[u]}}

-----------------------------------------------------------------------------
(* Helpers.                                                                *)

\* The n first elements of S in order: a slice S[:n] of the sorted URLs.
Lowest(S, n) == {u \in S : Cardinality({v \in S : v < u}) < n}

\* skip and skipAll: every skip is counted, the first MaxRecords are listed.
SkipAll(S, reason) ==
    /\ skipped' = [u \in URLs |-> IF u \in S THEN reason ELSE skipped[u]]
    /\ count' = [count EXCEPT ![reason] = @ + Cardinality(S)]
    /\ recorded' = recorded \cup Lowest(S, MaxRecords - Cardinality(recorded))

NoSkip == UNCHANGED <<skipped, count, recorded>>

\* robots.Fetch: an unreachable file, or a request that the context cuts off,
\* refuses everything; a missing file is one that disallows nothing.
FetchPolicy(o) ==
    IF ctx = "live" /\ o \notin site.down THEN "served" ELSE "refused"

\* Fault: the start origin's robots.txt is used for every origin.
PolicyOfStart(u) == policy[Origin[Start]]

\* The policies cache of audit.Run: an origin's file is fetched once.
PolicyFor(u) ==
    IF policy[Origin[u]] = "none" THEN FetchPolicy(Origin[u]) ELSE policy[Origin[u]]

\* File.AllowedFor
Permits(file, u) ==
    \/ file = "served" /\ u \notin site.disallowed
    \/ file = "refused" /\ u \in RobotsFiles

Allowed(u) == Permits(PolicyFor(u), u)

\* Fault: off by one at the limit.
GuardAdmitsOneMore(u) ==
    \/ u \in admitted
    \/ /\ u \notin Traps
       /\ \A t \in Counted[u] : Cardinality({v \in admitted : t \in Counted[v]}) <= Limit[t]

\* TrapGuard.Admit: a URL it admitted before passes, and is not counted again;
\* any other must have room in each of its counters.
GuardAdmits(u) ==
    \/ u \in admitted
    \/ /\ u \notin Traps
       /\ \A t \in Counted[u] : Cardinality({v \in admitted : t \in Counted[v]}) < Limit[t]

\* Fault: the reason is left as it was.
ContextStopLost == stop

ContextStop == IF ctx = "deadline" THEN "max-duration" ELSE "interrupted"

\* The candidates nextLevel sorts: the sitemap's URLs on the first call, and
\* the links of every page.
Candidates(ps, d) ==
    (IF d = 1 THEN Seeds \cap InScope ELSE {}) \cup UNION {p.links : p \in ps}

-----------------------------------------------------------------------------
Init ==
    /\ site \in Sites
    /\ ctx = "live"
    /\ phase = "robots"
    /\ depth = 0
    /\ level = {} /\ cand = {} /\ next = {}
    /\ seen = {} /\ admitted = {}
    /\ policy = [o \in Origins |-> "none"]
    /\ pages = {}
    /\ skipped = [u \in URLs |-> "none"]
    /\ count = [r \in Reasons |-> 0]
    /\ recorded = {}
    /\ stop = "completed"

\* Ctrl-C or the deadline of the run; it can strike between any two steps.
EndContext ==
    /\ phase # "done" /\ ctx = "live"
    /\ ctx' \in Contexts \ {"live"}
    /\ UNCHANGED <<site, coordinator, result>>

\* audit.Run fetches the start origin's robots.txt before the crawl begins.
FetchRobots ==
    /\ phase = "robots"
    /\ policy' = [policy EXCEPT ![Origin[Start]] = FetchPolicy(Origin[Start])]
    /\ phase' = "start"
    /\ UNCHANGED <<site, ctx, depth, level, cand, next, seen, admitted, result>>

\* Crawl up to its loop.  What the guard says of the start URL is ignored.
StartCrawl ==
    /\ phase = "start"
    /\ admitted' = IF GuardAdmits(Start) THEN admitted \cup {Start} ELSE admitted
    /\ seen' = seen \cup {Start}
    /\ IF Allowed(Start)
       THEN /\ level' = {Start} /\ phase' = "level"
            /\ UNCHANGED stop /\ NoSkip
       ELSE /\ SkipAll({Start}, "robots-disallowed")
            /\ stop' = "start-disallowed" /\ phase' = "done"
            /\ UNCHANGED level
    /\ UNCHANGED <<site, ctx, depth, cand, next, policy, pages>>

Remaining == MaxPages - Cardinality(pages)

\* The head of Crawl's loop: the level is empty, ...
Finish ==
    /\ phase = "level" /\ level = {}
    /\ phase' = "done"
    /\ UNCHANGED <<site, ctx, depth, level, cand, next, seen, admitted, policy, result>>

\* ... or no page is left to spend on it, ...
NoBudget ==
    /\ phase = "level" /\ level # {} /\ Remaining <= 0
    /\ SkipAll(level, "max-pages")
    /\ stop' = "max-pages" /\ phase' = "done" /\ level' = {}
    /\ UNCHANGED <<site, ctx, depth, cand, next, seen, admitted, policy, pages>>

\* ... or it is cut to the budget ...
Truncate ==
    /\ phase = "level" /\ Remaining > 0 /\ Cardinality(level) > Remaining
    /\ level' = Lowest(level, Remaining)
    /\ SkipAll(level \ Lowest(level, Remaining), "max-pages")
    /\ stop' = "max-pages" /\ phase' = "fetch"
    /\ UNCHANGED <<site, ctx, depth, cand, next, seen, admitted, policy, pages>>

\* ... or it is fetched whole.
BeginLevel ==
    /\ phase = "level" /\ level # {} /\ Cardinality(level) <= Remaining
    /\ phase' = "fetch"
    /\ UNCHANGED <<site, ctx, depth, level, cand, next, seen, admitted, policy, result>>

\* The rest of the loop's body once runLevel has returned the pages ps, up to
\* the loop over the candidates in nextLevel.
EndLevel(ps) ==
    /\ phase = "fetch"
    /\ pages' = pages \cup ps
    /\ level' = {}
    /\ IF ctx = "live"
       THEN /\ seen' = seen \cup ({p.final : p \in ps} \ {None})
            /\ depth' = depth + 1
            /\ cand' = Candidates(ps, depth + 1)
            /\ phase' = "admit"
            /\ UNCHANGED stop
       ELSE /\ stop' = ContextStop /\ phase' = "done"
            /\ UNCHANGED <<seen, depth, cand>>
    /\ NoSkip
    /\ UNCHANGED <<site, ctx, next, admitted, policy>>

\* One turn of nextLevel's loop takes the lowest candidate.
Taken(u) ==
    /\ phase = "admit"
    /\ u \in cand /\ \A v \in cand : u <= v
    /\ cand' = cand \ {u}
    /\ UNCHANGED <<site, ctx, phase, depth, level, pages, stop>>

\* A URL that was seen before is dropped without a record.
DropSeen(u) ==
    /\ Taken(u) /\ u \in seen
    /\ NoSkip /\ UNCHANGED <<next, seen, admitted, policy>>

TooDeep(u) ==
    /\ Taken(u) /\ u \notin seen /\ depth > MaxDepth
    /\ seen' = seen \cup {u}
    /\ SkipAll({u}, "max-depth")
    /\ UNCHANGED <<next, admitted, policy>>

\* Fault: the URL is not marked seen.
AskedUnmarked(u) ==
    /\ Taken(u) /\ u \notin seen /\ depth <= MaxDepth
    /\ seen' = seen
    /\ policy' = [policy EXCEPT ![Origin[u]] = PolicyFor(u)]

\* From here on Options.Allowed has been asked, which may fetch a robots.txt.
Asked(u) ==
    /\ Taken(u) /\ u \notin seen /\ depth <= MaxDepth
    /\ seen' = seen \cup {u}
    /\ policy' = [policy EXCEPT ![Origin[u]] = PolicyFor(u)]

Disallowed(u) ==
    /\ Asked(u) /\ ~Allowed(u)
    /\ SkipAll({u}, "robots-disallowed")
    /\ UNCHANGED <<next, admitted>>

Trapped(u) ==
    /\ Asked(u) /\ Allowed(u) /\ ~GuardAdmits(u)
    /\ SkipAll({u}, "trap")
    /\ UNCHANGED <<next, admitted>>

\* The guard has already counted the URL when the queue turns out to be full.
QueueFull(u) ==
    /\ Asked(u) /\ Allowed(u) /\ GuardAdmits(u) /\ Cardinality(next) >= MaxQueue
    /\ admitted' = admitted \cup {u}
    /\ SkipAll({u}, "queue-full")
    /\ UNCHANGED next

Enqueue(u) ==
    /\ Asked(u) /\ Allowed(u) /\ GuardAdmits(u) /\ Cardinality(next) < MaxQueue
    /\ admitted' = admitted \cup {u}
    /\ next' = next \cup {u}
    /\ NoSkip

\* nextLevel returns.
NextLevel ==
    /\ phase = "admit" /\ cand = {}
    /\ level' = next /\ next' = {} /\ phase' = "level"
    /\ UNCHANGED <<site, ctx, depth, cand, seen, admitted, policy, result>>

Admit(u) ==
    DropSeen(u) \/ TooDeep(u) \/ Disallowed(u) \/ Trapped(u) \/ QueueFull(u) \/ Enqueue(u)

\* Every step of the coordinator but the fetching of a level.
Coordinate ==
    \/ FetchRobots \/ StartCrawl
    \/ Finish \/ NoBudget \/ Truncate \/ BeginLevel
    \/ \E u \in URLs : Admit(u)
    \/ NextLevel
=============================================================================
