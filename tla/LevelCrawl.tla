----------------------------- MODULE LevelCrawl -----------------------------
(***************************************************************************)
(* What a crawl promises when the worker pool is left out (ADR 0002): a    *)
(* level is fetched in one step, and with a live context the pages depend  *)
(* on nothing but the site.  Crawler refines this specification.           *)
(***************************************************************************)
EXTENDS Frontier

\* What runLevel may return for u: the site's answer, or, when the context
\* has ended meanwhile, a fetch it prevented or cut off.
Outcome(u) ==
    {Fetched(u)} \cup (IF ctx = "live" THEN {} ELSE {NotFetched(u)} \cup CutOffs(u))

FetchLevel ==
    \E ps \in SUBSET UNION {Outcome(u) : u \in level} :
        /\ \A u \in level : \E p \in ps : p.url = u
        /\ \A p, q \in ps : p.url = q.url => p = q
        /\ EndLevel(ps)

Next == Coordinate \/ FetchLevel \/ EndContext

Spec == Init /\ [][Next]_frontier

-----------------------------------------------------------------------------
(***************************************************************************)
(* Properties.                                                             *)
(***************************************************************************)

(* Every variable has its type. *)
TypeOK ==
    /\ site \in SiteType /\ ctx \in Contexts /\ phase \in Phases /\ depth \in Nat
    /\ level \subseteq URLs /\ cand \subseteq URLs /\ next \subseteq URLs
    /\ seen \subseteq URLs /\ admitted \subseteq URLs
    /\ policy \in [Origins -> {"none", "served", "refused"}]
    /\ pages \subseteq Pages
    /\ skipped \in [URLs -> Reasons \cup {"none"}]
    /\ count \in [Reasons -> Nat]
    /\ recorded \subseteq URLs
    /\ stop \in StopReasons

Requested == {p.url : p \in pages}
Skipped == {u \in URLs : skipped[u] # "none"}
Finals == {p.final : p \in pages}
Pending == level \cup next

(* docs/crawling.md, "Pages fetched": the pages in the result and those of *)
(* the level being fetched never exceed --max-pages.                       *)
Budget ==
    /\ Cardinality(pages) <= MaxPages
    /\ phase = "fetch" => Cardinality(pages) + Cardinality(level) <= MaxPages

(* A URL is requested at most once in a crawl: the set of seen URLs keeps  *)
(* nextLevel from queuing what a page, the queue or a skip already covers, *)
(* so the result has one page per URL and no skip for a URL it fetched.    *)
FetchedOnce ==
    /\ \A p, q \in pages : p.url = q.url => p = q
    /\ Pending \cap Requested = {}
    /\ Skipped \cap (Requested \cup Pending) = {}

(* Every page that was requested is permitted by the robots.txt of its own *)
(* origin, which was asked for before; a file that cannot be had permits   *)
(* nothing but itself (docs/crawling.md, Robots).                          *)
RobotsRespected ==
    \A u \in Requested \cup Pending :
        /\ u \in InScope /\ Permits(policy[Origin[u]], u)
        /\ policy[Origin[u]] = "served" => Origin[u] \notin site.down

(* The trap guard counts a URL before the queue can refuse it, and never   *)
(* counts one twice, so its limits per template and per path with queries  *)
(* bound what is requested, not only what it admits (docs/crawling.md,     *)
(* Crawl traps: "at most 25 distinct query strings are crawled per path",  *)
(* "At most 100 URLs per pattern are crawled").  A start URL that the      *)
(* guard refuses is fetched all the same, and not counted.                 *)
PatternBudget ==
    \A t \in Counters :
        Cardinality({u \in (Requested \cup Pending) \ (Traps \cap {Start}) :
                        t \in Counted[u]}) <= Limit[t]

(* SkippedCount counts each URL once, under the reason it was skipped for; *)
(* the list of skipped URLs is cut at its limit and nowhere else.          *)
SkipsCounted ==
    /\ \A r \in Reasons : count[r] = Cardinality({u \in URLs : skipped[u] = r})
    /\ recorded \subseteq Skipped
    /\ IF Cardinality(Skipped) <= MaxRecords
       THEN recorded = Skipped ELSE Cardinality(recorded) = MaxRecords

(* What the crawl has seen it fetched, queued, skipped for a stated        *)
(* reason, or was told to be where a redirect ends.                        *)
Accounted == seen \subseteq Requested \cup Pending \cup Skipped \cup Finals

(* A crawl that says it completed looked at every link of every page it    *)
(* has and at every URL of the sitemap in scope.                           *)
Complete ==
    (phase = "done" /\ stop = "completed") =>
        /\ UNION {p.links : p \in pages} \subseteq Requested \cup Skipped \cup Finals
        /\ Seeds \cap InScope \subseteq Requested \cup Skipped \cup Finals

(* The depth of a page is its distance from the start URL over the pages   *)
(* that were fetched: a page of the level before links to it, or the       *)
(* sitemap lists it, and no page of an earlier level does.                 *)
DepthIsDistance ==
    \A p \in pages :
        /\ p.depth > 0 =>
              \/ p.depth = 1 /\ p.url \in Seeds
              \/ \E q \in pages : q.depth = p.depth - 1 /\ p.url \in q.links
        /\ \A q \in pages : p.url \in q.links => p.depth <= q.depth + 1

(* The stop reason tells what cut the crawl short (docs/crawling.md,       *)
(* Cancellation): a result with a fetch that the context prevented says    *)
(* so, and one that dropped URLs for lack of budget never says completed.  *)
(* What a page says agrees: a fetch that the deadline cut off timed out,   *)
(* one that it prevented was canceled, as all are by an interrupt.         *)
StopExplains ==
    phase = "done" =>
        /\ (\E p \in pages : p.outcome \in {"canceled", "timeout"})
              => stop \in {"max-duration", "interrupted"}
        /\ \A p \in pages :
              /\ p.outcome = "timeout" => stop = "max-duration" /\ p.final # None
              /\ p.outcome = "canceled" /\ p.final # None => stop = "interrupted"
        /\ count["max-pages"] > 0 => stop # "completed"
        /\ stop = "max-pages" => count["max-pages"] > 0
        /\ stop \in {"max-duration", "interrupted"} => ctx # "live"

(* Wherever a limit falls, inside a level or between two, with URLs that   *)
(* were admitted and then dropped: no limit is passed, and the counters    *)
(* agree with the lists as long as these are not cut.                      *)
WithinLimits == TypeOK /\ Budget /\ PatternBudget /\ SkipsCounted

(* Every URL that is found, however often and by whatever way, is          *)
(* requested once, or counted as skipped, or said to be where a redirect   *)
(* ends; a crawl that says it completed has looked at every link.          *)
EachURLOnce == FetchedOnce /\ Accounted /\ Complete
=============================================================================
