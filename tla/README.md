# A TLA+ model of CrawlGrade

CrawlGrade audits a public web site from the command line: it fetches the
site's robots.txt and sitemaps, crawls the site level by level with a pool of
workers, and turns what it saw into findings, scores and a report. This
directory holds TLA+ specifications of the parts of it whose correctness is
hard to test, the TLC configurations that check them on small instances, and
TLAPS proofs of their safety properties for instances of any size.

## The system

| Component | State it keeps | Operations | Hard part | What makes it correct |
|---|---|---|---|---|
| crawler (`internal/crawler/crawler.go`) | level, next level, `seen`, pages, skips, stop reason | `Crawl`, `runLevel`, `fetchPage`, `nextLevel`, `skip` | worker pool, cancellation at any point, five limits | each URL once, none lost without a record, limits hold, result independent of scheduling, ends, says why it stopped |
| rate limiter (`ratelimit.go`) | `next`, the time of the next free slot | `Wait` | concurrent callers, cut-off waits | spacing of requests, no starvation |
| fetcher (`internal/fetcher`) | per request: hops, URLs seen, method | `Fetch`, `readBody` | redirect loops and limits, time-outs, partial results | bounded hops, loops named, body limits |
| network guard (`internal/netguard`) | none | `DialContext`, `CheckHost`, `CheckIP` | several addresses per name, name changes between check and use | only checked addresses are dialed |
| robots (`internal/robots`) | parsed groups per file | `Fetch`, `Parse`, `Allowed` | which group and which rule wins, unavailable files | RFC 9309 precedence |
| sitemap (`internal/sitemap`) | queue of files, URLs seen | `Collect` | nested indexes, limits, cancellation | limits hold, nothing twice |
| urlnorm (`internal/urlnorm`) | trap guard: URLs admitted, counters | `Parse`, `Contains`, `Admit` | budgets per template and per path | idempotent normal form, budgets hold |
| audit (`internal/audit`) | robots policies per origin | `Run` | order of requests, one deadline for all | robots before pages, policy of the right origin |
| report (`internal/report`), findings | report, scores, baseline | `New`, `Compare`, `Load` | keys of findings, group names, scores without pages | a diff adds up, scores are separate |
| htmlcheck | the model of a page while it is read | `Parse`, `AddRobotsHeaders`, `AddHeaderCanonicals`, `...Findings` | order of elements and headers, limits, merged directives | references as in the document, one canonical, the most restrictive directive |
| links, duplicates, webhygiene, content | none (functions of the crawled pages) | `Analyze`, `Findings` | graph algorithms, several passes over the same pages that must agree | findings and numbers of one report tell the same |
| structureddata, terms | none | `Extract`, `Weigh` | | agreement with their definitions |
| cli (`internal/cli`) | none | `runAudit`, `diff` | interrupts, deadline, a file that changes, failed writes | the documented exit codes |

`audit.Run` calls robots, sitemap, crawler and the analyses in that order under
one context with a deadline. The crawler calls back into `audit` twice: `Allowed`
from the goroutine that forms a level (it may fetch the robots.txt of a new
origin) and `Process` from the workers. Workers share the `pages` slice, each
writing the slots of the jobs it received; everything else belongs to the
coordinating goroutine. Every request goes through the limiter, the fetcher and
the guarded dialer.

## Modules

| Module | Models | Extends |
|---|---|---|
| `Frontier` | the coordinating goroutine: `Crawl`'s loop, `nextLevel`, skips, the robots policy cache, the trap guard | |
| `LevelCrawl` | the crawl with a level fetched in one step: the abstract specification; its safety properties | `Frontier` |
| `Crawler` | the crawl with goroutines, jobs channel, page slots, and the context ending between any two steps | `LevelCrawl` |
| `Limiter` | `Limiter.Wait` called by concurrent requests with time-outs and redirects, in discrete time | |
| `Fetch` | one call of `Fetcher.Fetch`: the redirect loop and `readBody` | |
| `GuardedFetch` | the fetch with the guarded dialer and the pool of connections under it | `Fetch` |
| `Sitemaps` | `sitemap.Collect`, and its finding that no sitemap is usable | |
| `Robots` | one robots.txt: fetched, parsed, asked; its findings | |
| `URLs` | `urlnorm`: `Resolve`, `Normalize`, the scope, the trap guard with its two maps | |
| `Page`, `PageChecks` | `htmlcheck.Parse` element by element, and the checks of one page | `PageChecks`: `Page` |
| `Site` | what `audit.Run` does with the pages of a crawl: reading them and the findings of the site, but for structured data and terms | `PageChecks` |
| `Reports` | reports as functions of their findings: counts, scores, comparison | |
| `Command` | `runAudit` with `audit.Run` in it, from the options to the exit code | `Reports` |
| `Promise` | what scripts may rely on: the abstract specification of `Command` | |
| `CrawlerProofs`, `LimiterProofs`, `FetchProofs`, `SitemapsProofs`, `RobotsProofs`, `URLsProofs`, `SiteProofs`, `CommandProofs` | the theorems | their component (`FetchProofs`: `GuardedFetch`) |
| `MCLevelCrawl`, `MCCrawler`, `MCLimiter`, `MCFetch`, `MCSitemaps`, `MCRobots`, `MCURLs`, `MCSite`, `MCCommand` | small instances | their component |

The components meet in these places. `Frontier` takes the URLs that `Sitemaps`
collects as the constant `Seeds`, and one action for what `Fetch` returns of a
page: its final URL, or that it failed. `Fetch` calls `Limiter.Wait` before every
request; there it is an action that may fail, and `Limiter` shows what it
promises when many fetches call it at once. `GuardedFetch` puts the dialer's steps
before the request of `Fetch` and is made of its other actions, so that what is
proved of `Fetch` carries over. `Sitemaps` and
`Robots` see of a fetch how it ended. What `Robots` answers for an agent is a
refused or allowed URL of `Frontier`, and `URLs` gives the counters of the trap
guard that `Frontier` takes as a function. `Site` takes the pages of a finished
crawl; what it finds, and what the crawl says of its end, are the `Crawls` of
`Command`.

### Frontier

URLs are numbers. `nextLevel` sorts its candidates as strings and drops
repetitions, so a set with the order of numbers stands for the list, and
`Lowest(S, n)` for a slice of its first `n` elements.

What the web answers is the variable `site`, chosen once: the links `Process`
returns for a page, the URL where its redirects end (or where a failing fetch
stopped), the fetches that fail, the URLs a served robots.txt refuses and the
origins whose robots.txt cannot be had. A redirect chain is a single hop.
Whether a URL is fetched with `HEAD`, has an HTML type or a good status shows
only in the links it has.

`phase` is the place of the coordinator: `robots` (before `Crawl`), `start`
(before its loop), `level` (loop head), `fetch` (in `runLevel`), `admit` (the
loop of `nextLevel`, one turn per candidate), `done`. One turn is an action of
its own because `Options.Allowed` may fetch a robots.txt and the context can end
around it. `Admit(u)` splits into the six ways out of the loop body, in the
order of the code: `DropSeen`, `TooDeep`, `Disallowed`, `Trapped`, `QueueFull`,
`Enqueue`.

`ctx` is the context of the run: live, past its deadline, or canceled.
`EndContext` may happen at any time, once. `audit.Run` and `Crawl` put the same
deadline on nested contexts, which are one here.

`GuardAdmits` is `TrapGuard.Admit`. The code keeps two maps of counters, by
path (for URLs with a query) and by template; here `Counters` is the set of all
of them and `Counted[u]` those of a URL. The three refusals that depend on the
shape of a URL alone are the constant set `Traps`.

### LevelCrawl and Crawler

In `LevelCrawl`, `FetchLevel` yields a page for each URL of the level: the
site's answer, or, when the context has ended, a fetch it prevented or cut off.
In `Crawler` the coordinator sends the URLs of the level over an unbuffered
channel (`Send`), a worker checks the context (`Refuse`, `Request`), fetches
(`Answer`, `Interrupt`) and writes the page to its slot; `Join` is the end of
`wg.Wait` with the rest of the loop body. `RefinesLevelCrawl` says that hiding
the pool gives a `LevelCrawl`: ADR 0002's promise that the result does not depend
on the concurrency, and the reason why the properties of `LevelCrawl` need to be
checked and proved only there.

### Limiter

Time is a number of ticks. `l.next` is `next` (0 for the zero time), and the
mutex makes the reservation one action (`Wait`); `deadline` is the request
time-out that `Fetch` puts on its context, so a redirect (`Hop`) waits again
under the same deadline. `Grant` is the timer that fires, `GiveUp` the context
that ends first, `Cancel` the context of the run. Timers fire late rather than
early: `Tick` lets a slot pass by at most `Late` before its owner is granted.
`starts` is a history of the times of requests, `quiet` the time since the last
one or since nobody waited, `patient` whether every wait so far got its slot.

### Fetch

One call, against servers that answer every request anew with anything: a
failure, a final response, a redirect with or without a usable location, to any
URL. `asked` is the request, `current`, `hops`, `seen` and `method` the variables
of the loop, `requests` a history of what was sent. A URL of the model is a
normalized URL without a fragment, as all callers pass. A body is a number of
bytes on the wire and after decompression and whether the stream ends well;
`ReadBody` takes from it what the two limits let through.

### Sitemaps

The entries of a document are looked at one by one, because `enqueue` and the
limit on URLs depend on those before (`AddFile`, `AddPage`); `pc` says whether
`todo` holds references to files (the seeds, or an index) or pages. Documents are
arbitrary members of `IndexDocs` and `PageDocs`, chosen when a file is fetched, so
an index may list itself or its parent. `FetchFails` stands for the error returns
of `fetchFile`: no response, a bad status, an oversized or an invalid document.
`Cancel` is the end of the context; the loop sees it before the next file.
The sources of files and the sorting of the result are left out.

### GuardedFetch

`Reuse` takes an idle connection to the host, `CheckHost` begins a new one,
`Resolve` asks a name server that may answer anything each time, `Check` is the
loop over all its addresses, `Dial` tries them in turn (with the second check at
the socket), and `Exchange` is the request over the connection, which may then
join the pool. An address is a record of its form and the prefixes that hold it,
so that `Classify` is the tables of `classify.go` and their lookup: of the entries
that hold the address (`Holding`) the first decides. Embedded addresses are looked
up as the address within. `AddressesAssumption` says what prefixes are: two of a
table that hold one address are one within the other, and `Within` lists the pairs.

### Robots

`Fetch` sets the outcome; `UserAgent`, `AllowDisallow`, `Sitemap`, `CrawlDelay` and
`OtherLine` are the branches of `Parse`, one line each; then every agent whose
block would be a finding, and the product itself, is asked about a path: `Ask` is
`Match` up to the rules of the agent, `AtSymbol`, `AtStar` and `AtEnd` are turns of the
matching loop with one star to go back to, `Compared` keeps the longest pattern.
Symbols stand for bytes and for escapes; `Normal` is what `normalizePattern` makes
of one, and those in `Escapes` count three bytes when patterns are compared by
length. `lines` is the body as the limit cuts it, `lineNo` the place in it. A rule
knows its line, so the rules of a group are a set whose order is that of the
lines; `left` are those of an agent that are still to be compared.

### URLs

A URL is a record of scheme, host labels, port digits, path and query bytes, so
that escapes, dot segments and zeros are really computed. Bytes are numbers, and
text is read in units, each a byte or an escape: `escapeStrayPercent`,
`normalizePercent` and `Decode` are one text for each unit. A path is split at its
slashes; `WithoutDots` goes through the segments, and `Join` puts them together.
`Parse` has no base; `Resolve` has one and begins with `ResolveReference` of
net/url, which resolves dots in its own way (`resolvePath`, external).
`Link` is one link of a page, `Entry` one URL of a sitemap: resolved or parsed,
compared with the scope, and given to `Admit`, whose maps are the bags `queries`
and `patterns`. Left out: `cleanHref`, which takes white space away,
fragments, which are dropped, and hosts that are IP addresses.

The assumptions: the labels of hosts are closed under lower case
(`LabelsAssumption`); references are what `url.Parse` yields, where a path after a
host is empty or begins with a slash, the start URL is valid and the base is a
page of the crawl, whose URL is normalized (`ReferencesAssumption`); limits are
natural numbers (`URLLimitsAssumption`).

### Page, PageChecks, Site

`Open` is the begin of `processPage`; `Read` is one element in document order or
one header value: an action each for `Title`, `Description`, `RobotsMeta`,
`SocialMeta`, `Heading`, `Canonical`, `Alternate`, `Anchor`, `Image`, `RobotsHeader`,
`LinkHeader`, and `Skip` for what `walk` does not enter; `visited` counts them. A
robots source adds its entry and leaves its directives in `directives`, which
`Directive` merges one by one before the next element is read. `Keep` is the end
of `processPage`: the model stays, the body does not. A page that does not parse
(`parses`) gets no model and, if it came as HTML, the finding `HTMLParse`. `Analyse` computes the report
from the models, one operator per `...Findings` function. A text is a value that
the checks tell apart (short, long, fitting, empty), a URL a site and a path, a
fingerprint a set of bits. Strings of pages are members of `Texts`, any set with the
few that the code names; `og` and `twitter` are the texts that begin with these
prefixes. The report sorts its pages by URL; here they stay in
the order of the crawl. Groups of duplicates are made as in the code, page by
page in that order: `exact` and `near` give the groups after each page.

The assumptions: the limits are natural numbers (`PageLimitsAssumption`,
`HopsAssumption`), the named strings are texts (`TextsAssumption`), those of social
metadata among `og` and `twitter` (`SocialAssumption`), and the crawls
are well-formed, where the URL of a response without a redirect is the one
requested (`CrawlsAssumption`; `fetcher.go` sets it from the current URL of its
loop).

### Reports, Command, Promise

`Command` has a phase for each stretch of `runAudit` and `audit.Run` between calls
that wait: `Validate`, `Discover`, `Crawl`, `Check` and `Answer` (one external link
or the request over HTTP at a time), `Report`, `Render`, `Write`, `ExitCode`.
`Interrupt`, `Expire` and `ChangeBaseline` (the baseline is read twice) may come
between any two. `site` is the crawl that nothing cuts short; when the context
has ended, `Crawl` has any of `CutShort`: fewer pages with the stop reason of the
context, another stop reason when it ended while a level was formed, or no page
at all because the robots.txt of the start was not had and refuses it. The
findings of a report are sequences by group, and a finding is counted at its
place (group and index), so that the same finding may be there twice. The assumptions say what the code guarantees of its inputs: a crawl without
pages failed on its first request, no analysis gives the findings of the checks
made after the crawl, and a baseline is a report that the command once wrote.
`KeepsPromise` is the refinement of `Promise`: a report and one of
0, 1, 3, 4, or none and 2 or 5, and it ends.

## Runs

| Run | Instance | What it shows |
|---|---|---|
| `crawl` | 5 URLs, 2 origins, 1728 sites; every limit so small that some sites hit it and others do not | every property of `LevelCrawl` |
| `workers` | 4 URLs, 24 sites, 2 workers | refinement, partition of the work, nothing new after the end, termination |
| `limiter` | 3 callers, interval 2, time-out 3, one redirect, timers up to 1 tick late, 6 ticks | slots are an interval apart; the rate holds in any stretch of time; requests start evenly while no wait was given up |
| `fetch` | 4 URLs of 3 hosts and a bad one, 2 redirects, limits of 2 and 3 bytes, 7 addresses, 12 answers of name servers | requests are bounded and not repeated, the chain is true, bodies are whole; only permitted addresses are connected to, blocks have a cause, and the fetch ends |
| `sitemaps` | 5 files and an invalid one, 4 pages, 2 + 3 documents; 5 files, 2 URLs, nesting 2, lists of 1 | the limits, and that skipping starts only there; shortest ways; everything collected |
| `robots` | files of up to 6 lines of 10 shapes, all patterns of up to 4 symbols, 6 paths, 6 outcomes; limits of 10 bytes, 2 rules, 1 sitemap, 2 warnings | merged groups, the right verdict, no rule lost silently, a block is told, the matcher ends |
| `urls` | all paths of a slash and up to 4 bytes of 7, and 7 longer ones; relative references; all hosts with all ports; all sequences of 4 links out of 9; each reference as a link and as a URL of a sitemap | a stable normal form of the same resource; exact counters, and no endless family |
| `site` | 7 families of crawls: one page of up to 3 elements out of 33 kinds, three sources of directives, and 3 or 4 pages with links, canonicals, alternates, texts, failures, one that does not parse | the model of a page, and that findings agree with the pages and with the numbers |
| `command` | 16 command lines, 15 crawls, 4 baselines | the promise, true checks of links, a comparison that adds up, scores that are separate |
| `missing`, `headings`, `orphan` | as the run of the component | the disagreements below |

Properties that belong together are checked as one; its parts, each with a
comment of its own, are:

| Property | Parts |
|---|---|
| `LevelCrawl!WithinLimits` | `TypeOK`, `Budget`, `PatternBudget`, `SkipsCounted` |
| `LevelCrawl!EachURLOnce` | `FetchedOnce`, `Accounted`, `Complete` |
| `Crawler!PoolSound` | `PoolTypeOK`, `WorkPartition`, `SlotsAreOutcomes` |
| `Limiter!Paced` | `LimiterTypeOK`, `Spaced`, `RateBound` |
| `Fetch!WayIsTrue` | `FetchTypeOK`, `Bounded`, `ChainTrue` |
| `GuardedFetch!PolicyKept` | `GuardTypeOK`, `OnlyPermitted`, `BlockedForCause` |
| `Sitemaps!WithinLimits` | `SitemapsTypeOK`, `FilesBounded`, `URLsBounded` |
| `Robots!LossIsTold` | `RobotsTypeOK`, `NoRuleLostSilently`, `BlockIsTold` |
| `URLs!GuardHolds` | `URLsTypeOK`, `CountersTrue`, `TrapsEnd` |
| `Site!ReferencesReachTheSite` | `SiteTypeOK`, `ReferencesOfThePage` |
| `Site!PagesAreJudged` | `OutlineIsComplete`, `CanonicalIsDecided`, `AlternatesAgree` |
| `Site!FindingsFollowTheIndex` | `UnlinkedIsReported`, `NoindexLeftAlone` |
| `Command!ScoresHold` | `CommandTypeOK`, `ScoresAreSeparate` |

The sites of a family combine pages with back links, links to the other origin,
links that only the sitemap repeats, a page that redirects to a page of its own
or of the next level, failing fetches, refused URLs and an unreachable
robots.txt. Five URLs are enough for a level that a limit cuts in the middle,
two URLs of one template with one query path, and a third level; four for a
level of three on two workers. Three callers of the limiter are enough for a slot
that is given up between two that are used. Five sitemap files allow an index at
each level, a cycle, and a file that is listed at two depths. `CHECK_DEADLOCK FALSE` where the
component ends: the crawl, a fetch, a collection; the clock of the limiter stops
at `Horizon`, and no slot after `LastSlot` is asked for. Both bounds are of the model
only: the theorems hold for any value of them.

In `robots` files are cut in the middle of a line, and every branch of the parser
comes before and after every other. The limits of `urls` are such that each
reason of the guard comes up within four links, and escapes and dot segments
within five bytes meet in all ways (the longer paths have both dots escaped). In `site` all lists of a page have limits of 2
or 3 elements, so that each is passed; loops of canonicals need three pages,
groups of similar pages need a page that is near to two others that are not near
to each other (fingerprints of 2 bits, threshold 1).

Some properties say less than their names may suggest. `EachURLOnce` takes a
URL where a redirect is said to end as handled, and one that is refused because
its robots.txt could not be had any more as skipped; both cases are listed below. `StopExplains`
ties the stop reason to the limits, the skips and the end of the context, but
allows `completed` when the context ended in a fetch of `nextLevel`. `CodeTellsOutcome`
closes that gap one level up: no audit whose context ended, between two sitemaps
or while a level was formed, exits with 0, 1 or 3. `Collected` and
`Evenly` speak of collections that were not cut off and of times without a wait
given up.

### Fairness

`FairSpec` assumes weak fairness of the coordinator, of the join and of each
worker: goroutines that can run are scheduled, and a request ends because
`Fetch` bounds it by a time-out, so `Answer` or `Interrupt` happens. The end of
the context is not fair: nobody has to press Ctrl-C. Nothing more is needed for
`Terminates`, because `seen` grows with every URL that is looked at.

`Robots`, `GuardedFetch` and `Command` are one goroutine each, whose steps are
computations or calls that end by a time-out: weak fairness of the next step.
Interrupts, the deadline and a changed baseline are not fair.

### Disagreements with the documentation

Shown by a run:

- `missing` (`MissingIsTrue`): a robots.txt that declares `/sitemap.xml` repeats the
  default seed, which comes first and is not declared. When the file fails, the
  report says that robots.txt declares no sitemap.
- `headings` (`EveryLinkIsRecorded`): the visitor of `Parse` does not go into
  headings, so a link or an image there is neither recorded nor followed, against
  "Each `<a>` is resolved" (`docs/development.md:221`).
- `orphan` (`OrphansAreUnlinked`): the link graph takes the first link of a page to
  a target, nofollow or not; the numbers of the same report take the first that is
  followed. A page may be called an orphan with an inbound count of 1.

Met while modelling, without a run of their own:

- robots.txt of a new origin is fetched inside `nextLevel`. When the context ends
  there, its URLs are skipped as disallowed, and if no other is left the crawl
  ends as `completed` (`audit.go:86`, against `docs/crawling.md:143`). The exit code is
  4 all the same (`CodeTellsOutcome`), because `audit.Run` looks at the context last.
- `nextLevel` marks the final URL of a response as seen "so it is not fetched
  again", but a failed fetch also has one, which was perhaps never requested; a
  link to it is dropped without a page and without a skip (`crawler.go:316`).
- `Wait` does not give back the slot of a wait that the time-out ends
  (`ratelimit.go:37`): when more goroutines ask than the time-out holds intervals,
  slots pass unused while others wait. `Evenly` therefore has `patient`.
- `MaxURLs` does not set `Truncated` of a sitemap file, against the comment of the
  field (`collect.go:42`, `138`).
- `--format JSON` with a baseline passes the validation and fails only when the
  report is rendered (`run.go:178`, against `docs/development.md:368`).
- `EscapedPath` falls back to encoding the decoded path when a byte needs an
  escape, so `/<%2F` becomes another resource (`urlnorm.go:149`, against `:4-8`);
  `SameResourceIfSafe` has the condition. A host with two dots at its end loses
  one at each normalization.
- `Resolve` with a base lets net/url resolve the dots before escaped dots are
  decoded: `/e/%2e/../a` becomes `/e/a`, where `Parse` gives `/a`, as a browser does
  (`urlnorm.go:70`, against `:58-59`). And net/url lets `..` take the empty segment
  before the first slash, so `/..//a` loses an empty segment. `SafeToResolve` has both as
  conditions.
- Two URLs of one level that redirect to one page give two entries with one URL,
  and the page is reported as a duplicate of itself (`metadata.go:74`).
- Link header canonicals are resolved against `<base href>` rather than the final
  URL (`audit.go:193`, against `docs/development.md:358-361`). `CanonicalIsDecided` leaves out
  pages with both a base element and a relative canonical in a header.

## Proofs

Every safety property that a run checks is proved, for any value of the
constants. `CrawlerProofs` proves those of `LevelCrawl`, those of the pool, the
refinement and, through it, the properties of `LevelCrawl` for `Crawler`: for any
number of URLs, any site, any limits and any finite pool, from the assumptions stated beside the constants: the sets of URLs
are within `1 .. N`, the start is in scope, limits are positive where the code's
defaults make them so.

The typing theorem comes first (`TypeCorrect`). None of the safety properties is
inductive, and each gets what it lacks:

- `Shape` ties the data to the place of the coordinator (the level is empty while
  a level is formed, no candidates outside it, ...).
- `RequestedOnce` needs `Covers`: whatever was requested, queued or skipped is in
  `seen`.
- `RobotsAreRespected` needs the policy cache to tell the truth about the
  origins, and the candidates to be in scope.
- `PagesBounded` needs that the loop head lets a level of at most
  `MaxPages - Cardinality(pages)` through; `LowestSize`, the size of a slice, is
  proved by way of the rank of an element.
- `PatternsBounded` needs that all that is queued or fetched was admitted, and
  that the admitted URLs of a counter are within its limit.
- `SkipsAreCounted` needs that a URL is skipped once, so that counters add up to
  cardinalities.
- `CompletedIsComplete` needs that every link of a page was seen or is a
  candidate still; `DepthsAreDistances` that all candidates are links of the last
  level (or seeds) and that links of earlier levels have all been looked at.

For the pool, it shows that the invariant (`WorkPartition`, each slot an
outcome) makes `Join` a `FetchLevel` step and every other step of the pool a
stutter. The proof of `EndIsRespected` uses the same invariant.

Each combined property has a theorem that joins those of its parts: `LimitsHold`,
`EachURLIsHandledOnce`, `PoolIsSound`, `RequestsArePaced`, `WaysAreTrue`,
`CollectionIsBounded`, `GuardCorrect`.

The components beside the crawl have proofs of their own:

- `LimiterProofs`: `Spaced` becomes inductive when the slots in use are compared
  with `next`. `RateBound` follows by an injection: starts in a stretch of time map
  to distinct slots of it. `Evenly` needs that, while nobody gave up, every slot still
  to come is held by a goroutine (`Dense`), that of those who wait one starts within
  an interval of the last start (`Soon`), and that no timer is later than it may
  be (`Punctual`).
- `FetchProofs`: three invariants of the loop, one for each thing it must not
  forget. `Counted` ties the number of requests to that of redirects, `Remembered` says
  that what was requested is in `seen`, `Path` that the redirects lead from the URL asked
  for to the current one. Outcomes are read off them.
  `GuardedFetch` is treated in the same module: as it is made of the actions of
  `Fetch`, these theorems hold for it too. `PolicyIsKept` needs that
  the addresses before the current one, all that are dialed and all in the pool
  have passed (`Passed`), and that no prefix of a table is listed twice and of two that
  hold one address the narrower comes first. The first entry that holds an
  address is therefore the most specific one (`FirstIsNarrower`), which is what the
  policy speaks of.
- `SitemapsProofs`: `FilesBounded` is inductive once the set of known files is
  finite. For `ShortestWay` the order of the queue is the key (`Ordered`: what is
  known is at most a level deeper than what waits, and the entries to come are the
  deepest); with it, whatever an index lists is either known already, at a depth
  that is not greater, or still to come (`Near`). `Collected` needs that seeds and
  pages of a document under way are recorded or to come.
- `RobotsProofs`: `RulesAreMerged` compares the groups with the file as RFC 9309 reads
  it, without groups. The invariant of the parser is `Follow`: after n lines, each group
  has the agents over its lines, the accepted lines up to n have their rule in such
  a group, and the last group is the one whose agents the next line is under.
  `VerdictIsRight` needs the matcher to be right, which goes back to one star only.
  `ScanHolds` says so at each turn: what is matched stands in the path, and if the
  pattern matches at all, it does in a way that is still ahead (`Open`); to give up
  is right because a later star can be moved in place of an earlier one
  (`GoingPastStar`, `GoingBack`, `NoWayBack`). `BestHolds` says that the best rule so far
  is the best of those compared. `NoRuleLostSilently` is `Kept`: no line was lost, or it
  was counted, or the file is marked as truncated.
- `CommandProofs`: `Shape` ties the data to the phase, and one invariant follows the
  crawl, the checks, the report, the comparison and the code. `CodeTellsOutcome`
  needs that the severity in the report is that of its findings, and that a crawl
  that was cut short leaves a context that has ended (`CutShortIs`); `ChecksAreTrue` that
  what is told and what is still to be asked are together what the crawl found
  (`ChecksGoOn`). `DiffAddsUp` and `ScoresHold` are facts about reports: findings
  correspond to places, and a report with more of each finding has no better
  score (`CoversCosts`, by an injection). `PromiseIsKept` maps every step to one of
  `Promise` or a stutter.
- `SiteProofs`: `Typed` says that a model has the URL of its response and that the
  report is made once, from the models. `Recording` is the invariant of the visitor:
  each list of a page holds, in order and up to its limit, the items of its kind
  among the elements read so far (`Lists`, by the rank of an item); the directives
  merged together with those still to be applied are those of the sources read
  (`Merges`). A step reads one item or merges one directive (`ReadIs`), and touches
  one list. `ReferencesAreRead` and `RobotsAreMerged` are read off at the end of a page.
  Of `JudgementsHold`, the outline goes through the headings one level at a time,
  the effective canonical is the first in the order of the code because the rank is
  monotone, and a conflict of languages is found at the nearest earlier alternate of
  the same language. The findings of the site are compared with the report:
  `IndexIsFollowed` counts the links to a page and uses that the rules of findings
  are distinct; `LoopsAreReported` follows a chain of canonicals by an invariant of
  the walk (`UnderWay` until it is `AtEnd` or `IsBack`); `DuplicatesFormGroups` goes
  through the pages of `exact` and `near`: joining one keeps the groups apart
  (`JoinKeeps`). That these recursive functions exist is proved, too
  (`RecursionExists`).
- `URLsProofs`: the functions of `URLs` go through bytes, units or segments one by
  one, as recursive functions; that they exist is proved (`RecursionExists`), and what
  they compute is shown by well-founded induction over the length of a text
  (`ByLength`, `ByUnit`).
  - `GuardHolds` is inductive with the counters exact for every key and the admitted
    URLs of a pattern within its limit (`GuardInv`). That a family ends needs
    that URLs which are alike have one pattern (`AlikePattern`): what `collapseDigits`
    gives of a text is told by its other bytes and the places of its numbers
    (`CollapseSame`), and the bag of keys by the set of names when no name comes
    twice (`KeysAreOfNames`).
  - `NormalForm` is read off `FormInv`: a URL is `InForm` when its texts are `Neat` (an
    escape only where it is needed, in capitals), its segments are no dots, its
    host and port are reduced. Normalization makes it so (`NormalIsNeat`, `PathInForm`)
    and leaves such a URL alone (`NeatStays`, `PathStays`, `FormStays`), as splitting and
    joining are inverse (`SplitJoin`, `JoinSplit`), splitting commutes with texts of
    units because no unit but the slash has a slash in its text (`SplitOfEach`), and
    without dots nothing is left out (`LeftDotless`).
  - `SameResourceIfSafe` needs the invariant that `url` is what `Parse` or `Resolve` gives of
    `ref` (`ResourceInv`). A normalized text has the values of the text (`SameValues`), and
    in one a segment is dots only if it decodes to dots (`NeatUnreserved`, `OpenIs`), so that
    removing dots before and after decoding comes to the same (`WithoutDotsMapped`,
    `JoinMeaning`). For links, what net/url leaves of a path names the same
    resource: it is the path from its first segment on (`KernelExists`, `RootRestored`).

Only model-checked are the liveness properties `Terminates`, `FetchEnds`, `Answers` and
the liveness part of `KeepsPromise`, which are out of the prover's reach.

## Plan

Every part with a state or with steps of several actors has a module, and all
safety properties are proved. What is left, most important first:

1. Of two URLs of one level that redirect to each other's target both are fetched
   (`crawler.go:316`). The model has it; the code and its comment leave the case open,
   so no property speaks of it.
2. The interval of the limiter is a division of floats (`ratelimit.go:23`), which the
   model takes as a number of ticks.
3. The parts below that hold pure functions: structured data and terms.

## Not modelled

- Structured data (`internal/structureddata`): JSON-LD, microdata and breadcrumb
  lists. Checks of single values in a tree, without a state or an order that
  matters; a model would repeat the code line by line.
- Terms and content extraction (`internal/terms`, `terms_strength`, `content/extract.go`):
  tokens of text and floating point weights. `Site` takes the extracted text as a value.
- Report renderers and highlights: layout, wording, escaping.
- The catalogue of findings (data), flag parsing, the test site and the tools.
- The parsing of XML, gzip, HTML and URLs by libraries, the HTTP transport but for
  its pool of connections, and the Go runtime.

`PROJECT.json` lists every component with its status.
