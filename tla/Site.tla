-------------------------------- MODULE Site --------------------------------
(***************************************************************************)
(* The analysis of a crawl (internal/audit): every HTML page that was      *)
(* fetched is read into its model and its body dropped (processPage); when *)
(* all are read, the checks of single pages and those of the site are made *)
(* from the models (internal/htmlcheck, links, duplicates, webhygiene).    *)
(***************************************************************************)
EXTENDS PageChecks

CONSTANTS
    Crawls,                     \* crawls as they end, each with its sitemap; by kind
    Headers,                    \* the security headers of a response
    maxCanonicalHops, NearDuplicateThreshold

URLs == [site : Texts \ {"bad"}, path : Texts]
PageURLs == URLs \ {NoURL}
Text == [words : {"none", "few", "many"}, boilerplate : BOOLEAN, id : Texts, bits : SUBSET Nat]
Response ==
    [requested : PageURLs, url : PageURLs, status : Nat, failed : BOOLEAN, responded : BOOLEAN, html : BOOLEAN, parses : BOOLEAN,
     redirects : Nat, secure : BOOLEAN, headers : SUBSET Headers, lang : Lang, text : Text,
     elements : Seq(Element), robots : Seq(RobotsHeaders), link : Seq(LinkHeaders)]

ASSUME HopsAssumption == maxCanonicalHops \in Nat /\ NearDuplicateThreshold \in Nat
\* Without a redirect, the URL of a response is the one requested.
ASSUME CrawlsAssumption ==
    \A kind \in Crawls : \A c \in kind :
        /\ c \in [pages : Seq(Response), sitemap : SUBSET URLs, disallowed : SUBSET URLs]
        /\ \A i \in DOMAIN c.pages : c.pages[i].redirects = 0 => c.pages[i].url = c.pages[i].requested

VARIABLES
    crawl,      \* [pages, sitemap, disallowed]: crawler.Result, the sitemap's URLs
    at,         \* how many pages were looked at
    data,       \* the models of those that were read, by position
    report      \* [findings, pages], or NoReport

vars == <<pageVars, crawl, at, data, report>>

NoReport == [findings |-> {}, pages |-> <<>>, ready |-> FALSE]
NoResponse == [url |-> NoURL, lang |-> [tag |-> "absent", primary |-> "", valid |-> FALSE],
               elements |-> <<>>, robots |-> <<>>, link |-> <<>>]

IsHTML(c) == c.html /\ c.status \in 200 .. 299
\* crawler.fetchPage calls Process for HTML that was fetched with GET.
Processed(c) == ~c.failed /\ IsHTML(c) /\ ~Resource(c.requested)

-----------------------------------------------------------------------------
(* Site-wide checks, from positions in the crawl. *)
Parsed == DOMAIN data
Entry(i) == crawl.pages[i]
\* URL of a page: that of its model, else the one requested.
URLOf(i) == IF i \in Parsed THEN data[i].url ELSE Entry(i).requested
IndexablePage(i) == i \in Parsed /\ Indexable(data[i])
LastOf(S) == CHOOSE i \in S : \A j \in S : j <= i
Failed(c) == c.failed \/ c.status >= 400

\* Values that several pages share, one finding for each page.
SharedValues(value, rule) ==
    {F(rule, data[i].url, NoURL) : i \in {j \in Parsed :
        value[j] # "" /\ \E k \in Parsed \ {j} : value[k] = value[j]}}
DuplicateMetadataFindings ==
    SharedValues([i \in Parsed |-> First(data[i].titles)], "TitleDuplicate")
    \cup SharedValues([i \in Parsed |-> First(data[i].descriptions)], "DescriptionDuplicate")
FirstH1(p) == IF H1s(p) = {} THEN "" ELSE p.headings[Min(H1s(p))].text
DuplicateH1Findings == SharedValues([i \in Parsed |-> FirstH1(data[i])], "HeadingDuplicateH1")

\* The last page with a URL stands for it.  Fault: x-default is no way back.
ReturnsNoDefault(from, to) == \E h \in ToSet(data[from].hreflangs) : h.href = data[to].url /\ h.lang.tag # "x-default"
Returns(from, to) == \E h \in ToSet(data[from].hreflangs) : h.href = data[to].url
AlternateFindings(i, h) ==
    LET with == {j \in Parsed : data[j].url = h.href}
        target == LastOf(with)
    IN IF with = {} \/ target = i THEN {}
       ELSE (IF Returns(target, i) THEN {} ELSE {F("HreflangNoReturn", data[i].url, h.href)})
            \cup (IF IndexablePage(target) THEN {}
                  ELSE {F("HreflangTargetProblem", data[i].url, h.href)})
HreflangSiteFindings ==
    UNION {UNION {AlternateFindings(i, h) : h \in ToSet(data[i].hreflangs)} : i \in Parsed}

-----------------------------------------------------------------------------
(* links.Analyze: of the links of a page to a URL only the first counts.   *)
(* Fault: a link of a page to itself counts.                               *)
FirstLinks(i) ==
    LET all == IF i \in Parsed THEN data[i].links ELSE <<>>
    IN {all[k] : k \in {n \in DOMAIN all : all[n].url # NoURL /\ \A m \in 1 .. n - 1 : all[m].url # all[n].url}}
Fetched == {URLOf(i) : i \in DOMAIN crawl.pages}
InternalLinks(i) == {l \in FirstLinks(i) : ~l.external /\ l.url \in Fetched}
Counts(i, l) == l.url # URLOf(i) /\ ~l.nofollow /\ IndexablePage(i)
Inbound(url) == {i \in DOMAIN crawl.pages : \E l \in InternalLinks(i) : l.url = url /\ Counts(i, l)}
FailedURL(url) == Failed(Entry(LastOf({i \in DOMAIN crawl.pages : URLOf(i) = url})))

LinkFindings ==
    LET pages == DOMAIN crawl.pages
        Named(i) == {l \in InternalLinks(i) : IndexablePage(i) /\ l.text # ""} IN
    {F("LinkOrphan", URLOf(i), NoURL) : i \in {j \in pages : IndexablePage(j) /\ j # 1 /\ Inbound(URLOf(j)) = {}}}
    \cup {F("LinkSelf", data[i].url, NoURL) : i \in {j \in Parsed : \E l \in ToSet(data[j].links) : l.url = data[j].url}}
    \cup {F("LinkBroken", NoURL, l.url) : l \in {k \in UNION {InternalLinks(i) : i \in pages} : FailedURL(k.url)}}
    \cup (IF \E i, j \in pages : \E k \in Named(i), l \in Named(j) : k.text = l.text /\ k.url # l.url
          THEN {F("LinkDuplicated", NoURL, NoURL)} ELSE {})

\* enrichReport: the numbers of links in the report; a page counts its
\* followed targets once each.
Followed(p) == {l.url : l \in {k \in ToSet(p.links) : ~k.external /\ ~k.nofollow}} \ {NoURL, p.url}
InboundNumber(url) == Cardinality({i \in Parsed : Indexable(data[i]) /\ url \in Followed(data[i])})
OutboundNumber(url) == MapThenSumSet(LAMBDA i : Cardinality(Followed(data[i])), {i \in Parsed : data[i].url = url})
Metric(i) ==
    [url |-> URLOf(i), status |-> Entry(i).status, indexable |-> IndexablePage(i),
     inbound |-> InboundNumber(URLOf(i)), outbound |-> OutboundNumber(URLOf(i))]

-----------------------------------------------------------------------------
(* duplicates.Analyze: texts with the same digest; then fingerprints near  *)
(* that of the first of a group.  A fingerprint is a set of bits.          *)
hamming(a, b) == Cardinality((a \ b) \cup (b \ a))
Near(a, b) == hamming(a, b) <= NearDuplicateThreshold
\* Pages whose content is looked at.  Fault: those out of the index too.
ContentsAll == Parsed
Contents == {i \in DOMAIN crawl.pages : IndexablePage(i)}
Compared == {i \in Contents : Entry(i).text.words # "none"}
\* A page joins the first group whose first page it is like, else it makes
\* one of its own.
Join(groups, i, alike) ==
    LET fitting == {g \in DOMAIN groups : groups[g][1] \in alike}
    IN IF fitting = {} THEN Append(groups, <<i>>) ELSE [groups EXCEPT ![Min(fitting)] = Append(@, i)]
SameText(i) == {j \in Compared : Entry(j).text.id = Entry(i).text.id}
exact[n \in 0 .. Len(crawl.pages)] ==
    IF n = 0 THEN <<>> ELSE IF n \in Compared THEN Join(exact[n - 1], n, SameText(n)) ELSE exact[n - 1]
ExactGroups == exact[Len(crawl.pages)]
\* Only the first page of an exact group goes on.  Fault: all do.
FirstsAll == Compared
Firsts == {g[1] : g \in ToSet(ExactGroups)}
Similar(i) == {j \in Compared : Near(Entry(i).text.bits, Entry(j).text.bits)}
near[n \in 0 .. Len(crawl.pages)] ==
    IF n = 0 THEN <<>> ELSE IF n \in Firsts THEN Join(near[n - 1], n, Similar(n)) ELSE near[n - 1]
NearGroups == near[Len(crawl.pages)]
DuplicateFindings ==
    {F("DuplicateExact", data[g[1]].url, NoURL) : g \in {h \in ToSet(ExactGroups) : Len(h) > 1}}
    \cup {F("DuplicateNear", data[g[1]].url, NoURL) : g \in {h \in ToSet(NearGroups) : Len(h) > 1}}

ContentFindings ==
    UNION {LET text == Entry(i).text IN
           If(text.words = "none", "ContentNoText", data[i])
           \cup If(text.words # "none" /\ text.boilerplate, "ContentBoilerplate", data[i])
           \cup If(text.words = "few", "ContentVeryShort", data[i]) : i \in Contents}

-----------------------------------------------------------------------------
(* CanonicalSiteFindings: from a page to its canonical and on, as long as  *)
(* the targets were crawled and at most maxCanonicalHops times.            *)
Known(url) == {i \in DOMAIN crawl.pages : Entry(i).requested = url}
TargetCanonical(url) ==
    LET i == LastOf(Known(url)) IN IF Known(url) = {} \/ i \notin Parsed THEN NoURL ELSE CanonicalURL(data[i])
\* Fault: only the page itself closes a loop.
SeenOwn(chain, url) == url = chain[1]
Seen(chain, url) == \E i \in DOMAIN chain : chain[i] = url
Hop(w) ==
    IF w.next = NoURL \/ w.next = Last(w.chain) THEN [w EXCEPT !.next = NoURL]
    ELSE IF Seen(w.chain, w.next) THEN [w EXCEPT !.next = NoURL, !.loop = TRUE]
    ELSE [w EXCEPT !.chain = Append(@, w.next), !.next = TargetCanonical(w.next)]
Walk(from, to) ==
    LET after[n \in 0 .. maxCanonicalHops] ==
            IF n = 0 THEN [chain |-> <<from, to>>, next |-> TargetCanonical(to), loop |-> FALSE] ELSE Hop(after[n - 1])
    IN after[maxCanonicalHops]

CanonicalSiteFindings ==
    UNION {LET p == data[i]
               c == CanonicalURL(p)
               target == Entry(LastOf(Known(c)))
               walk == Walk(p.url, c) IN
           IF c \in {NoURL, p.url} \/ Known(c) = {} THEN {}
           ELSE IF Failed(target) THEN {F("CanonicalTargetBroken", p.url, c)}
           ELSE IF target.redirects > 0 THEN {F("CanonicalTargetRedirects", p.url, c)}
           ELSE If(walk.loop, "CanonicalLoop", p)
                \cup If(~walk.loop /\ Len(walk.chain) > 2, "CanonicalChain", p)
           : i \in Parsed}

\* crawlFindings.  Fault: the sitemap may name what redirects.
UnfitStill(i) ==
    \/ Failed(Entry(i))
    \/ i \in Parsed /\ (~Indexable(data[i]) \/ CanonicalURL(data[i]) \notin {NoURL, data[i].url})
Unfit(i) ==
    \/ Failed(Entry(i)) \/ Entry(i).redirects > 0
    \/ i \in Parsed /\ (~Indexable(data[i]) \/ CanonicalURL(data[i]) \notin {NoURL, data[i].url})
CrawlFindings ==
    LET pages == DOMAIN crawl.pages
        Requested(S) == {Entry(i).requested : i \in S} IN
    {F("HTTPFailure", u, NoURL) : u \in Requested({i \in pages : Failed(Entry(i))})}
    \cup {F("HTTPRedirect", u, NoURL) : u \in Requested({i \in pages : Entry(i).redirects > 0})}
    \cup {F("HTMLParse", u, NoURL) : u \in Requested({i \in pages \ Parsed : IsHTML(Entry(i)) /\ ~Entry(i).failed})}
    \cup {F("SitemapTarget", u, NoURL) : u \in Requested({i \in pages : Unfit(i)}) \cap crawl.sitemap}
    \cup {F("SitemapTarget", u, NoURL) : u \in crawl.sitemap \cap crawl.disallowed}
    \cup CanonicalSiteFindings

observedLinkFindings ==
    LET failed == {u \in {Entry(i).requested : i \in DOMAIN crawl.pages} : Failed(Entry(LastOf(Known(u))))} IN
    UNION {{F("HreflangTargetProblem", data[i].url, h.href) : h \in {g \in ToSet(data[i].hreflangs) : g.href \in failed}}
           \cup {F("LinkBroken", data[i].url, m.url) : m \in {n \in ToSet(data[i].images) : n.url \in failed}}
           : i \in Parsed}

\* MarkupFindings: what a secure page loads from a plain address.
MixedFindings ==
    {F("WebHygieneMixed", data[i].url, NoURL) : i \in {j \in Parsed :
        Entry(j).secure /\ \E e \in ToSet(Entry(j).elements) : e.tag = "img" /\ e.inside # "template" /\ e.plain}}
\* webhygiene.Findings: the first response for a URL.
HygieneFindings ==
    UNION {LET c == Entry(i)
               Missing(header, rule) == IF header \in c.headers THEN {} ELSE {F(rule, c.requested, NoURL)} IN
           (IF c.secure THEN Missing("hsts", "WebHygieneHSTS") ELSE {F("WebHygieneInsecure", c.requested, NoURL)})
           \cup Missing("nosniff", "WebHygieneXCTO") \cup Missing("referrer", "WebHygieneReferrer")
           \cup Missing("csp", "WebHygieneCSP")
           \cup (IF "frame-ancestors" \in c.headers THEN {} ELSE Missing("xfo", "WebHygieneFrame"))
           : i \in {j \in DOMAIN crawl.pages : /\ Entry(j).responded
                                               /\ \A k \in 1 .. j - 1 : Entry(k).responded => Entry(k).requested # Entry(j).requested}}

-----------------------------------------------------------------------------
Init ==
    /\ \E kind \in Crawls : crawl \in kind
    /\ at = 0 /\ data = <<>> /\ report = NoReport
    /\ response = NoResponse /\ visited = 0 /\ directives = <<>> /\ page = NewPage(NoResponse)

\* The next page: it is read, or it has no model, as when html.Parse fails.
Take ==
    /\ response = NoResponse /\ at < Len(crawl.pages)
    /\ at' = at + 1
    /\ IF Processed(Entry(at + 1)) /\ Entry(at + 1).parses THEN Open(Entry(at + 1)) ELSE UNCHANGED pageVars
    /\ UNCHANGED <<crawl, data, report>>
Read == response # NoResponse /\ ReadPage /\ UNCHANGED <<crawl, at, data, report>>
\* The model is kept, the body is not.
Keep ==
    /\ response # NoResponse /\ visited = Len(Items(response)) /\ directives = <<>>
    /\ data' = [i \in DOMAIN data \cup {at} |-> IF i = at THEN page ELSE data[i]]
    /\ response' = NoResponse /\ visited' = 0 /\ page' = NewPage(NoResponse)
    /\ UNCHANGED <<directives, crawl, at, report>>

Start == Entry(1).url
Findings ==
    (UNION {PageFindings(data[i], data[i].url = Start) : i \in Parsed})
    \cup DuplicateMetadataFindings \cup DuplicateH1Findings \cup HreflangSiteFindings
    \cup LinkFindings \cup ContentFindings \cup DuplicateFindings \cup CrawlFindings
    \cup observedLinkFindings \cup HygieneFindings \cup MixedFindings
Analyse ==
    /\ response = NoResponse /\ at = Len(crawl.pages) /\ ~report.ready
    /\ report' = [ready |-> TRUE, findings |-> Findings, pages |-> [i \in DOMAIN crawl.pages |-> Metric(i)]]
    /\ UNCHANGED <<pageVars, crawl, at, data>>

Next == Take \/ Read \/ Keep \/ Analyse
Spec == Init /\ [][Next]_vars

-----------------------------------------------------------------------------
(* Properties. *)
Found(rule) == {f \in report.findings : f.rule = rule}
Visible(e) == e.inside = "none"
\* The place of i among the members of S.
Rank(S, i) == Cardinality({j \in S : j <= i})
\* s has, in their order and up to a limit, what f makes of the items in S.
Holds(s, f, S, limit) ==
    /\ Len(s) = IF Cardinality(S) < limit THEN Cardinality(S) ELSE limit
    /\ \A i \in S : Rank(S, i) <= limit => s[Rank(S, i)] = f[i]

\* Types, and no list of a page is longer than its limit.
SiteTypeOK ==
    /\ at \in 0 .. Len(crawl.pages) /\ Parsed \subseteq 1 .. at
    /\ report.ready \in BOOLEAN
    /\ \A p \in {page} \cup {data[i] : i \in Parsed} :
           /\ Len(p.headings) <= MaxHeadings /\ Len(p.canonicals) <= MaxCanonicals
           /\ Len(p.robots.sources) <= maxRobotsSources /\ Len(p.social) <= MaxSocialValues
           /\ Len(p.links) <= MaxLinks /\ Len(p.images) <= MaxImages /\ Len(p.hreflangs) <= MaxHreflangs

\* Robots directives of several tags and headers are merged so that the most
\* restrictive wins, in whatever order and from whatever source they come
\* (robotsmeta.go:22-24).
RobotsSources(c) ==
    LET given == {i \in DOMAIN Items(c) : LET e == Items(c)[i] IN
                     \/ e.tag = "robots" /\ Visible(e) /\ e.agent \in robotsAgents
                     \/ e.tag = "x-robots"}
    IN {i \in given : Rank(given, i) <= maxRobotsSources}
Directives(c) ==
    UNION {ToSet(Items(c)[i].value) : i \in {j \in RobotsSources(c) : Items(c)[j].agent \in {"", "robots", "googlebot"}}}
RobotsMostRestrictive ==
    \A i \in Parsed :
        LET given == Directives(Entry(i))
            r == data[i].robots
            Keys(keys) == \E d \in given : d.key \in keys
            snippets == {d.n : d \in {e \in given : e.key = "max-snippet" /\ e.n >= -1}}
            previews == {d.n : d \in {e \in given : e.key = "max-image-preview" /\ e.n \in 0 .. 2}} IN
        /\ r.noindex = Keys({"noindex", "none"}) /\ r.nofollow = Keys({"nofollow", "none"})
        /\ r.maxSnippet = IF snippets = {} THEN NotSet
                          ELSE IF snippets = {-1} THEN -1 ELSE Min(snippets \ {-1})
        /\ r.preview = IF previews = {} THEN NotSet ELSE Min(previews)

\* The links and images recorded are those of the document, in its order and
\* up to the limits, and all of them are resolved against one base, wherever
\* in the document it is stated (parse.go:146-168).
BaseOf(c) ==
    LET stated == {i \in DOMAIN c.elements : c.elements[i].tag = "base" /\ c.elements[i].inside # "svg"}
        href == c.elements[Min(stated)].href
    IN IF stated = {} \/ href.site \in {"bad", ""} THEN c.url.site ELSE href.site
ReferencesOfThePage ==
    \A i \in Parsed :
        LET c == Entry(i)
            Target(e) == IF e.href.site = "bad" THEN NoURL
                         ELSE [site |-> IF e.href.site = "" THEN BaseOf(c) ELSE e.href.site, path |-> e.href.path]
            Of(tag) == {k \in DOMAIN c.elements : LET e == c.elements[k] IN e.tag = tag /\ Visible(e) /\ e.href # NoURL}
            Targets(tag) == [k \in Of(tag) |-> Target(c.elements[k])]
            URLsOf(s) == [k \in 1 .. Len(s) |-> s[k].url]
        IN /\ Holds(URLsOf(data[i].links), Targets("a"), Of("a"), MaxLinks)
           /\ Holds(URLsOf(data[i].images), Targets("img"), Of("img"), MaxImages)

\* A page without a finding on its outline has, before a heading, one of
\* every level above it (headings.go:67-81).
OutlineIsComplete ==
    report.ready => \A i \in Parsed :
        F("HeadingHierarchy", data[i].url, NoURL) \notin report.findings =>
            \A h \in DOMAIN data[i].headings : \A level \in 1 .. data[i].headings[h].level - 1 :
                \E k \in 1 .. h - 1 : data[i].headings[k].level = level

\* Of several canonical declarations in the document and the headers one is
\* effective, never one of the body, and unless all agree the page has a
\* finding (canonical.go:98-118, 142), as long as there is room for them.
\* Left out: a relative one in a header of a page with another base, which
\* the code resolves otherwise than docs/development.md:360 says.
CanonicalIsDecided ==
    report.ready => \A i \in Parsed :
        LET c == Entry(i)
            all == Items(c)
            declared == {k \in DOMAIN all : all[k].tag = "link" \/ (all[k].tag = "canonical" /\ Visible(all[k]))}
            valid == {k \in declared : all[k].href # NoURL /\ all[k].href.site # "bad"}
            Target(e) == IF e.href.site = "" THEN [e.href EXCEPT !.site = BaseOf(c)] ELSE e.href
            effective == {k \in valid : all[k].tag = "link" \/ all[k].inHead}
            oneBase == \A k \in declared : all[k].tag = "link" /\ all[k].href.site = "" => BaseOf(c) = c.url.site IN
        Cardinality(declared) <= MaxCanonicals /\ oneBase =>
            /\ CanonicalURL(data[i]) = IF effective = {} THEN NoURL ELSE Target(all[Min(effective)])
            /\ F("CanonicalMultiple", data[i].url, NoURL) \notin report.findings =>
                   \A k, l \in valid : Target(all[k]) = Target(all[l])

\* A page without a conflict names one URL for a language, though each
\* declaration is compared with one other only (hreflang.go:57-67).
AlternatesAgree ==
    report.ready => \A i \in Parsed :
        (\A f \in Found("HreflangConflict") : f.url # data[i].url) =>
            \A g, h \in ToSet(data[i].hreflangs) : g.lang.tag = h.lang.tag => g.href = h.href

\* No missing return link is reported exactly if, among the pages that were
\* read, alternates are mutual (hreflang.go:96).
AlternatesReturn ==
    report.ready =>
        LET Names(i, j) == \E h \in ToSet(data[i].hreflangs) : h.href = data[j].url
            several == \E i, j \in Parsed : i # j /\ data[i].url = data[j].url
        IN ~several => (Found("HreflangNoReturn") = {} <=> \A i, j \in Parsed : Names(i, j) => Names(j, i))

\* The link graph and the numbers of the report are computed apart; a page
\* that may be indexed and has no inbound link by the numbers is reported as
\* an orphan (links.go:115, metrics.go:27).
UnlinkedIsReported ==
    report.ready => \A i \in DOMAIN report.pages :
        (i # 1 /\ report.pages[i].indexable /\ report.pages[i].inbound = 0) =>
            F("LinkOrphan", report.pages[i].url, NoURL) \in report.findings

\* The converse, and what links.go:59-61 calls an orphan: no crawled page
\* links to it.
OrphansAreUnlinked ==
    report.ready => \A i \in DOMAIN report.pages :
        F("LinkOrphan", report.pages[i].url, NoURL) \in report.findings => report.pages[i].inbound = 0

\* A page has a canonical loop exactly if its canonical, one that was fetched
\* without fault, leads on to a URL that was already passed, within the
\* limit, and not to a page that names itself; it never has a chain as well
\* (canonical.go:196-218).
LoopsAreFound ==
    report.ready => \A i \in Parsed :
        LET p == data[i].url
            c == CanonicalURL(data[i])
            Nth[n \in 0 .. maxCanonicalHops + 1] ==
                IF n = 0 THEN p ELSE IF n = 1 THEN c ELSE TargetCanonical(Nth[n - 1])
            sound == Known(c) # {} /\ ~Failed(Entry(LastOf(Known(c)))) /\ Entry(LastOf(Known(c))).redirects = 0
            returns == \E n \in 1 .. maxCanonicalHops + 1 :
                           /\ Nth[n] # NoURL /\ \E m \in 0 .. n - 1 : Nth[m] = Nth[n]
                           /\ \A m \in 0 .. n - 1 : Nth[m] # Nth[m + 1]
            Has(rule) == F(rule, p, NoURL) \in report.findings
        IN (\A j \in Parsed \ {i} : data[j].url # p) =>
               /\ Has("CanonicalLoop") <=> (sound /\ returns)
               /\ ~(Has("CanonicalLoop") /\ Has("CanonicalChain"))

\* Duplicates form groups: every page with a text is in one exact group, with
\* the pages of the same text and no others; every first page of one is in
\* one group of similar pages, and is similar to its first
\* (duplicates.go:62-104).
GroupsPartition ==
    report.ready =>
        LET Member(i, groups) == {g \in DOMAIN groups : i \in ToSet(groups[g])}
            firsts == {g[1] : g \in ToSet(ExactGroups)} IN
        /\ \A i, j \in Compared :
               /\ Cardinality(Member(i, ExactGroups)) = 1
               /\ Member(i, ExactGroups) = Member(j, ExactGroups) <=> Entry(i).text.id = Entry(j).text.id
        /\ \A i \in firsts : Cardinality(Member(i, NearGroups)) = 1
        /\ \A g, h \in ToSet(NearGroups) :
               /\ \A i \in ToSet(g) : i \in firsts /\ Near(Entry(i).text.bits, Entry(g[1]).text.bits)
               /\ g # h => ~Near(Entry(g[1]).text.bits, Entry(h[1]).text.bits)

\* A URL of the sitemap that was fetched and has no finding for it is, in
\* the numbers of the report, a page of its own with status 2xx or 3xx.
SitemapNamesPages ==
    report.ready => \A i \in DOMAIN crawl.pages :
        LET u == Entry(i).requested IN
        (u \in crawl.sitemap /\ F("SitemapTarget", u, NoURL) \notin report.findings) =>
            /\ report.pages[i].url = u /\ report.pages[i].status < 400
            /\ i \in Parsed => report.pages[i].indexable

\* Pages out of the index are no competitors and need no links: no orphan, no
\* duplicate and no thin content is reported for them
\* (docs/development.md:234, 268).
NoindexLeftAlone ==
    report.ready => \A f \in report.findings :
        f.rule \in {"LinkOrphan", "DuplicateExact", "DuplicateNear", "ContentNoText", "ContentBoilerplate",
                    "ContentVeryShort"} => \E i \in Parsed : data[i].url = f.url /\ Indexable(data[i])

\* Each <a> of a document is resolved and classified (docs/development.md:221).
EveryLinkIsRecorded ==
    \A i \in Parsed :
        LET all == {k \in DOMAIN Entry(i).elements : LET e == Entry(i).elements[k] IN
                       e.tag = "a" /\ e.inside \notin {"template", "svg"} /\ e.href # NoURL}
        IN Cardinality(all) <= MaxLinks => Len(data[i].links) = Cardinality(all)

(* What a page refers to outside headings, templates and drawings reaches  *)
(* the site-wide checks as it was written, up to the limits of its lists.  *)
ReferencesReachTheSite == SiteTypeOK /\ ReferencesOfThePage
(* The checks of one page, whose findings each depend on several elements  *)
(* in their order.                                                         *)
PagesAreJudged == OutlineIsComplete /\ CanonicalIsDecided /\ AlternatesAgree
(* The findings on links and on duplicates are those of the pages that     *)
(* search engines see, by the same numbers that the report shows.          *)
FindingsFollowTheIndex == UnlinkedIsReported /\ NoindexLeftAlone
=============================================================================
