------------------------------- MODULE MCSite -------------------------------
(* Crawls of one page with all kinds of elements, and of three or four pages
   that refer to each other. *)
EXTENDS Site

U(path) == [site |-> "s", path |-> path]
Rel(path) == [site |-> "", path |-> path]
Other == [site |-> "o", path |-> "/x"]
Bad == [site |-> "bad", path |-> "/x"]
En == [tag |-> "en", primary |-> "en", valid |-> TRUE]
EnUS == [tag |-> "en-us", primary |-> "en", valid |-> TRUE]
XDefault == [tag |-> "x-default", primary |-> "x", valid |-> TRUE]
Wrong == [tag |-> "en_GB", primary |-> "en_gb", valid |-> FALSE]
NoLang == [tag |-> "absent", primary |-> "", valid |-> FALSE]

Base(href) == [tag |-> "base", inside |-> "none", inHead |-> TRUE, href |-> href]
TitleIn(text, inHead, inside) == [tag |-> "title", inside |-> inside, inHead |-> inHead, text |-> text]
TitleEl(text) == TitleIn(text, TRUE, "none")
Meta(text) == [tag |-> "meta", inside |-> "none", inHead |-> TRUE, text |-> text]
Robots(agent, value) == [tag |-> "robots", inside |-> "none", inHead |-> TRUE, agent |-> agent, value |-> value]
Social(property, text) == [tag |-> "social", inside |-> "none", inHead |-> TRUE, property |-> property, text |-> text]
CanonicalEl(href, inHead) == [tag |-> "canonical", inside |-> "none", inHead |-> inHead, href |-> href]
Alt(href, lang) == [tag |-> "alternate", inside |-> "none", inHead |-> TRUE, href |-> href, lang |-> lang]
A(href, nofollow, text, inside) ==
    [tag |-> "a", inside |-> inside, inHead |-> FALSE, href |-> href, nofollow |-> nofollow, text |-> text]
Img(href, alt) ==
    [tag |-> "img", inside |-> "none", inHead |-> FALSE, href |-> href, alt |-> alt, sized |-> alt = "t", loading |-> alt,
     plain |-> href.site = "o"]
H(level, text) == [tag |-> "h", inside |-> "none", inHead |-> FALSE, level |-> level, text |-> text]
D(key, n) == [key |-> key, n |-> n]
XRobots(agent, value) == [tag |-> "x-robots", agent |-> agent, value |-> value]
LinkTo(href) == [tag |-> "link", href |-> href]

Plain == [words |-> "many", boilerplate |-> FALSE, id |-> "t", bits |-> {}]
Fine(path, elements) ==
    [requested |-> U(path), url |-> U(path), status |-> 200, failed |-> FALSE, responded |-> TRUE, html |-> TRUE, parses |-> TRUE,
     redirects |-> 0, secure |-> TRUE, headers |-> {}, lang |-> En, text |-> Plain,
     elements |-> elements, robots |-> <<>>, link |-> <<>>]
CrawlOf(pages) == [pages |-> pages, sitemap |-> {U("/"), U("/a"), U("/b")}, disallowed |-> {U("/b")}]
UpTo(S, n) == UNION {[1 .. k -> S] : k \in 0 .. n}

InHead ==
    {Base(Rel("/")), Base(Other), Base(Bad), TitleEl(""), TitleEl("short"), Meta("fit"), Meta(""),
     CanonicalEl(Rel("/"), TRUE), CanonicalEl(Other, TRUE), CanonicalEl(NoURL, TRUE),
     Alt(Rel("/"), En), Alt(Other, En), Alt(Rel("/a"), XDefault), Alt(Other, Wrong), Alt(Other, NoLang),
     Social("og:title", "fit"), Social("twitter:title", "long"), Social("og:image", "fit"), Social("og:locale", "fit")}
InBody ==
    {A(Rel("/a"), FALSE, "t", "none"), A(Other, TRUE, "", "none"), A(Bad, FALSE, "t", "none"),
     A(NoURL, FALSE, "t", "none"), A(Rel("/b"), FALSE, "t", "template"),
     Img(Rel("/f"), "t"), Img(Other, "absent"), Img(NoURL, "t"), CanonicalEl(Rel("/b"), FALSE),
     TitleIn("long", FALSE, "none"), TitleIn("fit", FALSE, "svg"),
     H(1, "t"), H(2, ""), H(3, "t")}
Documents ==
    {h \o b : h \in UpTo(InHead, 2), b \in UpTo(InBody, 1)} \cup {h \o b : h \in UpTo(InHead, 1), b \in UpTo(InBody, 2)}
    \cup UpTo({H(1, "t"), H(2, "t"), H(3, "t"), A(Rel("/a"), FALSE, "t", "none"), A(Other, FALSE, "t", "none")}, 3)
    \cup UpTo({Alt(Other, En), Alt(Rel("/"), En), Alt(Rel("/"), XDefault), Alt(Other, EnUS)}, 3)
OnePage == {<<Fine("/", d)>> : d \in Documents}
    \cup {<<[Fine("/", d) EXCEPT !.link = <<LinkTo(r)>>]>> :
             r \in {Rel("/"), Other}, d \in UpTo({Base(Other), CanonicalEl(Rel("/"), TRUE), CanonicalEl(Rel("/a"), FALSE)}, 2)}

\* Three sources of robots directives.
Values == {<<D("noindex", 0)>>, <<D("index", 0), D("nofollow", 0)>>, <<D("max-snippet", -1)>>, <<D("max-snippet", 5)>>,
           <<D("max-snippet", 0), D("all", 0)>>, <<D("max-image-preview", 2)>>, <<D("max-image-preview", 1), D("none", 0)>>,
           <<D("max-image-preview", 0), D("nosnippet", 0)>>, <<D("max-snippet", -2)>>, <<D("huh", 0)>>}
RobotsPages ==
    {<<[Fine("/", [i \in 1 .. k |-> Robots(IF i = 1 THEN agent ELSE "robots", v[i])]) EXCEPT
          !.robots = [i \in 1 .. 3 - k |-> XRobots(IF i = 1 THEN "" ELSE agent, v[k + i])]]>> :
        k \in 0 .. 3, v \in [1 .. 3 -> Values], agent \in {"googlebot", "bingbot"}}

\* Links, canonicals and alternates between pages.
Noindex == <<Robots("robots", <<D("noindex", 0)>>)>>
Paths == <<"/", "/a", "/b">>
Links == {A(Rel(p), n, "t", "none") : p \in {"/", "/a", "/b"}, n \in BOOLEAN}
Linked ==
    {<<Fine("/", x), Fine("/a", y[1] \o y[2]), Fine("/b", z[1] \o z[2])>> :
        x \in UpTo(Links, 2), y \in {<<>>, Noindex} \X UpTo(Links, 1), z \in {<<>>} \X UpTo(Links, 1)}
Broken == {Fine("/c", <<>>), [Fine("/c", <<>>) EXCEPT !.status = 404, !.html = FALSE],
           [Fine("/c", <<>>) EXCEPT !.failed = TRUE, !.status = 0, !.responded = FALSE],
           [Fine("/c", <<>>) EXCEPT !.redirects = 1, !.url = U("/d")], [Fine("/c", <<>>) EXCEPT !.parses = FALSE]}
CanonicalsTo == {<<>>} \cup {<<CanonicalEl(Rel(p), TRUE)>> : p \in {"/", "/a", "/b", "/c"}}
Canonicals ==
    {<<Fine("/", x), Fine("/a", y), Fine("/b", z), [last EXCEPT !.elements = w]>> :
        x, y, z \in CanonicalsTo, w \in {<<>>, <<CanonicalEl(Rel("/"), TRUE)>>}, last \in Broken}
Alts == {Alt(Rel(p), l) : p \in {"/", "/a", "/b"}, l \in {En, XDefault}}
Alternates ==
    {<<Fine("/", x), Fine("/a", y), Fine("/b", v \o z)>> : x \in UpTo(Alts, 2), y, z \in UpTo(Alts, 1), v \in {<<>>, Noindex}}
MCHeaders == {"hsts", "nosniff", "referrer", "csp", "frame-ancestors", "xfo"}
TextsOf == {[words |-> "none", boilerplate |-> FALSE, id |-> "", bits |-> {}],
            [words |-> "few", boilerplate |-> TRUE, id |-> "t1", bits |-> {}], [Plain EXCEPT !.id = "t2", !.bits = {1}],
            [Plain EXCEPT !.id = "t3", !.bits = {1, 2}], [Plain EXCEPT !.id = "t4", !.bits = {1, 2}]}
WithTexts ==
    {<<[Fine("/", <<TitleEl(t[1].id)>> \o v[1]) EXCEPT !.text = t[1]], [Fine("/a", <<TitleEl(t[2].id)>> \o v[2]) EXCEPT !.text = t[2]],
       [Fine("/b", <<H(1, t[3].id)>>) EXCEPT !.text = t[3]]>> : t \in [1 .. 3 -> TextsOf], v \in [1 .. 2 -> {<<>>, Noindex}]}
\* Two URLs of a level that redirect to one page; a page with a broken image
\* and one with a link that failed; a file served as HTML; every set of headers.
OddOnes ==
    {<<Fine("/", <<A(Rel("/a"), FALSE, "t", "none"), Img(Rel("/c"), "t")>>), [Fine("/a", y) EXCEPT !.url = U("/d"), !.redirects = 1],
       [Fine("/b", y) EXCEPT !.url = U("/d"), !.redirects = 1], last>> : y \in UpTo({TitleEl("fit"), Alt(Rel("/c"), En)}, 2), last \in Broken}
    \cup {<<[Fine("/", <<>>) EXCEPT !.headers = hs, !.secure = s], Fine("/f", <<>>)>> :
             hs \in SUBSET MCHeaders, s \in BOOLEAN}

MCTexts == STRING
MCog == {"og:title", "og:description", "og:type", "og:url", "og:image", "og:locale"}
MCtwitter == {"twitter:title", "twitter:description", "twitter:card", "twitter:image", "twitter:site"}
CrawlsOf(kind) == {CrawlOf(pages) : pages \in kind}
MCCrawls == {CrawlsOf(kind) : kind \in {OnePage, RobotsPages, Linked, Canonicals, Alternates, WithTexts, OddOnes}}
\* A heading with a link in it; links between pages.
MCHeadingCrawls == {CrawlsOf({<<Fine("/", <<H(1, "t"), A(Rel("/a"), FALSE, "t", "heading")>> \o b)>> : b \in UpTo(InBody, 2)})}
MCLinkedCrawls == {CrawlsOf(Linked)}
=============================================================================
