----------------------------- MODULE MCCommand ------------------------------
(* Command lines, sites and baselines for TLC: every check of the options    *)
(* fails for some command line; the sites stop in every way.                 *)
EXTENDS Command

tag == "external"       \* an external link
http == "http"          \* the start over http
MCTexts == {tag, http, "check", "/", "x", "y", "z", ""}

Plain == [url |-> TRUE, format |-> "terminal", failOn |-> 0, limits |-> TRUE, diff |-> FALSE, baseline |-> FALSE,
          quick |-> FALSE, json |-> FALSE, external |-> TRUE, https |-> TRUE]
MCOptions ==
    {[Plain EXCEPT !.failOn = n] : n \in {0, 3, 6}}
    \cup {[Plain EXCEPT !.baseline = TRUE, !.diff = d, !.format = f] : d \in BOOLEAN, f \in {"terminal", "JSON", "html"}}
    \cup {[Plain EXCEPT !.url = FALSE], [Plain EXCEPT !.limits = FALSE], [Plain EXCEPT !.format = "pdf"],
          [Plain EXCEPT !.quick = TRUE], [Plain EXCEPT !.diff = TRUE],
          [Plain EXCEPT !.quick = TRUE, !.format = "html", !.json = TRUE, !.external = FALSE],
          [Plain EXCEPT !.baseline = TRUE, !.format = "JSON", !.json = TRUE, !.https = FALSE, !.failOn = 5]}

F(id, severity) == [id |-> id, url |-> "/", severity |-> severity, evidence |-> ""]
Groups(crawling, hygiene) ==
    [g \in orderedGroups |-> IF g = "crawlability" THEN crawling ELSE IF g = "web-hygiene" THEN hygiene ELSE <<>>]
Site(stop, first, pages, crawling, hygiene, down) ==
    [stop |-> stop, first |-> first, pages |-> pages, indexable |-> pages,
     groups |-> Groups(crawling, hygiene), external |-> <<tag>>, down |-> down]
MCCrawls ==
    {Site("completed", "ok", 1, c, h, {}) : c \in {<<>>, <<F("x", 4)>>, <<F("x", 1)>>}, h \in {<<>>, <<F("y", 5)>>}}
    \cup {Site("completed", "ok", 1, <<>>, <<>>, d) : d \in SUBSET {tag, http}}
    \cup {Site("max-pages", "ok", 2, <<F("x", 4), F("z", 3)>>, <<F("y", 5)>>, {}),
          Site("completed", "failed", 1, [i \in 1 .. 6 |-> F("x", 5)], <<>>, {}),
          Site("completed", "blocked", 1, <<F("x", 4)>>, <<>>, {}),
          Site("start-disallowed", "failed", 0, <<F("x", 4)>>, <<>>, {})}
MCBaselines ==
    {NewReport(Site("completed", "ok", n, c, h, {}), Groups(c, h)) :
        n \in {0, 1}, c \in {<<F("x", 1), F("z", 1)>>}, h \in {<<>>, <<F("y", 5)>>}}
=============================================================================
