-------------------------------- MODULE Page --------------------------------
(***************************************************************************)
(* The model of one HTML page (internal/htmlcheck): Parse visits the       *)
(* elements of the tree in document order and records what the checks      *)
(* need, up to limits; then the headers X-Robots-Tag and Link are added    *)
(* (audit.processPage).  An element is a record of its tag, where it is    *)
(* (in the head; inside a heading, a template or SVG) and the attributes   *)
(* that matter, in the values the checks tell apart.  A reference names a  *)
(* site ("" when relative, "bad" when it cannot be resolved) and a path.   *)
(***************************************************************************)
EXTENDS Integers, FiniteSets, SequencesExt

CONSTANTS
    Texts,          \* the strings of pages: names, texts, sites and paths
    Site,           \* the site that is audited
    Files,          \* paths with the extension of a resource
    MaxHeadings, MaxCanonicals, maxRobotsSources, MaxSocialValues, MaxLinks, MaxImages, MaxHreflangs

VARIABLES
    response,       \* [url, lang, elements, robots, link, ...]: the page that is read
    visited,        \* how many of its elements, then headers, were visited
    directives,     \* those of a robots source that are still to be applied
    page            \* htmlcheck.Page

pageVars == <<response, visited, directives, page>>

ASSUME TextsAssumption == {"", "absent", "bad", "robots", Site} \subseteq Texts
ASSUME PageLimitsAssumption ==
    {MaxHeadings, MaxCanonicals, maxRobotsSources, MaxSocialValues, MaxLinks, MaxImages, MaxHreflangs} \subseteq Nat

Reference == [site : Texts, path : Texts]
Lang == [tag : Texts, primary : Texts, valid : BOOLEAN]
RobotsDirective == [key : Texts, n : Int]
Insides == {"none", "heading", "template", "svg"}
Element ==
    [tag : {"base"}, inside : Insides, inHead : BOOLEAN, href : Reference]
    \cup [tag : {"title", "meta"}, inside : Insides, inHead : BOOLEAN, text : Texts]
    \cup [tag : {"robots"}, inside : Insides, inHead : BOOLEAN, agent : Texts, value : Seq(RobotsDirective)]
    \cup [tag : {"social"}, inside : Insides, inHead : BOOLEAN, property : Texts, text : Texts]
    \cup [tag : {"h"}, inside : Insides, inHead : BOOLEAN, level : 1 .. 6, text : Texts]
    \cup [tag : {"canonical"}, inside : Insides, inHead : BOOLEAN, href : Reference]
    \cup [tag : {"alternate"}, inside : Insides, inHead : BOOLEAN, href : Reference, lang : Lang]
    \cup [tag : {"a"}, inside : Insides, inHead : BOOLEAN, href : Reference, nofollow : BOOLEAN, text : Texts]
    \cup [tag : {"img"}, inside : Insides, inHead : BOOLEAN, href : Reference, alt : Texts, sized : BOOLEAN,
          loading : Texts, plain : BOOLEAN]
RobotsHeaders == [tag : {"x-robots"}, agent : Texts, value : Seq(RobotsDirective)]
LinkHeaders == [tag : {"link"}, href : Reference]

-----------------------------------------------------------------------------
(* References. *)
NoURL == [site |-> "", path |-> ""]
Resolve(base, ref) ==
    IF ref.site = "bad" THEN NoURL ELSE IF ref.site = "" THEN [ref EXCEPT !.site = base.site] ELSE ref
External(url) == url # NoURL /\ url.site # Site
Resource(url) == url.path \in Files

\* setBase: the first <base href> anywhere in the tree; one that cannot be
\* used still is the first.  Fault: the last one.
Bases(elements) == {i \in DOMAIN elements : elements[i].tag = "base" /\ elements[i].inside # "svg"}
BaseFrom(url, href) == IF href.site = "bad" THEN url ELSE Resolve(url, href)
SetBaseLast(url, elements) ==
    IF Bases(elements) = {} THEN url ELSE BaseFrom(url, elements[Max(Bases(elements))].href)
SetBase(url, elements) ==
    IF Bases(elements) = {} THEN url ELSE BaseFrom(url, elements[Min(Bases(elements))].href)

-----------------------------------------------------------------------------
(* Robots directives: a source has a sequence of them. *)
NotSet == -9
NoRobots ==
    [sources |-> <<>>, noindex |-> FALSE, nofollow |-> FALSE, index |-> FALSE, follow |-> FALSE,
     restricted |-> FALSE, maxSnippet |-> NotSet, preview |-> NotSet, invalid |-> 0]
isAppliedAgent(agent) == agent \in {"robots", "googlebot"}
robotsAgents == {"robots", "googlebot", "googlebot-news", "bingbot"}

\* The most restrictive wins; -1 means no limit.  Fault: it is the smallest
\* number.
StricterSmallest(old, n) == IF old = NotSet \/ n < old THEN n ELSE old
Stricter(old, n) == IF old = NotSet \/ (n # -1 /\ (old = -1 \/ n < old)) THEN n ELSE old

\* Directives that are not followed: words that are none, numbers out of
\* range.  The sizes of previews are none, standard, large.
Words == {"index", "noindex", "follow", "nofollow", "none", "all", "nosnippet", "noarchive"}
Invalid(d) ==
    CASE d.key = "max-snippet" -> d.n < -1
      [] d.key = "max-image-preview" -> d.n \notin 0 .. 2
      [] d.key = "unavailable_after" -> d.n < 0
      [] OTHER -> d.key \notin Words
Apply(r, d) ==
    LET Is(keys) == d.key \in keys
        valid == ~Invalid(d)
    IN [sources |-> r.sources, noindex |-> r.noindex \/ Is({"noindex", "none"}),
        nofollow |-> r.nofollow \/ Is({"nofollow", "none"}),
        index |-> r.index \/ Is({"index", "all"}), follow |-> r.follow \/ Is({"follow", "all"}),
        restricted |-> r.restricted \/ Is({"nosnippet", "noarchive"}),
        maxSnippet |-> IF Is({"max-snippet"}) /\ valid THEN Stricter(r.maxSnippet, d.n) ELSE r.maxSnippet,
        preview |-> IF /\ Is({"max-image-preview"}) /\ valid
                       /\ r.preview = NotSet \/ d.n < r.preview THEN d.n ELSE r.preview,
        invalid |-> IF valid THEN r.invalid ELSE r.invalid + 1]

\* addRobots: the source is recorded, and its directives applied in turn.
AddRobots(source, agent, value) ==
    IF Len(page.robots.sources) >= maxRobotsSources THEN UNCHANGED <<page, directives>>
    ELSE /\ page' = [page EXCEPT !.robots.sources = Append(@, [source |-> source, agent |-> agent])]
         /\ directives' = IF isAppliedAgent(agent) THEN value ELSE <<>>
Directive ==
    /\ directives # <<>> /\ directives' = Tail(directives)
    /\ page' = [page EXCEPT !.robots = Apply(@, Head(directives))]
    /\ UNCHANGED <<response, visited>>

\* What comes before the first colon of a header is a crawler's name unless
\* it is a directive, or has a space or a comma.
Agent(h) == IF h.agent # "" THEN h.agent ELSE "robots"

-----------------------------------------------------------------------------
(* Parse. *)
NewPage(r) ==
    [url |-> r.url, base |-> SetBase(r.url, r.elements), titles |-> <<>>, descriptions |-> <<>>,
     headings |-> <<>>, canonicals |-> <<>>, robots |-> NoRobots, links |-> <<>>, images |-> <<>>,
     hreflangs |-> <<>>, social |-> <<>>, lang |-> r.lang]

Open(r) == response' = r /\ visited' = 0 /\ directives' = <<>> /\ page' = NewPage(r)

Items(r) == r.elements \o r.robots \o r.link
Item == Items(response)[visited + 1]
At(tag) == directives = <<>> /\ visited < Len(Items(response)) /\ Item.tag = tag
Took == visited' = visited + 1 /\ UNCHANGED response
\* walk: what is inside a heading or a template is not visited, nor is what
\* has a namespace.
Skipped(e) == e.inside \in {"heading", "template", "svg"}
Visit(tag) == At(tag) /\ ~Skipped(Item) /\ Took
\* One more in a list of the page, unless it is full.
Add(field, limit, value) ==
    page' = IF Len(page[field]) < limit THEN [page EXCEPT ![field] = Append(@, value)] ELSE page

Skip ==
    /\ directives = <<>> /\ visited < Len(Items(response))
    /\ Item.tag \notin {"x-robots", "link"} /\ (Skipped(Item) \/ Item.tag = "base")
    /\ Took /\ UNCHANGED <<directives, page>>

Title ==
    /\ Visit("title") /\ UNCHANGED directives
    /\ page' = IF Item.inHead \/ page.titles = <<>> THEN [page EXCEPT !.titles = Append(@, Item.text)] ELSE page
Description ==
    /\ Visit("meta") /\ UNCHANGED directives
    /\ page' = [page EXCEPT !.descriptions = Append(@, Item.text)]
RobotsMeta ==
    /\ Visit("robots")
    /\ IF Item.agent \in robotsAgents THEN AddRobots("meta", Item.agent, Item.value) ELSE UNCHANGED <<page, directives>>
SocialMeta ==
    /\ Visit("social") /\ UNCHANGED directives
    /\ Add("social", MaxSocialValues, [property |-> Item.property, value |-> Item.text])
Heading ==
    /\ Visit("h") /\ UNCHANGED directives
    /\ Add("headings", MaxHeadings, [level |-> Item.level, text |-> Item.text])

CanonicalOf(href, source, inHead) ==
    [url |-> IF href = NoURL THEN NoURL ELSE Resolve(page.base, href), source |-> source,
     relative |-> href.site = "" /\ href # NoURL, inHead |-> inHead]
Canonical ==
    /\ Visit("canonical") /\ UNCHANGED directives
    /\ Add("canonicals", MaxCanonicals, CanonicalOf(Item.href, "html", Item.inHead))
Alternate ==
    /\ Visit("alternate") /\ UNCHANGED directives
    /\ LET url == Resolve(page.base, Item.href)
       IN IF Item.lang.tag = "absent" \/ Item.href = NoURL \/ url = NoURL THEN UNCHANGED page
          ELSE Add("hreflangs", MaxHreflangs, [href |-> url, lang |-> Item.lang])

\* A link that cannot be resolved keeps its place, without a URL.
LinkOf(e) ==
    LET url == Resolve(page.base, e.href)
    IN [url |-> url, external |-> External(url), resource |-> Resource(url), nofollow |-> e.nofollow, text |-> e.text]
Anchor ==
    /\ Visit("a") /\ UNCHANGED directives
    /\ IF Item.href = NoURL THEN UNCHANGED page ELSE Add("links", MaxLinks, LinkOf(Item))
ImageOf(e) ==
    LET url == Resolve(page.base, e.href)
    IN [url |-> url, external |-> External(url), alt |-> e.alt, sized |-> e.sized, loading |-> e.loading]
Image ==
    /\ Visit("img") /\ UNCHANGED directives
    /\ IF Item.href = NoURL THEN UNCHANGED page ELSE Add("images", MaxImages, ImageOf(Item))

\* The headers of processPage.
RobotsHeader == At("x-robots") /\ Took /\ AddRobots("header", Agent(Item), Item.value)
LinkHeader ==
    /\ At("link") /\ Took /\ UNCHANGED directives
    /\ Add("canonicals", MaxCanonicals, CanonicalOf(Item.href, "header", TRUE))

ReadPage ==
    \/ Skip \/ Directive \/ Title \/ Description \/ RobotsMeta \/ SocialMeta \/ Heading \/ Canonical \/ Alternate
    \/ Anchor \/ Image \/ RobotsHeader \/ LinkHeader
=============================================================================
