----------------------------- MODULE SiteProofs -----------------------------
(***************************************************************************)
(* Proofs about the analysis of a crawl, for any pages, texts and limits:  *)
(* the model of a page is that of its document, and the findings of a site *)
(* agree with the models and with the numbers of the report.               *)
(***************************************************************************)
EXTENDS Site, TLAPS, FiniteSetTheorems, SequenceTheorems, WellFoundedInduction

-----------------------------------------------------------------------------
(* Types. *)
HeadingRecord == [level : 1 .. 6, text : Texts]
CanonicalRecord == [url : URLs, source : {"html", "header"}, relative : BOOLEAN, inHead : BOOLEAN]
LinkRecord == [url : URLs, external : BOOLEAN, resource : BOOLEAN, nofollow : BOOLEAN, text : Texts]
ImageRecord == [url : URLs, external : BOOLEAN, alt : Texts, sized : BOOLEAN, loading : Texts]
RobotsModel ==
    [sources : Seq([source : {"meta", "header"}, agent : Texts]), noindex : BOOLEAN, nofollow : BOOLEAN,
     index : BOOLEAN, follow : BOOLEAN, restricted : BOOLEAN, maxSnippet : Int, preview : Int, invalid : Nat]
PageModel ==
    [url : URLs, base : URLs, titles : Seq(Texts), descriptions : Seq(Texts), headings : Seq(HeadingRecord),
     canonicals : Seq(CanonicalRecord), robots : RobotsModel, links : Seq(LinkRecord), images : Seq(ImageRecord),
     hreflangs : Seq([href : URLs, lang : Lang]), social : Seq([property : Texts, value : Texts]), lang : Lang]
AnyItem == Element \cup RobotsHeaders \cup LinkHeaders

CrawlTyped ==
    /\ crawl \in [pages : Seq(Response), sitemap : SUBSET URLs, disallowed : SUBSET URLs]
    /\ \A i \in DOMAIN crawl.pages : Entry(i).redirects = 0 => Entry(i).url = Entry(i).requested
    /\ at \in 0 .. Len(crawl.pages)

\* No list is longer than its limit.
Bounded(p) ==
    /\ Len(p.headings) <= MaxHeadings /\ Len(p.canonicals) <= MaxCanonicals
    /\ Len(p.robots.sources) <= maxRobotsSources /\ Len(p.social) <= MaxSocialValues
    /\ Len(p.links) <= MaxLinks /\ Len(p.images) <= MaxImages /\ Len(p.hreflangs) <= MaxHreflangs

\* The model of a response, as far as the response itself decides it.
ModelOf(p, r) == p \in PageModel /\ Bounded(p) /\ p.url = r.url /\ p.base = SetBase(r.url, r.elements)

\* The page that is read is the one looked at last, and has no model yet.
Reading ==
    IF response = NoResponse THEN directives = <<>> /\ visited = 0 /\ page = NewPage(NoResponse)
    ELSE /\ at \in 1 .. Len(crawl.pages) /\ response = Entry(at) /\ at \notin Parsed
         /\ visited \in 0 .. Len(Items(response)) /\ directives \in Seq(RobotsDirective)
         /\ ModelOf(page, response)

ModelsTyped ==
    /\ Parsed \subseteq 1 .. at /\ data = [i \in Parsed |-> data[i]]
    /\ \A i \in Parsed : ModelOf(data[i], Entry(i))

\* The report is made once, from the models of all pages.
ReportIs ==
    /\ report.ready /\ report.findings = Findings /\ DOMAIN report.pages = DOMAIN crawl.pages
    /\ \A i \in DOMAIN crawl.pages :
          /\ report.pages[i].url = URLOf(i) /\ report.pages[i].status = Entry(i).status
          /\ report.pages[i].indexable = IndexablePage(i) /\ report.pages[i].inbound = InboundNumber(URLOf(i))
ReportHolds ==
    IF report = NoReport THEN TRUE ELSE ReportIs /\ at = Len(crawl.pages) /\ response = NoResponse

Typed == CrawlTyped /\ Reading /\ ModelsTyped /\ ReportHolds

(* A resolved reference is a URL. *)
LEMMA ResolveIs ==
    ASSUME NEW base \in URLs, NEW ref \in Reference
    PROVE  Resolve(base, ref) \in URLs
  BY TextsAssumption DEF Resolve, Reference, URLs, NoURL

(* The pages of a crawl are responses. *)
LEMMA EntryIs ==
    ASSUME CrawlTyped
    PROVE  /\ Len(crawl.pages) \in Nat /\ DOMAIN crawl.pages = 1 .. Len(crawl.pages)
           /\ \A i \in 1 .. Len(crawl.pages) : Entry(i) \in Response /\ Entry(i) # NoResponse
<1>1. crawl.pages \in Seq(Response)
  BY DEF CrawlTyped
<1>2. /\ Len(crawl.pages) \in Nat /\ DOMAIN crawl.pages = 1 .. Len(crawl.pages)
      /\ \A i \in 1 .. Len(crawl.pages) : crawl.pages[i] \in Response
  BY <1>1, LenProperties, ElementOfSeq
<1>3. ASSUME NEW r \in Response PROVE r # NoResponse
  <2>1. r.url # NoURL
    BY DEF Response, PageURLs
  <2>2. NoResponse.url = NoURL
    BY DEF NoResponse
  <2> QED  BY <2>1, <2>2
<1> QED  BY <1>2, <1>3 DEF Entry

(* The least and the greatest of a set of numbers. *)
LEMMA LeastExists ==
    ASSUME NEW S, S \subseteq Nat, S # {}
    PROVE  Min(S) \in S /\ \A x \in S : Min(S) <= x
<1>1. \E x \in S : \A y \in S : ~(<<y, x>> \in OpToRel(<, Nat))
  BY NatLessThanWellFounded, WFMin
<1>2. PICK x \in S : \A y \in S : ~(<<y, x>> \in OpToRel(<, Nat))
  BY <1>1
<1>3. \A y \in S : x <= y
  <2> SUFFICES ASSUME NEW y \in S PROVE x <= y
    OBVIOUS
  <2>1. ~(y < x)
    BY <1>2 DEF OpToRel
  <2>2. x \in Nat /\ y \in Nat
    OBVIOUS
  <2> QED  BY <2>1, <2>2
<1> QED  BY <1>2, <1>3 DEF Min

(* The base of a page is a URL. *)
LEMMA SetBaseIs ==
    ASSUME NEW url \in URLs, NEW elements \in Seq(Element)
    PROVE  SetBase(url, elements) \in URLs
<1>1. CASE Bases(elements) = {}
  BY <1>1 DEF SetBase
<1>2. CASE Bases(elements) # {}
  <2>1. DOMAIN elements = 1 .. Len(elements) /\ Len(elements) \in Nat
    BY LenProperties
  <2>2. Bases(elements) \subseteq Nat
    BY <2>1 DEF Bases
  <2>3. Min(Bases(elements)) \in Bases(elements)
    BY <1>2, <2>2, LeastExists
  <2> DEFINE e == elements[Min(Bases(elements))]
  <2>4. e \in Element /\ e.tag = "base"
    BY <2>1, <2>3, ElementOfSeq DEF Bases
  <2>5. e.href \in Reference
    BY <2>4 DEF Element
  <2>6. BaseFrom(url, e.href) \in URLs
    BY <2>5, ResolveIs DEF BaseFrom
  <2> QED  BY <1>2, <2>6 DEF SetBase
<1> QED  BY <1>1, <1>2

-----------------------------------------------------------------------------
(* The items of a response. *)

(* The items of a response are its elements, then its headers. *)
LEMMA ItemsAre ==
    ASSUME NEW r \in Response
    PROVE  /\ Items(r) \in Seq(AnyItem) /\ Len(Items(r)) \in Nat /\ Len(r.elements) \in Nat
           /\ DOMAIN Items(r) = 1 .. Len(Items(r)) /\ DOMAIN r.elements = 1 .. Len(r.elements)
           /\ Len(r.elements) <= Len(Items(r))
           /\ \A k \in 1 .. Len(r.elements) : Items(r)[k] = r.elements[k] /\ Items(r)[k] \in Element
           /\ \A k \in 1 .. Len(Items(r)) :
                  k > Len(r.elements) => Items(r)[k] \in RobotsHeaders \cup LinkHeaders
<1>1. r.elements \in Seq(Element) /\ r.robots \in Seq(RobotsHeaders) /\ r.link \in Seq(LinkHeaders)
  BY DEF Response
<1> DEFINE E == r.elements
           R == r.robots
           L == r.link
<1>2. Len(E) \in Nat /\ Len(R) \in Nat /\ Len(L) \in Nat
  BY <1>1, LenProperties
<1>3. /\ \A k \in 1 .. Len(E) : E[k] \in Element
      /\ \A k \in 1 .. Len(R) : R[k] \in RobotsHeaders
      /\ \A k \in 1 .. Len(L) : L[k] \in LinkHeaders
  BY <1>1, ElementOfSeq
<1>4. E \in Seq(AnyItem) /\ R \in Seq(AnyItem) /\ L \in Seq(AnyItem)
  <2>1. Element \subseteq AnyItem /\ RobotsHeaders \subseteq AnyItem /\ LinkHeaders \subseteq AnyItem
    BY DEF AnyItem
  <2>2. DOMAIN E = 1 .. Len(E) /\ DOMAIN R = 1 .. Len(R) /\ DOMAIN L = 1 .. Len(L)
    BY <1>1, LenProperties
  <2>3. E = [k \in 1 .. Len(E) |-> E[k]] /\ R = [k \in 1 .. Len(R) |-> R[k]] /\ L = [k \in 1 .. Len(L) |-> L[k]]
    BY <1>1, <2>2
  <2> HIDE DEF E, R, L
  <2> QED  BY <1>2, <1>3, <2>1, <2>3, SMTT(30)
<1>5. Items(r) = (E \o R) \o L
  BY DEF Items
<1>6. /\ E \o R \in Seq(AnyItem) /\ Len(E \o R) = Len(E) + Len(R)
      /\ \A k \in 1 .. Len(E) + Len(R) : (E \o R)[k] = IF k <= Len(E) THEN E[k] ELSE R[k - Len(E)]
  <2> HIDE DEF E, R, L
  <2> QED  BY <1>4, ConcatProperties
<1>7. /\ Items(r) \in Seq(AnyItem) /\ Len(Items(r)) = Len(E \o R) + Len(L)
      /\ \A k \in 1 .. Len(E \o R) + Len(L) :
            Items(r)[k] = IF k <= Len(E \o R) THEN (E \o R)[k] ELSE L[k - Len(E \o R)]
  <2> DEFINE ER == E \o R
  <2>1. ER \in Seq(AnyItem) /\ L \in Seq(AnyItem)
    BY <1>4, <1>6
  <2> HIDE DEF E, R, L, ER
  <2>2. /\ ER \o L \in Seq(AnyItem) /\ Len(ER \o L) = Len(ER) + Len(L)
        /\ \A k \in 1 .. Len(ER) + Len(L) : (ER \o L)[k] = IF k <= Len(ER) THEN ER[k] ELSE L[k - Len(ER)]
    BY <2>1, ConcatProperties
  <2>3. Items(r) = ER \o L
    BY <1>5 DEF ER
  <2>4. QED  BY <2>2, <2>3 DEF ER
<1>8. DOMAIN Items(r) = 1 .. Len(Items(r)) /\ DOMAIN E = 1 .. Len(E)
  BY <1>1, <1>7, LenProperties
<1>9. Len(Items(r)) = Len(E) + Len(R) + Len(L)
  BY <1>6, <1>7
<1>10. ASSUME NEW k \in 1 .. Len(E) PROVE Items(r)[k] = E[k] /\ Items(r)[k] \in Element
  <2> HIDE DEF E, R, L
  <2>1. k \in 1 .. Len(E) + Len(R) /\ k \in 1 .. Len(E \o R) + Len(L) /\ k <= Len(E) /\ k <= Len(E \o R)
    BY <1>2, <1>6
  <2> QED  BY <1>3, <1>6, <1>7, <2>1
<1>11. ASSUME NEW k \in 1 .. Len(Items(r)), k > Len(E) PROVE Items(r)[k] \in RobotsHeaders \cup LinkHeaders
  <2> HIDE DEF E, R, L
  <2>1. CASE k <= Len(E \o R)
    <3>1. k \in 1 .. Len(E) + Len(R) /\ k \in 1 .. Len(E \o R) + Len(L) /\ k - Len(E) \in 1 .. Len(R)
      BY <1>2, <1>6, <1>9, <1>11, <2>1
    <3>2. Items(r)[k] = R[k - Len(E)]
      BY <1>2, <1>6, <1>7, <1>11, <2>1, <3>1
    <3> QED  BY <1>3, <3>1, <3>2
  <2>2. CASE ~(k <= Len(E \o R))
    <3>1. k \in 1 .. Len(E \o R) + Len(L) /\ k - Len(E \o R) \in 1 .. Len(L)
      BY <1>2, <1>6, <1>9, <1>11, <2>2
    <3>2. Items(r)[k] = L[k - Len(E \o R)]
      BY <1>7, <2>2, <3>1
    <3> QED  BY <1>3, <3>1, <3>2
  <2> QED  BY <2>1, <2>2
<1>12. Len(Items(r)) \in Nat /\ Len(E) <= Len(Items(r))
  <2> HIDE DEF E, R, L
  <2> QED  BY <1>2, <1>9
<1> QED  BY <1>2, <1>7, <1>8, <1>10, <1>11, <1>12

(* What an item has by its tag. *)
LEMMA ItemHas ==
    ASSUME NEW e \in AnyItem
    PROVE  /\ e.tag \in {"title", "meta"} => e.text \in Texts /\ e.inHead \in BOOLEAN
           /\ e.tag \in {"robots", "x-robots"} => e.agent \in Texts /\ e.value \in Seq(RobotsDirective)
           /\ e.tag = "social" => e.property \in Texts /\ e.text \in Texts
           /\ e.tag = "h" => [level |-> e.level, text |-> e.text] \in HeadingRecord
           /\ e.tag = "canonical" => e.href \in Reference /\ e.inHead \in BOOLEAN
           /\ e.tag = "link" => e.href \in Reference
           /\ e.tag = "alternate" => e.href \in Reference /\ e.lang \in Lang
           /\ e.tag = "a" => e.href \in Reference /\ e.nofollow \in BOOLEAN /\ e.text \in Texts
           /\ e.tag = "img" => /\ e.href \in Reference /\ e.alt \in Texts /\ e.sized \in BOOLEAN
                               /\ e.loading \in Texts
           /\ e.tag \in {"base", "title", "meta", "robots", "social", "h", "canonical", "alternate", "a", "img",
                         "x-robots", "link"}
           /\ e \in Element => e.inside \in Insides /\ e.tag \notin {"x-robots", "link"}
           /\ e \in RobotsHeaders \cup LinkHeaders => e.tag \in {"x-robots", "link"}
<1> HIDE DEF Reference, Lang, RobotsDirective
<1>1. CASE e \in Element
  BY <1>1 DEF Element, RobotsHeaders, LinkHeaders, HeadingRecord
<1>2. CASE e \in RobotsHeaders \cup LinkHeaders
  BY <1>2 DEF Element, RobotsHeaders, LinkHeaders
<1> QED  BY <1>1, <1>2 DEF AnyItem

(* One more directive makes a robots model a robots model. *)
LEMMA ApplyIs ==
    ASSUME NEW r \in RobotsModel, NEW d \in RobotsDirective
    PROVE  /\ Apply(r, d) \in RobotsModel /\ Apply(r, d).sources = r.sources
           /\ Apply(r, d).noindex = (r.noindex \/ d.key \in {"noindex", "none"})
           /\ Apply(r, d).nofollow = (r.nofollow \/ d.key \in {"nofollow", "none"})
           /\ Apply(r, d).maxSnippet =
                  IF d.key = "max-snippet" /\ d.n >= -1 THEN Stricter(r.maxSnippet, d.n) ELSE r.maxSnippet
           /\ Apply(r, d).preview =
                  IF d.key = "max-image-preview" /\ d.n \in 0 .. 2 /\ (r.preview = NotSet \/ d.n < r.preview)
                  THEN d.n ELSE r.preview
<1> DEFINE new == Apply(r, d)
<1>1. d.n \in Int
  BY DEF RobotsDirective
<1>2. Stricter(r.maxSnippet, d.n) \in Int
  BY <1>1 DEF Stricter, RobotsModel
<1>3. r.invalid + 1 \in Nat /\ r.preview \in Int /\ r.maxSnippet \in Int
  BY DEF RobotsModel
<1>4. new \in RobotsModel
  BY <1>1, <1>2, <1>3 DEF Apply, RobotsModel
<1>5. /\ new.sources = r.sources
      /\ new.noindex = (r.noindex \/ d.key \in {"noindex", "none"})
      /\ new.nofollow = (r.nofollow \/ d.key \in {"nofollow", "none"})
  BY DEF Apply, RobotsModel
<1>6. d.key = "max-snippet" => (~Invalid(d) <=> d.n >= -1)
  BY <1>1 DEF Invalid
<1>7. d.key = "max-image-preview" => (~Invalid(d) <=> d.n \in 0 .. 2)
  BY <1>1 DEF Invalid
<1>8. new.maxSnippet =
         IF d.key = "max-snippet" /\ d.n >= -1 THEN Stricter(r.maxSnippet, d.n) ELSE r.maxSnippet
  BY <1>6 DEF Apply, RobotsModel
<1>9. new.preview =
         IF d.key = "max-image-preview" /\ d.n \in 0 .. 2 /\ (r.preview = NotSet \/ d.n < r.preview)
         THEN d.n ELSE r.preview
  BY <1>7 DEF Apply, RobotsModel
<1> QED  BY <1>4, <1>5, <1>8, <1>9

-----------------------------------------------------------------------------
(* Reading a page. *)

(* The next item, and what a step that takes it leaves. *)
LEMMA ItemIs ==
    ASSUME CrawlTyped, Reading, response # NoResponse, visited < Len(Items(response))
    PROVE  /\ Item \in AnyItem /\ visited + 1 \in 1 .. Len(Items(response))
           /\ response = Entry(at) /\ response \in Response
<1>1. response \in Response /\ response = Entry(at)
  BY EntryIs DEF Reading
<1>2. visited + 1 \in 1 .. Len(Items(response))
  BY <1>1, ItemsAre DEF Reading
<1> QED  BY <1>1, <1>2, ItemsAre, ElementOfSeq DEF Item

(* One more in a list that is not full. *)
LEMMA OneMore ==
    ASSUME NEW S, NEW s \in Seq(S), NEW v \in S, NEW n \in Nat, Len(s) < n
    PROVE  Append(s, v) \in Seq(S) /\ Len(Append(s, v)) <= n /\ Len(Append(s, v)) = Len(s) + 1
<1>1. Append(s, v) \in Seq(S) /\ Len(Append(s, v)) = Len(s) + 1 /\ Len(s) \in Nat
  BY AppendProperties, LenProperties
<1> QED  BY <1>1

(* One more value in a list of a model. *)
LEMMA AddTyped ==
    ASSUME NEW p \in PageModel, Bounded(p)
    PROVE  /\ \A v \in LinkRecord : Len(p.links) < MaxLinks =>
                  LET q == [p EXCEPT !.links = Append(@, v)] IN q \in PageModel /\ Bounded(q)
           /\ \A v \in ImageRecord : Len(p.images) < MaxImages =>
                  LET q == [p EXCEPT !.images = Append(@, v)] IN q \in PageModel /\ Bounded(q)
           /\ \A v \in CanonicalRecord : Len(p.canonicals) < MaxCanonicals =>
                  LET q == [p EXCEPT !.canonicals = Append(@, v)] IN q \in PageModel /\ Bounded(q)
           /\ \A v \in [href : URLs, lang : Lang] : Len(p.hreflangs) < MaxHreflangs =>
                  LET q == [p EXCEPT !.hreflangs = Append(@, v)] IN q \in PageModel /\ Bounded(q)
           /\ \A v \in HeadingRecord : Len(p.headings) < MaxHeadings =>
                  LET q == [p EXCEPT !.headings = Append(@, v)] IN q \in PageModel /\ Bounded(q)
           /\ \A v \in [property : Texts, value : Texts] : Len(p.social) < MaxSocialValues =>
                  LET q == [p EXCEPT !.social = Append(@, v)] IN q \in PageModel /\ Bounded(q)
           /\ \A v \in Texts : /\ LET q == [p EXCEPT !.titles = Append(@, v)] IN q \in PageModel /\ Bounded(q)
                               /\ LET q == [p EXCEPT !.descriptions = Append(@, v)] IN q \in PageModel /\ Bounded(q)
           /\ \A r \in RobotsModel : Len(r.sources) <= maxRobotsSources =>
                  LET q == [p EXCEPT !.robots = r] IN q \in PageModel /\ Bounded(q)
<1> HIDE DEF URLs, LinkRecord, ImageRecord, CanonicalRecord, HeadingRecord, RobotsModel, Lang
<1>0. /\ MaxHeadings \in Nat /\ MaxCanonicals \in Nat /\ MaxSocialValues \in Nat
      /\ MaxLinks \in Nat /\ MaxImages \in Nat /\ MaxHreflangs \in Nat
  BY PageLimitsAssumption
<1>1. ASSUME NEW v \in LinkRecord, Len(p.links) < MaxLinks
      PROVE  LET q == [p EXCEPT !.links = Append(@, v)] IN q \in PageModel /\ Bounded(q)
  <2>1. p.links \in Seq(LinkRecord)
    BY DEF PageModel
  <2>2. Append(p.links, v) \in Seq(LinkRecord) /\ Len(Append(p.links, v)) <= MaxLinks
    BY <1>0, <1>1, <2>1, OneMore
  <2> QED  BY <2>2 DEF PageModel, Bounded
<1>2. ASSUME NEW v \in ImageRecord, Len(p.images) < MaxImages
      PROVE  LET q == [p EXCEPT !.images = Append(@, v)] IN q \in PageModel /\ Bounded(q)
  <2>1. p.images \in Seq(ImageRecord)
    BY DEF PageModel
  <2>2. Append(p.images, v) \in Seq(ImageRecord) /\ Len(Append(p.images, v)) <= MaxImages
    BY <1>0, <1>2, <2>1, OneMore
  <2> QED  BY <2>2 DEF PageModel, Bounded
<1>3. ASSUME NEW v \in CanonicalRecord, Len(p.canonicals) < MaxCanonicals
      PROVE  LET q == [p EXCEPT !.canonicals = Append(@, v)] IN q \in PageModel /\ Bounded(q)
  <2>1. p.canonicals \in Seq(CanonicalRecord)
    BY DEF PageModel
  <2>2. Append(p.canonicals, v) \in Seq(CanonicalRecord) /\ Len(Append(p.canonicals, v)) <= MaxCanonicals
    BY <1>0, <1>3, <2>1, OneMore
  <2> QED  BY <2>2 DEF PageModel, Bounded
<1>4. ASSUME NEW v \in [href : URLs, lang : Lang], Len(p.hreflangs) < MaxHreflangs
      PROVE  LET q == [p EXCEPT !.hreflangs = Append(@, v)] IN q \in PageModel /\ Bounded(q)
  <2>1. p.hreflangs \in Seq([href : URLs, lang : Lang])
    BY DEF PageModel
  <2>2. Append(p.hreflangs, v) \in Seq([href : URLs, lang : Lang]) /\ Len(Append(p.hreflangs, v)) <= MaxHreflangs
    BY <1>0, <1>4, <2>1, OneMore
  <2> QED  BY <2>2 DEF PageModel, Bounded
<1>5. ASSUME NEW v \in HeadingRecord, Len(p.headings) < MaxHeadings
      PROVE  LET q == [p EXCEPT !.headings = Append(@, v)] IN q \in PageModel /\ Bounded(q)
  <2>1. p.headings \in Seq(HeadingRecord)
    BY DEF PageModel
  <2>2. Append(p.headings, v) \in Seq(HeadingRecord) /\ Len(Append(p.headings, v)) <= MaxHeadings
    BY <1>0, <1>5, <2>1, OneMore
  <2> QED  BY <2>2 DEF PageModel, Bounded
<1>6. ASSUME NEW v \in [property : Texts, value : Texts], Len(p.social) < MaxSocialValues
      PROVE  LET q == [p EXCEPT !.social = Append(@, v)] IN q \in PageModel /\ Bounded(q)
  <2>1. p.social \in Seq([property : Texts, value : Texts])
    BY DEF PageModel
  <2>2. Append(p.social, v) \in Seq([property : Texts, value : Texts]) /\ Len(Append(p.social, v)) <= MaxSocialValues
    BY <1>0, <1>6, <2>1, OneMore
  <2> QED  BY <2>2 DEF PageModel, Bounded
<1>7. ASSUME NEW v \in Texts
      PROVE  /\ LET q == [p EXCEPT !.titles = Append(@, v)] IN q \in PageModel /\ Bounded(q)
             /\ LET q == [p EXCEPT !.descriptions = Append(@, v)] IN q \in PageModel /\ Bounded(q)
  <2>1. Append(p.titles, v) \in Seq(Texts) /\ Append(p.descriptions, v) \in Seq(Texts)
    BY AppendProperties DEF PageModel
  <2> QED  BY <2>1 DEF PageModel, Bounded
<1>8. ASSUME NEW r \in RobotsModel, Len(r.sources) <= maxRobotsSources
      PROVE  LET q == [p EXCEPT !.robots = r] IN q \in PageModel /\ Bounded(q)
  BY <1>8 DEF PageModel, Bounded
<1> QED  BY <1>1, <1>2, <1>3, <1>4, <1>5, <1>6, <1>7, <1>8

\* What makes an item one of a list of the page.
IsLink(e) == e.tag = "a" /\ ~Skipped(e) /\ e.href # NoURL
IsImage(e) == e.tag = "img" /\ ~Skipped(e) /\ e.href # NoURL
IsCanonical(e) == e.tag = "link" \/ (e.tag = "canonical" /\ ~Skipped(e))
IsSource(e) == e.tag = "x-robots" \/ (e.tag = "robots" /\ ~Skipped(e) /\ e.agent \in robotsAgents)
CanonicalItem(e) ==
    IF e.tag = "link" THEN CanonicalOf(e.href, "header", TRUE) ELSE CanonicalOf(e.href, "html", e.inHead)
SourceItem(e) ==
    IF e.tag = "robots" THEN [source |-> "meta", agent |-> e.agent] ELSE [source |-> "header", agent |-> Agent(e)]
Room == Len(page.robots.sources) < maxRobotsSources

\* What a step that takes the next item makes of the lists.
TakesItem ==
    /\ directives = <<>> /\ visited < Len(Items(response)) /\ visited' = visited + 1 /\ response' = response
    /\ page' \in PageModel /\ Bounded(page') /\ page'.url = page.url /\ page'.base = page.base
    /\ page'.links = IF IsLink(Item) /\ Len(page.links) < MaxLinks THEN Append(page.links, LinkOf(Item)) ELSE page.links
    /\ page'.images =
          IF IsImage(Item) /\ Len(page.images) < MaxImages THEN Append(page.images, ImageOf(Item)) ELSE page.images
    /\ page'.canonicals =
          IF IsCanonical(Item) /\ Len(page.canonicals) < MaxCanonicals
          THEN Append(page.canonicals, CanonicalItem(Item)) ELSE page.canonicals
    /\ page'.robots =
          IF IsSource(Item) /\ Room THEN [page.robots EXCEPT !.sources = Append(@, SourceItem(Item))] ELSE page.robots
    /\ directives' = IF IsSource(Item) /\ Room /\ isAppliedAgent(SourceItem(Item).agent) THEN Item.value ELSE <<>>
TakesDirective ==
    /\ directives # <<>> /\ directives' = Tail(directives) /\ visited' = visited /\ response' = response
    /\ Head(directives) \in RobotsDirective /\ Tail(directives) \in Seq(RobotsDirective)
    /\ page' \in PageModel /\ Bounded(page') /\ page'.url = page.url /\ page'.base = page.base
    /\ page'.links = page.links /\ page'.images = page.images /\ page'.canonicals = page.canonicals
    /\ page'.robots = Apply(page.robots, Head(directives))

(* What is recorded of an item. *)
LEMMA RecordsAre ==
    ASSUME page \in PageModel, NEW e \in AnyItem
    PROVE  /\ e.tag = "a" => LinkOf(e) \in LinkRecord
           /\ e.tag = "img" => ImageOf(e) \in ImageRecord
           /\ e.tag \in {"link", "canonical"} => CanonicalItem(e) \in CanonicalRecord
           /\ e.tag = "alternate" => [href |-> Resolve(page.base, e.href), lang |-> e.lang] \in [href : URLs, lang : Lang]
           /\ e.tag \in {"robots", "x-robots"} => SourceItem(e) \in [source : {"meta", "header"}, agent : Texts]
<1> HIDE DEF Reference, URLs, Lang
<1>1. page.base \in URLs
  BY DEF PageModel
<1>2. NoURL \in URLs
  BY TextsAssumption DEF NoURL, URLs
<1>3. e.href \in Reference => Resolve(page.base, e.href) \in URLs
  BY <1>1, ResolveIs
<1>4. e.tag = "a" => LinkOf(e) \in LinkRecord
  <2> SUFFICES ASSUME e.tag = "a" PROVE LinkOf(e) \in LinkRecord
    OBVIOUS
  <2>1. e.href \in Reference /\ e.nofollow \in BOOLEAN /\ e.text \in Texts
    BY ItemHas
  <2> DEFINE u == Resolve(page.base, e.href)
  <2>2. u \in URLs /\ External(u) \in BOOLEAN /\ Resource(u) \in BOOLEAN
    BY <1>3, <2>1 DEF External, Resource
  <2>3. LinkOf(e) = [url |-> u, external |-> External(u), resource |-> Resource(u), nofollow |-> e.nofollow, text |-> e.text]
    BY DEF LinkOf
  <2> HIDE DEF u
  <2> QED  BY <2>1, <2>2, <2>3 DEF LinkRecord
<1>5. e.tag = "img" => ImageOf(e) \in ImageRecord
  BY <1>3, ItemHas DEF ImageOf, ImageRecord, External
<1>6. e.tag \in {"link", "canonical"} => CanonicalItem(e) \in CanonicalRecord
  BY <1>2, <1>3, ItemHas DEF CanonicalItem, CanonicalOf, CanonicalRecord
<1>7. e.tag \in {"robots", "x-robots"} => SourceItem(e) \in [source : {"meta", "header"}, agent : Texts]
  BY ItemHas, TextsAssumption DEF SourceItem, Agent
<1>8. e.tag = "alternate" => [href |-> Resolve(page.base, e.href), lang |-> e.lang] \in [href : URLs, lang : Lang]
  BY <1>3, ItemHas
<1> QED  BY <1>4, <1>5, <1>6, <1>7, <1>8

(* A step that reads takes one item, or one directive. *)
LEMMA ReadIs ==
    ASSUME CrawlTyped, Reading, response # NoResponse, ReadPage
    PROVE  TakesItem \/ TakesDirective
<1> USE DEF Reading
<1> HIDE DEF URLs, LinkRecord, ImageRecord, CanonicalRecord, HeadingRecord, RobotsModel, Lang, AnyItem
<1>0. page \in PageModel /\ Bounded(page) /\ directives \in Seq(RobotsDirective)
  BY DEF Reading, ModelOf
<1>i. ASSUME visited < Len(Items(response)) PROVE Item \in AnyItem
  BY <1>i, ItemIs
<1>n. /\ MaxHeadings \in Nat /\ MaxCanonicals \in Nat /\ MaxSocialValues \in Nat /\ maxRobotsSources \in Nat
      /\ MaxLinks \in Nat /\ MaxImages \in Nat /\ MaxHreflangs \in Nat
  BY PageLimitsAssumption
\* A step that takes an item of no list.
<1>u. ASSUME directives = <<>>, visited < Len(Items(response)), Took, directives' = directives,
             ~IsLink(Item), ~IsImage(Item), ~IsCanonical(Item), ~IsSource(Item),
             page' \in PageModel, Bounded(page'), page'.url = page.url, page'.base = page.base,
             page'.links = page.links, page'.images = page.images, page'.canonicals = page.canonicals,
             page'.robots = page.robots
      PROVE  TakesItem
  BY <1>u DEF TakesItem, Took
<1>1. CASE Skip
  <2>1. /\ directives = <<>> /\ visited < Len(Items(response)) /\ Took /\ directives' = directives /\ page' = page
        /\ ~IsLink(Item) /\ ~IsImage(Item) /\ ~IsCanonical(Item) /\ ~IsSource(Item)
    BY <1>1 DEF Skip, IsLink, IsImage, IsCanonical, IsSource
  <2> QED  BY <1>0, <1>u, <2>1
<1>2. CASE Directive
  <2>1. /\ directives # <<>> /\ directives' = Tail(directives) /\ visited' = visited /\ response' = response
        /\ page' = [page EXCEPT !.robots = Apply(page.robots, Head(directives))]
    BY <1>2 DEF Directive
  <2>2. Head(directives) \in RobotsDirective /\ Tail(directives) \in Seq(RobotsDirective)
    BY <1>0, <2>1, HeadTailProperties
  <2>3. page.robots \in RobotsModel
    BY <1>0 DEF PageModel
  <2>4. Apply(page.robots, Head(directives)) \in RobotsModel
        /\ Len(Apply(page.robots, Head(directives)).sources) <= maxRobotsSources
    BY <1>0, <2>2, <2>3, ApplyIs DEF Bounded
  <2>5. page' \in PageModel /\ Bounded(page')
    BY <1>0, <2>1, <2>4, AddTyped
  <2>6. /\ page'.url = page.url /\ page'.base = page.base
        /\ page'.links = page.links /\ page'.images = page.images /\ page'.canonicals = page.canonicals
        /\ page'.robots = Apply(page.robots, Head(directives))
    BY <1>0, <2>1 DEF PageModel
  <2> QED  BY <2>1, <2>2, <2>5, <2>6 DEF TakesDirective
<1>3. CASE Title
  <2>1. /\ directives = <<>> /\ visited < Len(Items(response)) /\ Took /\ directives' = directives
        /\ Item.tag = "title" /\ ~IsLink(Item) /\ ~IsImage(Item) /\ ~IsCanonical(Item) /\ ~IsSource(Item)
    BY <1>3 DEF Title, Visit, At, IsLink, IsImage, IsCanonical, IsSource
  <2>2. Item.text \in Texts
    BY <1>i, <2>1, ItemHas
  <2>3. page' \in {page, [page EXCEPT !.titles = Append(@, Item.text)]}
    BY <1>3 DEF Title
  <2>4. page' \in PageModel /\ Bounded(page')
    BY <1>0, <2>2, <2>3, AddTyped
  <2>5. /\ page'.url = page.url /\ page'.base = page.base /\ page'.links = page.links
        /\ page'.images = page.images /\ page'.canonicals = page.canonicals /\ page'.robots = page.robots
    BY <1>0, <2>3 DEF PageModel
  <2> QED  BY <1>u, <2>1, <2>4, <2>5
<1>4. CASE Description
  <2>1. /\ directives = <<>> /\ visited < Len(Items(response)) /\ Took /\ directives' = directives
        /\ Item.tag = "meta" /\ ~IsLink(Item) /\ ~IsImage(Item) /\ ~IsCanonical(Item) /\ ~IsSource(Item)
    BY <1>4 DEF Description, Visit, At, IsLink, IsImage, IsCanonical, IsSource
  <2>2. Item.text \in Texts
    BY <1>i, <2>1, ItemHas
  <2>3. page' \in {page, [page EXCEPT !.descriptions = Append(@, Item.text)]}
    BY <1>4 DEF Description
  <2>4. page' \in PageModel /\ Bounded(page')
    BY <1>0, <2>2, <2>3, AddTyped
  <2>5. /\ page'.url = page.url /\ page'.base = page.base /\ page'.links = page.links
        /\ page'.images = page.images /\ page'.canonicals = page.canonicals /\ page'.robots = page.robots
    BY <1>0, <2>3 DEF PageModel
  <2> QED  BY <1>u, <2>1, <2>4, <2>5
<1>5. CASE SocialMeta
  <2>1. /\ directives = <<>> /\ visited < Len(Items(response)) /\ Took /\ directives' = directives
        /\ Item.tag = "social" /\ ~IsLink(Item) /\ ~IsImage(Item) /\ ~IsCanonical(Item) /\ ~IsSource(Item)
    BY <1>5 DEF SocialMeta, Visit, At, IsLink, IsImage, IsCanonical, IsSource
  <2>2. [property |-> Item.property, value |-> Item.text] \in [property : Texts, value : Texts]
    BY <1>0, <1>i, <2>1, ItemHas
  <2>3. \/ page' = page
        \/ Len(page.social) < MaxSocialValues /\ page' = [page EXCEPT !.social = Append(@, [property |-> Item.property, value |-> Item.text])]
    BY <1>0, <1>5 DEF SocialMeta, Add
  <2>4. page' \in PageModel /\ Bounded(page')
    BY <1>0, <2>2, <2>3, AddTyped
  <2>5. /\ page'.url = page.url /\ page'.base = page.base /\ page'.links = page.links
        /\ page'.images = page.images /\ page'.canonicals = page.canonicals /\ page'.robots = page.robots
    BY <1>0, <2>3 DEF PageModel
  <2> QED  BY <1>u, <2>1, <2>4, <2>5
<1>6. CASE Heading
  <2>1. /\ directives = <<>> /\ visited < Len(Items(response)) /\ Took /\ directives' = directives
        /\ Item.tag = "h" /\ ~IsLink(Item) /\ ~IsImage(Item) /\ ~IsCanonical(Item) /\ ~IsSource(Item)
    BY <1>6 DEF Heading, Visit, At, IsLink, IsImage, IsCanonical, IsSource
  <2>2. [level |-> Item.level, text |-> Item.text] \in HeadingRecord
    BY <1>0, <1>i, <2>1, ItemHas
  <2>3. \/ page' = page
        \/ Len(page.headings) < MaxHeadings /\ page' = [page EXCEPT !.headings = Append(@, [level |-> Item.level, text |-> Item.text])]
    BY <1>0, <1>6 DEF Heading, Add
  <2>4. page' \in PageModel /\ Bounded(page')
    BY <1>0, <2>2, <2>3, AddTyped
  <2>5. /\ page'.url = page.url /\ page'.base = page.base /\ page'.links = page.links
        /\ page'.images = page.images /\ page'.canonicals = page.canonicals /\ page'.robots = page.robots
    BY <1>0, <2>3 DEF PageModel
  <2> QED  BY <1>u, <2>1, <2>4, <2>5
<1>7. CASE Alternate
  <2>1. /\ directives = <<>> /\ visited < Len(Items(response)) /\ Took /\ directives' = directives
        /\ Item.tag = "alternate" /\ ~IsLink(Item) /\ ~IsImage(Item) /\ ~IsCanonical(Item) /\ ~IsSource(Item)
    BY <1>7 DEF Alternate, Visit, At, IsLink, IsImage, IsCanonical, IsSource
  <2>2. [href |-> Resolve(page.base, Item.href), lang |-> Item.lang] \in [href : URLs, lang : Lang]
    BY <1>0, <1>i, <2>1, RecordsAre
  <2>3. \/ page' = page
        \/ Len(page.hreflangs) < MaxHreflangs /\ page' = [page EXCEPT !.hreflangs = Append(@, [href |-> Resolve(page.base, Item.href), lang |-> Item.lang])]
    BY <1>0, <1>7 DEF Alternate, Add
  <2>4. page' \in PageModel /\ Bounded(page')
    BY <1>0, <2>2, <2>3, AddTyped
  <2>5. /\ page'.url = page.url /\ page'.base = page.base /\ page'.links = page.links
        /\ page'.images = page.images /\ page'.canonicals = page.canonicals /\ page'.robots = page.robots
    BY <1>0, <2>3 DEF PageModel
  <2> QED  BY <1>u, <2>1, <2>4, <2>5
<1>8. CASE Anchor
  <2>1. /\ directives = <<>> /\ visited < Len(Items(response)) /\ Took /\ directives' = directives
        /\ Item.tag = "a" /\ ~IsImage(Item) /\ ~IsCanonical(Item) /\ ~IsSource(Item)
    BY <1>8 DEF Anchor, Visit, At, IsLink, IsImage, IsCanonical, IsSource
  <2>2. LinkOf(Item) \in LinkRecord
    BY <1>0, <1>i, <2>1, RecordsAre
  <2>3. page' = IF IsLink(Item) /\ Len(page.links) < MaxLinks THEN [page EXCEPT !.links = Append(@, LinkOf(Item))] ELSE page
    BY <1>0, <1>8, <2>1 DEF Anchor, Add, Visit, At, IsLink, CanonicalItem
  <2>4. page' \in PageModel /\ Bounded(page')
    BY <1>0, <2>2, <2>3, AddTyped
  <2>5. /\ page'.url = page.url /\ page'.base = page.base /\ page'.images = page.images /\ page'.canonicals = page.canonicals /\ page'.robots = page.robots
        /\ page'.links = IF IsLink(Item) /\ Len(page.links) < MaxLinks THEN Append(page.links, LinkOf(Item)) ELSE page.links
    BY <1>0, <2>3 DEF PageModel
  <2> QED  BY <2>1, <2>4, <2>5 DEF TakesItem, Took
<1>9. CASE Image
  <2>1. /\ directives = <<>> /\ visited < Len(Items(response)) /\ Took /\ directives' = directives
        /\ Item.tag = "img" /\ ~IsLink(Item) /\ ~IsCanonical(Item) /\ ~IsSource(Item)
    BY <1>9 DEF Image, Visit, At, IsLink, IsImage, IsCanonical, IsSource
  <2>2. ImageOf(Item) \in ImageRecord
    BY <1>0, <1>i, <2>1, RecordsAre
  <2>3. page' = IF IsImage(Item) /\ Len(page.images) < MaxImages THEN [page EXCEPT !.images = Append(@, ImageOf(Item))] ELSE page
    BY <1>0, <1>9, <2>1 DEF Image, Add, Visit, At, IsImage, CanonicalItem
  <2>4. page' \in PageModel /\ Bounded(page')
    BY <1>0, <2>2, <2>3, AddTyped
  <2>5. /\ page'.url = page.url /\ page'.base = page.base /\ page'.links = page.links /\ page'.canonicals = page.canonicals /\ page'.robots = page.robots
        /\ page'.images = IF IsImage(Item) /\ Len(page.images) < MaxImages THEN Append(page.images, ImageOf(Item)) ELSE page.images
    BY <1>0, <2>3 DEF PageModel
  <2> QED  BY <2>1, <2>4, <2>5 DEF TakesItem, Took
<1>10. CASE Canonical
  <2>1. /\ directives = <<>> /\ visited < Len(Items(response)) /\ Took /\ directives' = directives
        /\ Item.tag = "canonical" /\ ~IsLink(Item) /\ ~IsImage(Item) /\ ~IsSource(Item)
    BY <1>10 DEF Canonical, Visit, At, IsLink, IsImage, IsCanonical, IsSource
  <2>2. CanonicalItem(Item) \in CanonicalRecord
    BY <1>0, <1>i, <2>1, RecordsAre
  <2>3. page' = IF IsCanonical(Item) /\ Len(page.canonicals) < MaxCanonicals THEN [page EXCEPT !.canonicals = Append(@, CanonicalItem(Item))] ELSE page
    BY <1>0, <1>10, <2>1 DEF Canonical, Add, Visit, At, IsCanonical, CanonicalItem
  <2>4. page' \in PageModel /\ Bounded(page')
    BY <1>0, <2>2, <2>3, AddTyped
  <2>5. /\ page'.url = page.url /\ page'.base = page.base /\ page'.links = page.links /\ page'.images = page.images /\ page'.robots = page.robots
        /\ page'.canonicals = IF IsCanonical(Item) /\ Len(page.canonicals) < MaxCanonicals THEN Append(page.canonicals, CanonicalItem(Item)) ELSE page.canonicals
    BY <1>0, <2>3 DEF PageModel
  <2> QED  BY <2>1, <2>4, <2>5 DEF TakesItem, Took
<1>11. CASE LinkHeader
  <2>1. /\ directives = <<>> /\ visited < Len(Items(response)) /\ Took /\ directives' = directives
        /\ Item.tag = "link" /\ ~IsLink(Item) /\ ~IsImage(Item) /\ ~IsSource(Item)
    BY <1>11 DEF LinkHeader, At, IsLink, IsImage, IsCanonical, IsSource
  <2>2. CanonicalItem(Item) \in CanonicalRecord
    BY <1>0, <1>i, <2>1, RecordsAre
  <2>3. page' = IF IsCanonical(Item) /\ Len(page.canonicals) < MaxCanonicals THEN [page EXCEPT !.canonicals = Append(@, CanonicalItem(Item))] ELSE page
    BY <1>0, <1>11, <2>1 DEF LinkHeader, Add, At, IsCanonical, CanonicalItem
  <2>4. page' \in PageModel /\ Bounded(page')
    BY <1>0, <2>2, <2>3, AddTyped
  <2>5. /\ page'.url = page.url /\ page'.base = page.base /\ page'.links = page.links /\ page'.images = page.images /\ page'.robots = page.robots
        /\ page'.canonicals = IF IsCanonical(Item) /\ Len(page.canonicals) < MaxCanonicals THEN Append(page.canonicals, CanonicalItem(Item)) ELSE page.canonicals
    BY <1>0, <2>3 DEF PageModel
  <2> QED  BY <2>1, <2>4, <2>5 DEF TakesItem, Took
<1>12. CASE RobotsMeta
  <2>1. /\ directives = <<>> /\ visited < Len(Items(response)) /\ Took
        /\ Item.tag = "robots" /\ ~IsLink(Item) /\ ~IsImage(Item) /\ ~IsCanonical(Item)
    BY <1>12 DEF RobotsMeta, Visit, At, IsLink, IsImage, IsCanonical, IsSource
  <2> DEFINE new == [page.robots EXCEPT !.sources = Append(@, SourceItem(Item))]
  <2>2. /\ page' = IF IsSource(Item) /\ Room THEN [page EXCEPT !.robots = new] ELSE page
        /\ directives' = IF IsSource(Item) /\ Room /\ isAppliedAgent(SourceItem(Item).agent) THEN Item.value ELSE <<>>
    <3>1. page.robots \in RobotsModel /\ Len(page.robots.sources) \in Nat
      BY <1>0, LenProperties DEF PageModel, RobotsModel
    <3>2. Room <=> ~(Len(page.robots.sources) >= maxRobotsSources)
      BY <1>n, <3>1 DEF Room
    <3>3. CASE IsSource(Item) /\ Room
      <4>1. AddRobots(SourceItem(Item).source, SourceItem(Item).agent, Item.value)
        BY <1>12, <2>1, <3>3 DEF RobotsMeta, Visit, At, IsSource, SourceItem
      <4>2. [page EXCEPT !.robots.sources = Append(@, SourceItem(Item))] = [page EXCEPT !.robots = new]
        BY <1>0 DEF PageModel
      <4>3. SourceItem(Item) = [source |-> SourceItem(Item).source, agent |-> SourceItem(Item).agent]
        BY DEF SourceItem
      <4> HIDE DEF new
      <4> QED  BY <3>2, <3>3, <4>1, <4>2, <4>3 DEF AddRobots
    <3>4. CASE ~(IsSource(Item) /\ Room)
      BY <1>12, <2>1, <3>2, <3>4 DEF RobotsMeta, AddRobots, Visit, At, IsSource
    <3> QED  BY <3>3, <3>4
  <2>3. Room => new \in RobotsModel /\ Len(new.sources) <= maxRobotsSources
    <3>1. SourceItem(Item) \in [source : {"meta", "header"}, agent : Texts]
      BY <1>0, <1>i, <2>1, RecordsAre
    <3>2. page.robots \in RobotsModel /\ page.robots.sources \in Seq([source : {"meta", "header"}, agent : Texts])
      BY <1>0 DEF PageModel, RobotsModel
    <3>3. Room => /\ Append(page.robots.sources, SourceItem(Item)) \in Seq([source : {"meta", "header"}, agent : Texts])
                  /\ Len(Append(page.robots.sources, SourceItem(Item))) <= maxRobotsSources
      BY <1>n, <3>1, <3>2, OneMore DEF Room
    <3>4. new.sources = Append(page.robots.sources, SourceItem(Item))
      BY <3>2 DEF RobotsModel
    <3>5. Room => new \in RobotsModel
      BY <3>2, <3>3 DEF RobotsModel
    <3> QED  BY <3>3, <3>4, <3>5
  <2>4. page' \in PageModel /\ Bounded(page')
    BY <1>0, <2>2, <2>3, AddTyped
  <2>5. /\ page'.url = page.url /\ page'.base = page.base /\ page'.links = page.links /\ page'.images = page.images
        /\ page'.canonicals = page.canonicals
        /\ page'.robots = IF IsSource(Item) /\ Room THEN new ELSE page.robots
    BY <1>0, <2>2 DEF PageModel
  <2> QED  BY <2>1, <2>2, <2>4, <2>5 DEF TakesItem, Took
<1>13. CASE RobotsHeader
  <2>1. /\ directives = <<>> /\ visited < Len(Items(response)) /\ Took
        /\ Item.tag = "x-robots" /\ ~IsLink(Item) /\ ~IsImage(Item) /\ ~IsCanonical(Item)
    BY <1>13 DEF RobotsHeader, At, IsLink, IsImage, IsCanonical, IsSource
  <2> DEFINE new == [page.robots EXCEPT !.sources = Append(@, SourceItem(Item))]
  <2>2. /\ page' = IF IsSource(Item) /\ Room THEN [page EXCEPT !.robots = new] ELSE page
        /\ directives' = IF IsSource(Item) /\ Room /\ isAppliedAgent(SourceItem(Item).agent) THEN Item.value ELSE <<>>
    <3>1. page.robots \in RobotsModel /\ Len(page.robots.sources) \in Nat
      BY <1>0, LenProperties DEF PageModel, RobotsModel
    <3>2. Room <=> ~(Len(page.robots.sources) >= maxRobotsSources)
      BY <1>n, <3>1 DEF Room
    <3>3. CASE IsSource(Item) /\ Room
      <4>1. AddRobots(SourceItem(Item).source, SourceItem(Item).agent, Item.value)
        BY <1>13, <2>1, <3>3 DEF RobotsHeader, At, IsSource, SourceItem
      <4>2. [page EXCEPT !.robots.sources = Append(@, SourceItem(Item))] = [page EXCEPT !.robots = new]
        BY <1>0 DEF PageModel
      <4>3. SourceItem(Item) = [source |-> SourceItem(Item).source, agent |-> SourceItem(Item).agent]
        BY DEF SourceItem
      <4> HIDE DEF new
      <4> QED  BY <3>2, <3>3, <4>1, <4>2, <4>3 DEF AddRobots
    <3>4. CASE ~(IsSource(Item) /\ Room)
      BY <1>13, <2>1, <3>2, <3>4 DEF RobotsHeader, AddRobots, At, IsSource
    <3> QED  BY <3>3, <3>4
  <2>3. Room => new \in RobotsModel /\ Len(new.sources) <= maxRobotsSources
    <3>1. SourceItem(Item) \in [source : {"meta", "header"}, agent : Texts]
      BY <1>0, <1>i, <2>1, RecordsAre
    <3>2. page.robots \in RobotsModel /\ page.robots.sources \in Seq([source : {"meta", "header"}, agent : Texts])
      BY <1>0 DEF PageModel, RobotsModel
    <3>3. Room => /\ Append(page.robots.sources, SourceItem(Item)) \in Seq([source : {"meta", "header"}, agent : Texts])
                  /\ Len(Append(page.robots.sources, SourceItem(Item))) <= maxRobotsSources
      BY <1>n, <3>1, <3>2, OneMore DEF Room
    <3>4. new.sources = Append(page.robots.sources, SourceItem(Item))
      BY <3>2 DEF RobotsModel
    <3>5. Room => new \in RobotsModel
      BY <3>2, <3>3 DEF RobotsModel
    <3> QED  BY <3>3, <3>4, <3>5
  <2>4. page' \in PageModel /\ Bounded(page')
    BY <1>0, <2>2, <2>3, AddTyped
  <2>5. /\ page'.url = page.url /\ page'.base = page.base /\ page'.links = page.links /\ page'.images = page.images
        /\ page'.canonicals = page.canonicals
        /\ page'.robots = IF IsSource(Item) /\ Room THEN new ELSE page.robots
    BY <1>0, <2>2 DEF PageModel
  <2> QED  BY <2>1, <2>2, <2>4, <2>5 DEF TakesItem, Took
<1> QED  BY <1>1, <1>2, <1>3, <1>4, <1>5, <1>6, <1>7, <1>8, <1>9, <1>10, <1>11, <1>12, <1>13 DEF ReadPage

(* A page that was just opened is empty. *)
LEMMA NewPageIs ==
    ASSUME NEW r \in Response
    PROVE  /\ ModelOf(NewPage(r), r)
           /\ NewPage(r).links = <<>> /\ NewPage(r).images = <<>> /\ NewPage(r).canonicals = <<>>
           /\ NewPage(r).robots = NoRobots
<1> DEFINE p == NewPage(r)
<1>1. r.url \in URLs /\ r.lang \in Lang /\ r.elements \in Seq(Element)
  BY DEF Response, PageURLs
<1>2. SetBase(r.url, r.elements) \in URLs
  BY <1>1, SetBaseIs
<1>3. NoRobots \in RobotsModel /\ NoRobots.sources = <<>>
  BY DEF NoRobots, RobotsModel, NotSet
<1>4. /\ p.url = r.url /\ p.base = SetBase(r.url, r.elements) /\ p.headings = <<>> /\ p.social = <<>>
      /\ p.hreflangs = <<>> /\ p.links = <<>> /\ p.images = <<>> /\ p.canonicals = <<>> /\ p.robots = NoRobots
  BY DEF NewPage
<1>5. p \in PageModel
  <2> HIDE DEF URLs, LinkRecord, ImageRecord, CanonicalRecord, HeadingRecord, RobotsModel, Lang, NoRobots
  <2> QED  BY <1>1, <1>2, <1>3 DEF NewPage, PageModel
<1>6. Len(<<>>) = 0
  OBVIOUS
<1>7. Bounded(p)
  <2> HIDE DEF p
  <2> QED  BY <1>3, <1>4, <1>6, PageLimitsAssumption DEF Bounded
<1> QED  BY <1>4, <1>5, <1>7 DEF ModelOf

(* The findings depend on the crawl and on the models only. *)
LEMMA Same ==
    ASSUME crawl' = crawl, data' = data
    PROVE  /\ Findings' = Findings /\ Parsed' = Parsed
           /\ \A i : /\ Entry(i)' = Entry(i) /\ URLOf(i)' = URLOf(i) /\ IndexablePage(i)' = IndexablePage(i)
                     /\ TargetCanonical(i)' = TargetCanonical(i) /\ Known(i)' = Known(i)
           /\ \A u : InboundNumber(u)' = InboundNumber(u)
           /\ ExactGroups' = ExactGroups /\ NearGroups' = NearGroups /\ Compared' = Compared
<1>1. Parsed' = Parsed /\ \A i : Entry(i)' = Entry(i)
  BY DEF Parsed, Entry
<1>2. \A i : URLOf(i)' = URLOf(i)
  BY <1>1 DEF URLOf
<1>3. \A i : IndexablePage(i)' = IndexablePage(i)
  BY <1>1 DEF IndexablePage
<1>3a. Start' = Start
  BY DEF Start, Entry
<1>4. UNION {PageFindings(data[i], data[i].url = Start) : i \in Parsed}'
      = UNION {PageFindings(data[i], data[i].url = Start) : i \in Parsed}
  BY DEF Parsed, Start, Entry
<1>5. DuplicateMetadataFindings' = DuplicateMetadataFindings /\ DuplicateH1Findings' = DuplicateH1Findings
  BY DEF DuplicateMetadataFindings, DuplicateH1Findings, SharedValues, Parsed
<1>6. HreflangSiteFindings' = HreflangSiteFindings
  BY DEF HreflangSiteFindings, AlternateFindings, Returns, IndexablePage, Parsed
<1>7. LinkFindings' = LinkFindings
  BY DEF LinkFindings, Inbound, Entry, Counts, InternalLinks, URLOf, Fetched, IndexablePage, FirstLinks, Parsed, FailedURL
<1>8. Contents' = Contents /\ Compared' = Compared /\ ContentFindings' = ContentFindings
  BY DEF Contents, Compared, ContentFindings, IndexablePage, Parsed, Entry
<1>9. ExactGroups' = ExactGroups
  BY DEF ExactGroups, exact, Compared, Contents, IndexablePage, Parsed, SameText, Entry
<1>10. Firsts' = Firsts
  BY <1>9 DEF Firsts
<1>10a. \A i : Similar(i)' = Similar(i)
  BY <1>1, <1>8 DEF Similar
<1>11. NearGroups' = NearGroups
  BY DEF NearGroups, near, Firsts, ExactGroups, exact, Compared, Contents, IndexablePage, Parsed, SameText, Similar, Entry
<1>12. DuplicateFindings' = DuplicateFindings
  BY <1>9, <1>11 DEF DuplicateFindings
<1>13. \A u : Known(u)' = Known(u) /\ TargetCanonical(u)' = TargetCanonical(u)
  BY DEF Known, Entry, TargetCanonical, Parsed
<1>14. \A u, v : Walk(u, v)' = Walk(u, v)
  BY DEF Walk, Hop, Known, TargetCanonical, Parsed, Entry
<1>15. CanonicalSiteFindings' = CanonicalSiteFindings
  BY DEF CanonicalSiteFindings, Walk, Hop, Known, TargetCanonical, Parsed, Entry
<1>16. CrawlFindings' = CrawlFindings
  BY <1>1, <1>15 DEF CrawlFindings, Unfit
<1>17. observedLinkFindings' = observedLinkFindings
  BY <1>1, <1>13 DEF observedLinkFindings
<1>18. HygieneFindings' = HygieneFindings
  BY DEF HygieneFindings, Entry
<1>19. MixedFindings' = MixedFindings
  BY DEF MixedFindings, Parsed, Entry
<1>20. \A u : InboundNumber(u)' = InboundNumber(u)
  BY DEF InboundNumber, Parsed
<1>21. Findings' = Findings
  BY <1>4, <1>5, <1>6, <1>7, <1>8, <1>12, <1>16, <1>17, <1>18, <1>19 DEF Findings
<1> QED  BY <1>1, <1>2, <1>3, <1>8, <1>9, <1>11, <1>13, <1>20, <1>21

(* What a site is checked from has its types. *)
LEMMA TypedInit == Init => Typed
<1> SUFFICES ASSUME Init PROVE Typed
  OBVIOUS
<1>1. PICK kind \in Crawls : crawl \in kind
  BY DEF Init
<1>2. /\ crawl \in [pages : Seq(Response), sitemap : SUBSET URLs, disallowed : SUBSET URLs]
      /\ \A i \in DOMAIN crawl.pages : Entry(i).redirects = 0 => Entry(i).url = Entry(i).requested
  BY <1>1, CrawlsAssumption DEF Entry
<1>3. at = 0 /\ data = <<>> /\ report = NoReport /\ response = NoResponse /\ visited = 0 /\ directives = <<>>
      /\ page = NewPage(NoResponse)
  BY DEF Init
<1>4. Len(crawl.pages) \in Nat
  BY <1>2, LenProperties
<1>5. DOMAIN data = {}
  BY <1>3
<1>6. CrawlTyped
  BY <1>2, <1>3, <1>4 DEF CrawlTyped
<1>7. ModelsTyped
  BY <1>3, <1>5 DEF ModelsTyped, Parsed
<1> QED  BY <1>3, <1>6, <1>7 DEF Typed, Reading, ReportHolds

(* Every step keeps the types, and no step follows the report. *)
LEMMA TypedNext == Typed /\ [Next]_vars => Typed'
<1> SUFFICES ASSUME Typed, [Next]_vars PROVE Typed'
  OBVIOUS
<1>0. CrawlTyped /\ Reading /\ ModelsTyped /\ ReportHolds
  BY DEF Typed
<1>1. /\ Len(crawl.pages) \in Nat /\ DOMAIN crawl.pages = 1 .. Len(crawl.pages)
      /\ \A i \in 1 .. Len(crawl.pages) : Entry(i) \in Response /\ Entry(i) # NoResponse
  BY <1>0, EntryIs
<1>2. at \in 0 .. Len(crawl.pages) /\ Parsed \subseteq 1 .. at
  BY <1>0 DEF CrawlTyped, ModelsTyped
<1>3. CASE Take
  <2>1. /\ response = NoResponse /\ at < Len(crawl.pages) /\ at' = at + 1 /\ crawl' = crawl /\ data' = data
        /\ report' = report
        /\ IF Processed(Entry(at + 1)) /\ Entry(at + 1).parses THEN Open(Entry(at + 1)) ELSE UNCHANGED pageVars
    BY <1>3 DEF Take
  <2>2. at + 1 \in 1 .. Len(crawl.pages) /\ at + 1 \notin Parsed
    BY <1>1, <1>2, <2>1
  <2>3. CrawlTyped'
    BY <1>0, <1>1, <2>1, <2>2 DEF CrawlTyped, Entry
  <2>4. ModelsTyped'
    BY <1>0, <1>2, <2>1 DEF ModelsTyped, Parsed, Entry
  <2>5. ReportHolds'
    BY <1>0, <1>1, <1>2, <2>1 DEF ReportHolds
  <2>6. Reading'
    <3>1. CASE ~(Processed(Entry(at + 1)) /\ Entry(at + 1).parses)
      <4>1. response' = response /\ visited' = visited /\ directives' = directives /\ page' = page
        BY <2>1, <3>1 DEF pageVars
      <4> QED  BY <1>0, <2>1, <4>1 DEF Reading
    <3>2. CASE Processed(Entry(at + 1)) /\ Entry(at + 1).parses
      <4> DEFINE r == Entry(at + 1)
      <4>1. response' = r /\ visited' = 0 /\ directives' = <<>> /\ page' = NewPage(r)
        BY <2>1, <3>2 DEF Open
      <4>2. r \in Response /\ r # NoResponse /\ Entry(at)' = r /\ Parsed' = Parsed
        BY <1>1, <2>1, <2>2 DEF Entry, Parsed
      <4>3. Len(Items(r)) \in Nat
        BY <4>2, ItemsAre
      <4>4. ModelOf(NewPage(r), r)
        BY <4>2, NewPageIs
      <4>5. at' \in 1 .. Len(crawl'.pages) /\ response' = Entry(at)' /\ at' \notin Parsed'
        BY <1>1, <2>1, <2>2, <4>1, <4>2
      <4>6. ModelOf(page, response)'
        BY <4>1, <4>4 DEF ModelOf, Bounded
      <4>7. visited' \in 0 .. Len(Items(response')) /\ directives' \in Seq(RobotsDirective) /\ response' # NoResponse
        BY <4>1, <4>2, <4>3
      <4> QED  BY <4>5, <4>6, <4>7 DEF Reading
    <3> QED  BY <3>1, <3>2
  <2> QED  BY <2>3, <2>4, <2>5, <2>6 DEF Typed
<1>4. CASE Read
  <2>1. /\ response # NoResponse /\ ReadPage /\ crawl' = crawl /\ at' = at /\ data' = data /\ report' = report
    BY <1>4 DEF Read
  <2>2. TakesItem \/ TakesDirective
    BY <1>0, <2>1, ReadIs
  <2>3. /\ response' = response /\ page' \in PageModel /\ Bounded(page') /\ page'.url = page.url
        /\ page'.base = page.base
    BY <2>2 DEF TakesItem, TakesDirective
  <2>4. response = Entry(at) /\ response \in Response /\ at \in 1 .. Len(crawl.pages) /\ at \notin Parsed
    BY <1>0, <1>1, <2>1 DEF Reading
  <2>5. directives' \in Seq(RobotsDirective) /\ visited' \in 0 .. Len(Items(response))
    <3>1. CASE TakesDirective
      BY <1>0, <2>1, <3>1 DEF TakesDirective, Reading
    <3>2. CASE TakesItem
      <4>1. Item \in AnyItem /\ visited + 1 \in 1 .. Len(Items(response)) /\ visited' = visited + 1
        BY <1>0, <2>1, <3>2, ItemIs DEF TakesItem
      <4>2. directives' \in {<<>>, Item.value} /\ (IsSource(Item) \/ directives' = <<>>)
        BY <3>2 DEF TakesItem
      <4>3. IsSource(Item) => Item.value \in Seq(RobotsDirective)
        BY <4>1, ItemHas DEF IsSource
      <4>4. <<>> \in Seq(RobotsDirective)
        OBVIOUS
      <4>5. visited' \in 0 .. Len(Items(response))
        BY <2>4, <4>1, ItemsAre
      <4> QED  BY <4>2, <4>3, <4>4, <4>5
    <3> QED  BY <2>2, <3>1, <3>2
  <2>6. CrawlTyped' /\ ModelsTyped' /\ ReportHolds'
    BY <1>0, <2>1 DEF CrawlTyped, ModelsTyped, ReportHolds, Parsed, Entry
  <2>7. Reading'
    <3>1. ModelOf(page, response)
      BY <1>0, <2>1 DEF Reading
    <3>2. ModelOf(page, response)'
      BY <2>3, <3>1 DEF ModelOf, Bounded
    <3>3. response' # NoResponse /\ at' \in 1 .. Len(crawl'.pages) /\ response' = Entry(at)' /\ at' \notin Parsed'
      BY <2>1, <2>3, <2>4 DEF Entry, Parsed
    <3>4. Items(response') = Items(response)
      BY <2>3
    <3> QED  BY <2>5, <3>2, <3>3, <3>4 DEF Reading, Items
  <2> QED  BY <2>6, <2>7 DEF Typed
<1>5. CASE Keep
  <2>1. /\ response # NoResponse /\ data' = [i \in DOMAIN data \cup {at} |-> IF i = at THEN page ELSE data[i]]
        /\ response' = NoResponse /\ visited' = 0 /\ page' = NewPage(NoResponse) /\ directives = <<>>
        /\ directives' = directives /\ crawl' = crawl /\ at' = at /\ report' = report
    BY <1>5 DEF Keep
  <2>2. /\ response = Entry(at) /\ at \in 1 .. Len(crawl.pages) /\ at \notin Parsed
        /\ ModelOf(page, response)
    BY <1>0, <2>1 DEF Reading
  <2>3. CrawlTyped' /\ Reading' /\ ReportHolds'
    BY <1>0, <2>1 DEF CrawlTyped, Reading, ReportHolds, Entry
  <2>4. ModelsTyped'
    <3>1. Parsed' = Parsed \cup {at} /\ \A i \in Parsed' : data'[i] = IF i = at THEN page ELSE data[i]
      BY <2>1 DEF Parsed
    <3>2. data' = [i \in Parsed' |-> data'[i]]
      BY <2>1 DEF Parsed
    <3>3. \A i \in Parsed' : Entry(i)' = Entry(i)
      BY <2>1 DEF Entry
    <3>4. \A i \in Parsed' : ModelOf(data'[i], Entry(i))
      BY <1>0, <2>2, <3>1 DEF ModelsTyped
    <3>5. \A i \in Parsed' : ModelOf(data[i], Entry(i))'
      BY <3>3, <3>4 DEF ModelOf, Bounded
    <3>6. Parsed' \subseteq 1 .. at'
      BY <1>2, <2>1, <2>2, <3>1
    <3> QED  BY <3>2, <3>5, <3>6 DEF ModelsTyped
  <2> QED  BY <2>3, <2>4 DEF Typed
<1>6. CASE Analyse
  <2>1. /\ response = NoResponse /\ at = Len(crawl.pages)
        /\ report' = [ready |-> TRUE, findings |-> Findings, pages |-> [i \in DOMAIN crawl.pages |-> Metric(i)]]
        /\ response' = response /\ visited' = visited /\ directives' = directives /\ page' = page
        /\ crawl' = crawl /\ at' = at /\ data' = data
    BY <1>6 DEF Analyse, pageVars
  <2>2. ReportIs'
    <3>1. /\ report'.ready /\ report'.findings = Findings /\ DOMAIN report'.pages = DOMAIN crawl.pages
          /\ \A i \in DOMAIN crawl.pages :
                /\ report'.pages[i].url = URLOf(i) /\ report'.pages[i].status = Entry(i).status
                /\ report'.pages[i].indexable = IndexablePage(i)
                /\ report'.pages[i].inbound = InboundNumber(URLOf(i))
      BY <2>1 DEF Metric
    <3> QED  BY <2>1, <3>1, Same, ZenonT(40) DEF ReportIs
  <2>3. CrawlTyped' /\ Reading' /\ ModelsTyped'
    BY <1>0, <2>1 DEF CrawlTyped, ModelsTyped, Reading, Parsed, Entry
  <2>4. ReportHolds'
    BY <2>1, <2>2 DEF ReportHolds
  <2> QED  BY <2>3, <2>4 DEF Typed
<1>7. CASE UNCHANGED vars
  <2>1. /\ response' = response /\ visited' = visited /\ directives' = directives /\ page' = page
        /\ crawl' = crawl /\ at' = at /\ data' = data /\ report' = report
    BY <1>7 DEF vars, pageVars
  <2>2. ReportHolds'
    <3>1. CASE report = NoReport
      BY <2>1, <3>1 DEF ReportHolds
    <3>2. CASE report # NoReport
      <4>1. ReportIs
        BY <1>0, <3>2 DEF ReportHolds
      <4>2. ReportIs'
        BY <2>1, <4>1, Same DEF ReportIs
      <4> QED  BY <1>0, <2>1, <3>2, <4>2 DEF ReportHolds
    <3> QED  BY <3>1, <3>2
  <2>3. CrawlTyped' /\ Reading' /\ ModelsTyped'
    BY <1>0, <2>1 DEF CrawlTyped, ModelsTyped, Reading, Parsed, Entry, ModelOf, Bounded
  <2> QED  BY <2>2, <2>3 DEF Typed
<1> QED  BY <1>3, <1>4, <1>5, <1>6, <1>7 DEF Next

(* The types hold in every state. *)
LEMMA TypedAlways == Spec => []Typed
<1>1. Init => Typed
  BY TypedInit
<1>2. Typed /\ [Next]_vars => Typed'
  BY TypedNext
<1> QED  BY <1>1, <1>2, PTL DEF Spec

-----------------------------------------------------------------------------
(* Findings of a site. *)

(* What holds of a report that is ready. *)
LEMMA ReadyIs ==
    ASSUME Typed, report.ready
    PROVE  /\ ReportIs /\ at = Len(crawl.pages) /\ Parsed \subseteq DOMAIN crawl.pages
           /\ Len(crawl.pages) \in Nat /\ DOMAIN crawl.pages = 1 .. Len(crawl.pages)
           /\ \A i \in DOMAIN crawl.pages : Entry(i) \in Response
           /\ \A i \in Parsed : ModelOf(data[i], Entry(i)) /\ URLOf(i) = data[i].url
<1>1. report # NoReport
  BY DEF NoReport
<1> QED  BY <1>1, EntryIs DEF Typed, ReportHolds, ModelsTyped, URLOf

(* Findings of all checks are in the report. *)
LEMMA FindingsAre ==
    /\ \A i \in Parsed : PageFindings(data[i], data[i].url = Start) \subseteq Findings
    /\ HreflangSiteFindings \cup LinkFindings \cup CrawlFindings \subseteq Findings
    /\ \A f \in Findings :
          \/ \E i \in Parsed : f \in PageFindings(data[i], data[i].url = Start)
          \/ f \in DuplicateMetadataFindings \/ f \in DuplicateH1Findings \/ f \in HreflangSiteFindings
          \/ f \in LinkFindings \/ f \in ContentFindings \/ f \in DuplicateFindings \/ f \in CrawlFindings
          \/ f \in observedLinkFindings \/ f \in HygieneFindings \/ f \in MixedFindings
  BY DEF Findings

\* A URL of the sitemap that was fetched and has no finding for it is, in
\* the numbers of the report, a page of its own with status 2xx or 3xx: the
\* checks of crawlFindings and the numbers of enrichReport name one page.
THEOREM SitemapAgrees == Spec => []SitemapNamesPages
<1>1. Typed => SitemapNamesPages
  <2> SUFFICES ASSUME Typed, report.ready, NEW i \in DOMAIN crawl.pages, Entry(i).requested \in crawl.sitemap,
                      F("SitemapTarget", Entry(i).requested, NoURL) \notin report.findings
               PROVE  /\ report.pages[i].url = Entry(i).requested /\ report.pages[i].status < 400
                      /\ i \in Parsed => report.pages[i].indexable
    BY DEF SitemapNamesPages
  <2>1. /\ ReportIs /\ i \in 1 .. Len(crawl.pages) /\ Entry(i) \in Response
        /\ i \in Parsed => data[i].url = Entry(i).url
    BY ReadyIs DEF ModelOf
  <2>2. ~Unfit(i)
    <3> SUFFICES ASSUME Unfit(i) PROVE FALSE
      OBVIOUS
    <3>1. F("SitemapTarget", Entry(i).requested, NoURL) \in CrawlFindings
      BY DEF CrawlFindings
    <3> QED  BY <2>1, <3>1, FindingsAre DEF ReportIs
  <2>3. ~(Entry(i).status >= 400) /\ Entry(i).status \in Nat /\ Entry(i).redirects \in Nat /\ Entry(i).redirects = 0
    BY <2>1, <2>2 DEF Unfit, Failed, Response
  <2>4. Entry(i).url = Entry(i).requested
    BY <2>3 DEF Typed, CrawlTyped
  <2>5. report.pages[i].url = Entry(i).requested
    BY <2>1, <2>4 DEF ReportIs, URLOf
  <2>6. i \in Parsed => IndexablePage(i)
    BY <2>2 DEF Unfit, IndexablePage
  <2> QED  BY <2>1, <2>3, <2>5, <2>6 DEF ReportIs
<1> QED  BY <1>1, TypedAlways, PTL

(* The numbers of the report: no page links to a URL without a followed     *)
(* link in its model.                                                       *)
LEMMA LinksAreCounted ==
    ASSUME Typed, report.ready, NEW url, InboundNumber(url) = 0
    PROVE  Inbound(url) = {}
<1> SUFFICES ASSUME NEW j \in Inbound(url) PROVE FALSE
  OBVIOUS
<1>1. j \in DOMAIN crawl.pages
  BY DEF Inbound
<1>2. PICK l \in InternalLinks(j) : l.url = url /\ Counts(j, l)
  BY DEF Inbound
<1>3. j \in Parsed /\ Indexable(data[j]) /\ ~l.nofollow /\ l.url # data[j].url
  BY <1>2 DEF Counts, IndexablePage, URLOf
<1>4. l \in FirstLinks(j) /\ ~l.external
  BY <1>2 DEF InternalLinks
<1>5. l \in ToSet(data[j].links) /\ l.url # NoURL
  <2>1. PICK k \in DOMAIN data[j].links : l = data[j].links[k] /\ data[j].links[k].url # NoURL
    BY <1>3, <1>4 DEF FirstLinks
  <2> QED  BY <2>1 DEF ToSet
<1>6. url \in Followed(data[j])
  BY <1>2, <1>3, <1>4, <1>5 DEF Followed
<1> DEFINE S == {i \in Parsed : Indexable(data[i]) /\ url \in Followed(data[i])}
<1>7. j \in S
  BY <1>3, <1>6
<1>8. IsFiniteSet(S)
  <2>1. S \subseteq 1 .. Len(crawl.pages) /\ Len(crawl.pages) \in Nat
    BY ReadyIs
  <2>2. IsFiniteSet(1 .. Len(crawl.pages))
    BY <2>1, FS_Interval
  <2> HIDE DEF S
  <2> QED  BY <2>1, <2>2, FS_Subset
<1>9. Cardinality(S) = 0
  BY DEF InboundNumber
<1> HIDE DEF S
<1> QED  BY <1>7, <1>8, <1>9, FS_EmptySet

-----------------------------------------------------------------------------
(* Functions that are defined along the numbers. *)

\* f starts at the base and takes the steps.
Along(f, K, S, base, step) == f \in [0 .. K -> S] /\ f[0] = base /\ \A n \in 1 .. K : f[n] = step[n][f[n - 1]]

(* A base and steps define a function on 0 .. K. *)
LEMMA RecursionExists ==
    ASSUME NEW K \in Nat, NEW S, NEW base \in S, NEW step \in [1 .. K -> [S -> S]]
    PROVE  \E f : Along(f, K, S, base, step)
<1> DEFINE Good(k) == \E f \in [0 .. k -> S] : f[0] = base /\ \A n \in 1 .. k : f[n] = step[n][f[n - 1]]
           Bad == {k \in 0 .. K : ~Good(k)}
<1>1. Good(0)
  <2> DEFINE f == [n \in 0 .. 0 |-> base]
  <2>1. f \in [0 .. 0 -> S] /\ f[0] = base
    OBVIOUS
  <2>2. \A n \in 1 .. 0 : f[n] = step[n][f[n - 1]]
    OBVIOUS
  <2> HIDE DEF f
  <2> QED  BY <2>1, <2>2
<1>2. ASSUME NEW k \in 1 .. K, Good(k - 1) PROVE Good(k)
  <2>1. PICK f \in [0 .. k - 1 -> S] : f[0] = base /\ \A n \in 1 .. k - 1 : f[n] = step[n][f[n - 1]]
    BY <1>2
  <2> DEFINE g == [n \in 0 .. k |-> IF n = k THEN step[k][f[k - 1]] ELSE f[n]]
  <2>2. f[k - 1] \in S /\ step[k] \in [S -> S]
    OBVIOUS
  <2>3. step[k][f[k - 1]] \in S
    BY <2>2
  <2>4. g \in [0 .. k -> S]
    BY <2>3
  <2>5. g[0] = base
    BY <2>1
  <2>6. \A n \in 1 .. k : g[n] = step[n][g[n - 1]]
    <3> TAKE n \in 1 .. k
    <3>1. CASE n = k
      <4>1. g[k] = step[k][f[k - 1]] /\ g[k - 1] = f[k - 1]
        OBVIOUS
      <4> QED  BY <3>1, <4>1
    <3>2. CASE n # k
      <4>1. n \in 1 .. k - 1 /\ g[n] = f[n] /\ g[n - 1] = f[n - 1]
        BY <3>2
      <4> QED  BY <2>1, <4>1
    <3> QED  BY <3>1, <3>2
  <2> HIDE DEF g
  <2> QED  BY <2>4, <2>5, <2>6
<1>3. Bad = {}
  <2> SUFFICES ASSUME Bad # {} PROVE FALSE
    OBVIOUS
  <2>1. Bad \subseteq Nat
    OBVIOUS
  <2>2. Min(Bad) \in Bad /\ \A x \in Bad : Min(Bad) <= x
    BY <2>1, LeastExists
  <2>3. PICK k \in Bad : \A x \in Bad : k <= x
    BY <2>2
  <2>4. k \in 0 .. K /\ ~Good(k)
    OBVIOUS
  <2>5. k # 0
    BY <1>1, <2>4
  <2>6. k \in 1 .. K /\ k - 1 \in 0 .. K /\ ~(k <= k - 1)
    BY <2>4, <2>5
  <2>7. Good(k - 1)
    <3>1. k - 1 \notin Bad
      BY <2>3, <2>6
    <3> HIDE DEF Good
    <3> QED  BY <2>6, <3>1
  <2> HIDE DEF Good
  <2> QED  BY <1>2, <2>4, <2>6, <2>7
<1> QED
  <2>1. K \in 0 .. K /\ K \notin Bad
    BY <1>3, SMTT(30)
  <2>2. Good(K)
    <3> HIDE DEF Good
    <3> QED  BY <2>1
  <2> QED  BY <2>2 DEF Along

(* What holds at 0 and is handed on holds everywhere. *)
LEMMA UpTo ==
    ASSUME NEW K \in Nat, NEW T, 0 \in T, \A n \in 1 .. K : n - 1 \in T => n \in T
    PROVE  0 .. K \subseteq T
<1> DEFINE Bad == {n \in 0 .. K : n \notin T}
<1> SUFFICES ASSUME Bad # {} PROVE FALSE
  OBVIOUS
<1>1. Bad \subseteq Nat
  OBVIOUS
<1>2. Min(Bad) \in Bad /\ \A x \in Bad : Min(Bad) <= x
  BY <1>1, LeastExists
<1>3. PICK k \in Bad : \A x \in Bad : k <= x
  BY <1>2
<1>4. k \in 0 .. K /\ k \notin T /\ k # 0
  OBVIOUS
<1>5. k \in 1 .. K /\ k - 1 \in 0 .. K /\ ~(k <= k - 1)
  BY <1>4
<1>6. k - 1 \in T
  BY <1>3, <1>5
<1> QED  BY <1>4, <1>5, <1>6

-----------------------------------------------------------------------------
(* Groups of duplicates. *)

\* The groups of the members of M: each is in one group, and is like its
\* first; the firsts are not alike.
Grouped(G, M, alike) ==
    /\ G \in Seq(Seq(Nat))
    /\ \A k \in DOMAIN G : G[k] # <<>> /\ ToSet(G[k]) \subseteq M
    /\ \A i \in M : \E k \in DOMAIN G : i \in ToSet(G[k])
    /\ \A k, l \in DOMAIN G : \A i \in M : i \in ToSet(G[k]) /\ i \in ToSet(G[l]) => k = l
    /\ \A k \in DOMAIN G : \A i \in ToSet(G[k]) : G[k][1] \in alike[i]
    /\ \A k, l \in DOMAIN G : k < l => G[k][1] \notin alike[G[l][1]]

(* A page that joins the groups is in one of them. *)
LEMMA JoinKeeps ==
    ASSUME NEW G, NEW M, NEW alike, NEW i \in Nat, i \notin M, i \in alike[i], Grouped(G, M, alike)
    PROVE  Grouped(Join(G, i, alike[i]), M \cup {i}, alike)
<1> DEFINE fitting == {g \in DOMAIN G : G[g][1] \in alike[i]}
           J == Join(G, i, alike[i])
<1>1. G \in Seq(Seq(Nat)) /\ Len(G) \in Nat /\ DOMAIN G = 1 .. Len(G)
  BY LenProperties DEF Grouped
<1>2. \A k \in DOMAIN G : G[k] \in Seq(Nat) /\ G[k] # <<>> /\ ToSet(G[k]) \subseteq M
  BY <1>1, ElementOfSeq DEF Grouped
<1>a. ASSUME NEW s \in Seq(Nat)
      PROVE  /\ Append(s, i) \in Seq(Nat) /\ Append(s, i) # <<>> /\ ToSet(Append(s, i)) = ToSet(s) \cup {i}
             /\ Append(s, i)[1] = IF s = <<>> THEN i ELSE s[1]
  <2>1. /\ Append(s, i) \in Seq(Nat) /\ Len(Append(s, i)) = Len(s) + 1 /\ Len(s) \in Nat
        /\ \A k \in 1 .. Len(s) : Append(s, i)[k] = s[k]
        /\ Append(s, i)[Len(s) + 1] = i
    BY AppendProperties, LenProperties
  <2>2. DOMAIN s = 1 .. Len(s) /\ DOMAIN Append(s, i) = 1 .. Len(s) + 1
    BY <2>1, LenProperties
  <2>3. ToSet(Append(s, i)) = ToSet(s) \cup {i}
    <3>1. ASSUME NEW x \in ToSet(Append(s, i)) PROVE x \in ToSet(s) \cup {i}
      <4>1. PICK k \in 1 .. Len(s) + 1 : x = Append(s, i)[k]
        BY <2>2 DEF ToSet
      <4>2. CASE k = Len(s) + 1
        BY <2>1, <4>1, <4>2
      <4>3. CASE k # Len(s) + 1
        <5>1. k \in 1 .. Len(s)
          BY <2>1, <4>3
        <5> QED  BY <2>1, <2>2, <4>1, <5>1 DEF ToSet
      <4> QED  BY <4>2, <4>3
    <3>2. i \in ToSet(Append(s, i))
      <4>1. Len(s) + 1 \in 1 .. Len(s) + 1
        BY <2>1
      <4> QED  BY <2>1, <2>2, <4>1 DEF ToSet
    <3>3. ASSUME NEW x \in ToSet(s) PROVE x \in ToSet(Append(s, i))
      <4>1. PICK k \in 1 .. Len(s) : x = s[k]
        BY <2>2 DEF ToSet
      <4>2. k \in 1 .. Len(s) + 1 /\ x = Append(s, i)[k]
        BY <2>1, <4>1
      <4> QED  BY <2>2, <4>2 DEF ToSet
    <3> QED  BY <3>1, <3>2, <3>3
  <2>4. s = <<>> => Append(s, i)[1] = i
    BY <2>1
  <2>5. s # <<>> => Append(s, i)[1] = s[1]
    <3>1. s # <<>> => 1 \in 1 .. Len(s)
      BY EmptySeq, <2>1
    <3> QED  BY <2>1, <3>1
  <2>6. Append(s, i) # <<>>
    <3>1. Len(Append(s, i)) # 0
      BY <2>1
    <3> QED  BY <2>1, <3>1, EmptySeq
  <2> QED  BY <2>1, <2>3, <2>4, <2>5, <2>6
<1>e. ToSet(<<>>) = {} /\ <<>> \in Seq(Nat)
  BY DEF ToSet
<1>f. \A k \in DOMAIN G : G[k][1] \in ToSet(G[k])
  <2> TAKE k \in DOMAIN G
  <2>1. Len(G[k]) \in Nat /\ Len(G[k]) # 0 /\ DOMAIN G[k] = 1 .. Len(G[k])
    BY <1>2, LenProperties, EmptySeq
  <2> QED  BY <2>1 DEF ToSet
<1>3. CASE fitting = {}
  <2>1. J = Append(G, <<i>>)
    BY <1>3 DEF Join
  <2>2. <<i>> \in Seq(Nat) /\ <<i>> # <<>> /\ <<i>>[1] = i /\ ToSet(<<i>>) = {i}
    BY DEF ToSet
  <2> HIDE DEF J, fitting
  <2>3. /\ J \in Seq(Seq(Nat)) /\ Len(J) = Len(G) + 1
        /\ \A k \in 1 .. Len(G) : J[k] = G[k]
        /\ J[Len(G) + 1] = <<i>>
    BY <1>1, <2>1, <2>2, AppendProperties
  <2>4. DOMAIN J = 1 .. Len(G) + 1
    BY <2>3, LenProperties
  <2>5. \A k \in DOMAIN J : k \in DOMAIN G \/ k = Len(G) + 1
    BY <1>1, <2>4
  <2>6. Len(G) + 1 \in DOMAIN J /\ DOMAIN G \subseteq DOMAIN J /\ \A k \in DOMAIN G : k < Len(G) + 1 /\ ~(Len(G) + 1 < k)
    BY <1>1, <2>4
  <2>7. \A k \in DOMAIN G : J[k] = G[k]
    BY <1>1, <2>3
  <2>8. \A k \in DOMAIN G : G[k][1] \notin alike[i]
    BY <1>3 DEF fitting
  <2>9. \A k \in DOMAIN J : J[k] # <<>> /\ ToSet(J[k]) \subseteq M \cup {i}
    BY <1>2, <2>2, <2>3, <2>5, <2>7
  <2>10. \A x \in M \cup {i} : \E k \in DOMAIN J : x \in ToSet(J[k])
    <3>1. \A x \in M : \E k \in DOMAIN G : x \in ToSet(G[k])
      BY DEF Grouped
    <3> QED  BY <2>2, <2>3, <2>6, <2>7, <3>1
  <2>11. \A k, l \in DOMAIN J : \A x \in M \cup {i} : x \in ToSet(J[k]) /\ x \in ToSet(J[l]) => k = l
    <3>1. \A k, l \in DOMAIN G : \A x \in M : x \in ToSet(G[k]) /\ x \in ToSet(G[l]) => k = l
      BY DEF Grouped
    <3>2. \A k \in DOMAIN J : i \in ToSet(J[k]) => k = Len(G) + 1
      BY <1>2, <2>5, <2>7
    <3>3. \A k \in DOMAIN J : \A x \in M : x \in ToSet(J[k]) => k \in DOMAIN G
      BY <2>2, <2>3, <2>5
    <3> QED  BY <2>7, <3>1, <3>2, <3>3
  <2>12. \A k \in DOMAIN J : \A x \in ToSet(J[k]) : J[k][1] \in alike[x]
    <3>1. \A k \in DOMAIN G : \A x \in ToSet(G[k]) : G[k][1] \in alike[x]
      BY DEF Grouped
    <3> QED  BY <2>2, <2>3, <2>5, <2>7, <3>1
  <2>13. \A k, l \in DOMAIN J : k < l => J[k][1] \notin alike[J[l][1]]
    <3>1. \A k, l \in DOMAIN G : k < l => G[k][1] \notin alike[G[l][1]]
      BY DEF Grouped
    <3> SUFFICES ASSUME NEW k \in DOMAIN J, NEW l \in DOMAIN J, k < l PROVE J[k][1] \notin alike[J[l][1]]
      OBVIOUS
    <3>2. k \in DOMAIN G
      BY <1>1, <2>4
    <3>3. CASE l \in DOMAIN G
      BY <2>7, <3>1, <3>2, <3>3
    <3>4. CASE l = Len(G) + 1
      <4>1. J[l][1] = i
        BY <2>2, <2>3, <3>4
      <4> QED  BY <2>7, <2>8, <3>2, <4>1
    <3> QED  BY <2>5, <3>3, <3>4
  <2> QED  BY <2>3, <2>9, <2>10, <2>11, <2>12, <2>13 DEF Grouped, J
<1>4. CASE fitting # {}
  <2> DEFINE m == Min(fitting)
  <2>1. fitting \subseteq Nat
    BY <1>1
  <2>2. m \in fitting
    BY <1>4, <2>1, LeastExists
  <2>3. J = [G EXCEPT ![m] = Append(@, i)]
    BY <1>4 DEF Join
  <2>4. m \in DOMAIN G /\ G[m][1] \in alike[i]
    BY <2>2
  <2> HIDE DEF J, fitting, m
  <2>5. /\ Append(G[m], i) \in Seq(Nat) /\ Append(G[m], i) # <<>> /\ ToSet(Append(G[m], i)) = ToSet(G[m]) \cup {i}
        /\ Append(G[m], i)[1] = G[m][1]
    BY <1>2, <1>a, <2>4
  <2>6. /\ DOMAIN J = DOMAIN G /\ J[m] = Append(G[m], i) /\ \A k \in DOMAIN G : k # m => J[k] = G[k]
        /\ J = [k \in 1 .. Len(G) |-> J[k]]
    BY <1>1, <2>3, <2>4
  <2>7. J \in Seq(Seq(Nat))
    BY <1>1, <2>3, <2>4, <2>5, ExceptSeq
  <2>8. \A k \in DOMAIN G : J[k][1] = G[k][1] /\ ToSet(J[k]) = IF k = m THEN ToSet(G[k]) \cup {i} ELSE ToSet(G[k])
    BY <2>5, <2>6
  <2>9. \A k \in DOMAIN J : J[k] # <<>> /\ ToSet(J[k]) \subseteq M \cup {i}
    BY <1>2, <2>5, <2>6, <2>8
  <2>10. \A x \in M \cup {i} : \E k \in DOMAIN J : x \in ToSet(J[k])
    <3>1. \A x \in M : \E k \in DOMAIN G : x \in ToSet(G[k])
      BY DEF Grouped
    <3> QED  BY <2>4, <2>6, <2>8, <3>1
  <2>11. \A k, l \in DOMAIN J : \A x \in M \cup {i} : x \in ToSet(J[k]) /\ x \in ToSet(J[l]) => k = l
    <3>1. \A k, l \in DOMAIN G : \A x \in M : x \in ToSet(G[k]) /\ x \in ToSet(G[l]) => k = l
      BY DEF Grouped
    <3>2. \A k \in DOMAIN G : i \in ToSet(J[k]) => k = m
      BY <1>2, <2>8
    <3>3. \A k \in DOMAIN G : \A x \in M : x \in ToSet(J[k]) => x \in ToSet(G[k])
      BY <2>8
    <3> SUFFICES ASSUME NEW k \in DOMAIN G, NEW l \in DOMAIN G, NEW x \in M \cup {i},
                        x \in ToSet(J[k]), x \in ToSet(J[l])
                 PROVE  k = l
      BY <2>6
    <3>4. CASE x = i
      BY <3>2, <3>4
    <3>5. CASE x \in M
      BY <3>1, <3>3, <3>5
    <3> QED  BY <3>4, <3>5
  <2>12. \A k \in DOMAIN J : \A x \in ToSet(J[k]) : J[k][1] \in alike[x]
    <3>1. \A k \in DOMAIN G : \A x \in ToSet(G[k]) : G[k][1] \in alike[x]
      BY DEF Grouped
    <3> QED  BY <2>4, <2>6, <2>8, <3>1
  <2>13. \A k, l \in DOMAIN J : k < l => J[k][1] \notin alike[J[l][1]]
    <3>1. \A k, l \in DOMAIN G : k < l => G[k][1] \notin alike[G[l][1]]
      BY DEF Grouped
    <3> QED  BY <2>6, <2>8, <3>1
  <2> QED  BY <2>7, <2>9, <2>10, <2>11, <2>12, <2>13 DEF Grouped, J
<1> QED  BY <1>3, <1>4

\* f joins the members of M, in their order, to the groups.
JoinsAll(f, K, M, alike) ==
    f = [n \in 0 .. K |-> IF n = 0 THEN <<>> ELSE IF n \in M THEN Join(f[n - 1], n, alike[n]) ELSE f[n - 1]]

(* There are such groups. *)
LEMMA JoinsExist ==
    ASSUME NEW K \in Nat, NEW M, NEW alike
    PROVE  \E f : JoinsAll(f, K, M, alike)
<1> DEFINE S == Seq(Seq(Nat))
           step == [n \in 1 .. K |-> [G \in S |-> IF n \in M THEN Join(G, n, alike[n]) ELSE G]]
<1>1. ASSUME NEW G \in S, NEW n \in 1 .. K PROVE Join(G, n, alike[n]) \in S
  <2> DEFINE fitting == {g \in DOMAIN G : G[g][1] \in alike[n]}
  <2>1. DOMAIN G = 1 .. Len(G) /\ Len(G) \in Nat /\ n \in Nat
    BY LenProperties
  <2>2. CASE fitting = {}
    <3>1. Join(G, n, alike[n]) = Append(G, <<n>>)
      BY <2>2 DEF Join
    <3>2. <<n>> \in Seq(Nat)
      BY <2>1
    <3> QED  BY <3>1, <3>2, AppendProperties
  <2>3. CASE fitting # {}
    <3> DEFINE m == Min(fitting)
    <3>1. fitting \subseteq Nat
      BY <2>1
    <3>2. m \in fitting
      BY <2>3, <3>1, LeastExists
    <3>3. m \in 1 .. Len(G)
      BY <2>1, <3>2
    <3>4. Join(G, n, alike[n]) = [G EXCEPT ![m] = Append(G[m], n)]
      BY <2>3 DEF Join
    <3> HIDE DEF m, fitting
    <3>5. G[m] \in Seq(Nat)
      BY <3>3, ElementOfSeq
    <3>6. Append(G[m], n) \in Seq(Nat)
      BY <2>1, <3>5, AppendProperties
    <3> QED  BY <3>3, <3>4, <3>6, ExceptSeq
  <2> QED  BY <2>2, <2>3
<1>2. step \in [1 .. K -> [S -> S]]
  <2> SUFFICES ASSUME NEW n \in 1 .. K
               PROVE  [G \in S |-> IF n \in M THEN Join(G, n, alike[n]) ELSE G] \in [S -> S]
    OBVIOUS
  <2> HIDE DEF S
  <2> QED  BY <1>1
<1>3. <<>> \in S
  OBVIOUS
<1>4. PICK f : f \in [0 .. K -> S] /\ f[0] = <<>> /\ \A n \in 1 .. K : f[n] = step[n][f[n - 1]]
  <2> HIDE DEF S, step
  <2>1. \E f : Along(f, K, S, <<>>, step)
    BY <1>2, <1>3, RecursionExists
  <2> QED  BY <2>1 DEF Along
<1>5. \A n \in 0 .. K : f[n] = IF n = 0 THEN <<>> ELSE IF n \in M THEN Join(f[n - 1], n, alike[n]) ELSE f[n - 1]
  <2> TAKE n \in 0 .. K
  <2>1. CASE n = 0
    BY <1>4, <2>1
  <2>2. CASE n # 0
    <3>1. n \in 1 .. K /\ n - 1 \in 0 .. K
      BY <2>2
    <3> HIDE DEF S
    <3>2. f[n - 1] \in S
      BY <1>4, <3>1
    <3> QED  BY <1>4, <2>2, <3>1, <3>2
  <2> QED  BY <2>1, <2>2
<1>6. f = [n \in 0 .. K |-> f[n]]
  <2> HIDE DEF S, step
  <2> QED  BY <1>4
<1>7. JoinsAll(f, K, M, alike)
  <2> HIDE DEF S, step
  <2> QED  BY <1>5, <1>6 DEF JoinsAll
<1> QED  BY <1>7

(* The groups that are joined are groups. *)
LEMMA JoinsGroup ==
    ASSUME NEW K \in Nat, NEW M, M \subseteq 1 .. K, NEW alike, \A i \in M : i \in alike[i],
           NEW f, JoinsAll(f, K, M, alike)
    PROVE  Grouped(f[K], M, alike)
<1> DEFINE T == {n \in 0 .. K : Grouped(f[n], M \cap (1 .. n), alike)}
<1>1. f[0] = <<>> /\ \A n \in 1 .. K : f[n] = IF n \in M THEN Join(f[n - 1], n, alike[n]) ELSE f[n - 1]
  <2>1. \A n \in 0 .. K : f[n] = IF n = 0 THEN <<>> ELSE IF n \in M THEN Join(f[n - 1], n, alike[n]) ELSE f[n - 1]
    <3> DEFINE g == [n \in 0 .. K |-> IF n = 0 THEN <<>> ELSE IF n \in M THEN Join(f[n - 1], n, alike[n]) ELSE f[n - 1]]
    <3>1. f = g
      BY DEF JoinsAll
    <3>2. \A n \in 0 .. K : g[n] = IF n = 0 THEN <<>> ELSE IF n \in M THEN Join(f[n - 1], n, alike[n]) ELSE f[n - 1]
      OBVIOUS
    <3> HIDE DEF g
    <3> QED  BY <3>1, <3>2
  <2> QED  BY <2>1
<1>2. 0 \in T
  <2>1. M \cap (1 .. 0) = {}
    OBVIOUS
  <2>2. <<>> \in Seq(Seq(Nat)) /\ DOMAIN <<>> = {}
    OBVIOUS
  <2>3. Grouped(<<>>, {}, alike)
    BY <2>2 DEF Grouped
  <2> QED  BY <1>1, <2>1, <2>3
<1>3. ASSUME NEW n \in 1 .. K, n - 1 \in T PROVE n \in T
  <2>1. Grouped(f[n - 1], M \cap (1 .. n - 1), alike) /\ n \in 0 .. K /\ n \in Nat
    BY <1>3
  <2>2. CASE n \in M
    <3>1. M \cap (1 .. n) = (M \cap (1 .. n - 1)) \cup {n} /\ n \notin M \cap (1 .. n - 1)
      BY <2>2
    <3>2. Grouped(Join(f[n - 1], n, alike[n]), (M \cap (1 .. n - 1)) \cup {n}, alike)
      BY <2>1, <2>2, <3>1, JoinKeeps
    <3> QED  BY <1>1, <2>1, <2>2, <3>1, <3>2
  <2>3. CASE n \notin M
    <3>1. M \cap (1 .. n) = M \cap (1 .. n - 1)
      BY <2>3
    <3> QED  BY <1>1, <2>1, <2>3, <3>1
  <2> QED  BY <2>2, <2>3
<1>4. 0 .. K \subseteq T
  <2> HIDE DEF T
  <2> QED  BY <1>2, <1>3, UpTo
<1>5. M \cap (1 .. K) = M
  OBVIOUS
<1>6. K \in T
  <2> HIDE DEF T
  <2> QED  BY <1>4
<1> QED  BY <1>5, <1>6

(* The groups of the same text, and those of similar texts. *)
LEMMA GroupsAre ==
    ASSUME Typed
    PROVE  /\ Compared \subseteq Contents /\ Contents \subseteq Parsed /\ Firsts \subseteq Compared
           /\ Grouped(ExactGroups, Compared, [i \in DOMAIN crawl.pages |-> SameText(i)])
           /\ Grouped(NearGroups, Firsts, [i \in DOMAIN crawl.pages |-> Similar(i)])
<1> DEFINE K == Len(crawl.pages)
           same == [i \in DOMAIN crawl.pages |-> SameText(i)]
           similar == [i \in DOMAIN crawl.pages |-> Similar(i)]
<1>1. K \in Nat /\ DOMAIN crawl.pages = 1 .. K
  BY EntryIs DEF Typed
<1>2. Compared \subseteq Contents /\ Contents \subseteq 1 .. K /\ Contents \subseteq Parsed
  BY <1>1 DEF Compared, Contents, IndexablePage
<1>3. Grouped(ExactGroups, Compared, same)
  <2>1. \A f : JoinsAll(f, K, Compared, same) <=>
           f = [n \in 0 .. K |-> IF n = 0 THEN <<>> ELSE IF n \in Compared THEN Join(f[n - 1], n, SameText(n)) ELSE f[n - 1]]
    <3>1. \A n \in Compared : same[n] = SameText(n)
      BY <1>1, <1>2
    <3> HIDE DEF same, K
    <3> QED  BY <3>1 DEF JoinsAll
  <2>2. \E f : JoinsAll(f, K, Compared, same)
    BY <1>1, JoinsExist
  <2>3. JoinsAll(exact, K, Compared, same)
    <3> HIDE DEF same
    <3> QED  BY <2>1, <2>2 DEF exact
  <2>4. \A i \in Compared : i \in same[i]
    BY <1>1, <1>2 DEF SameText
  <2> HIDE DEF same
  <2> QED  BY <1>1, <1>2, <2>3, <2>4, JoinsGroup DEF ExactGroups
<1>4. Firsts \subseteq Compared
  <2> SUFFICES ASSUME NEW g \in ToSet(ExactGroups) PROVE g[1] \in Compared
    BY DEF Firsts
  <2>1. PICK k \in DOMAIN ExactGroups : g = ExactGroups[k]
    BY DEF ToSet
  <2>2. g # <<>> /\ ToSet(g) \subseteq Compared /\ g \in Seq(Nat)
    BY <1>3, <2>1, ElementOfSeq, LenProperties DEF Grouped
  <2>3. 1 \in DOMAIN g
    BY <2>2, LenProperties, EmptySeq
  <2> QED  BY <2>2, <2>3 DEF ToSet
<1>5. Grouped(NearGroups, Firsts, similar)
  <2>1. \A f : JoinsAll(f, K, Firsts, similar) <=>
           f = [n \in 0 .. K |-> IF n = 0 THEN <<>> ELSE IF n \in Firsts THEN Join(f[n - 1], n, Similar(n)) ELSE f[n - 1]]
    <3>1. \A n \in Firsts : similar[n] = Similar(n)
      BY <1>1, <1>2, <1>4
    <3> HIDE DEF similar, K
    <3> QED  BY <3>1 DEF JoinsAll
  <2>2. \E f : JoinsAll(f, K, Firsts, similar)
    BY <1>1, JoinsExist
  <2>3. JoinsAll(near, K, Firsts, similar)
    <3> HIDE DEF similar
    <3> QED  BY <2>1, <2>2 DEF near
  <2>4. \A i \in Firsts : i \in similar[i]
    <3> TAKE i \in Firsts
    <3>1. i \in Compared /\ i \in DOMAIN crawl.pages
      BY <1>1, <1>2, <1>4
    <3> DEFINE b == Entry(i).text.bits
    <3>2. (b \ b) \cup (b \ b) = {}
      OBVIOUS
    <3>3. hamming(b, b) = 0
      BY <3>2, FS_EmptySet DEF hamming
    <3>4. Near(b, b)
      BY <3>3, HopsAssumption DEF Near
    <3> QED  BY <3>1, <3>4 DEF Similar
  <2> HIDE DEF similar
  <2>5. Firsts \subseteq 1 .. K
    BY <1>2, <1>4
  <2> QED  BY <1>1, <2>3, <2>4, <2>5, JoinsGroup DEF NearGroups
<1> QED  BY <1>2, <1>3, <1>4, <1>5

(* A member of groups is in one of them. *)
LEMMA OneGroup ==
    ASSUME NEW G, NEW M, NEW alike, Grouped(G, M, alike), NEW i \in M
    PROVE  \E k \in DOMAIN G : i \in ToSet(G[k]) /\ {g \in DOMAIN G : i \in ToSet(G[g])} = {k}
<1>1. PICK k \in DOMAIN G : i \in ToSet(G[k])
  BY DEF Grouped
<1>2. \A l \in DOMAIN G : i \in ToSet(G[l]) => k = l
  BY <1>1 DEF Grouped
<1> QED  BY <1>1, <1>2

\* Duplicates form groups: every page with a text is in one exact group, with
\* the pages of the same text and no others; every first page of one is in
\* one group of similar pages, and is similar to its first, and the firsts
\* of two groups are not similar (duplicates.go:62-104).
THEOREM DuplicatesFormGroups == Spec => []GroupsPartition
<1>1. Typed => GroupsPartition
  <2> SUFFICES ASSUME Typed, report.ready PROVE GroupsPartition
    BY DEF GroupsPartition
  <2> DEFINE Member(i, groups) == {g \in DOMAIN groups : i \in ToSet(groups[g])}
             same == [i \in DOMAIN crawl.pages |-> SameText(i)]
             similar == [i \in DOMAIN crawl.pages |-> Similar(i)]
  <2>1. /\ Compared \subseteq DOMAIN crawl.pages /\ Firsts \subseteq Compared
        /\ Grouped(ExactGroups, Compared, same) /\ Grouped(NearGroups, Firsts, similar)
    BY GroupsAre DEF Compared, Contents
  <2>a. ExactGroups \in Seq(Seq(Nat)) /\ NearGroups \in Seq(Seq(Nat))
    BY <2>1 DEF Grouped
  <2>b. DOMAIN ExactGroups \subseteq Nat /\ DOMAIN NearGroups \subseteq Nat
    BY <2>a, LenProperties
  <2>2. ASSUME NEW G, NEW M, NEW alike, Grouped(G, M, alike), NEW k \in DOMAIN G
        PROVE  G[k][1] \in ToSet(G[k]) /\ G[k][1] \in M
    <3>1. G[k] \in Seq(Nat) /\ G[k] # <<>> /\ ToSet(G[k]) \subseteq M
      BY <2>2, ElementOfSeq, LenProperties DEF Grouped
    <3>2. 1 \in DOMAIN G[k]
      BY <3>1, LenProperties, EmptySeq
    <3> QED  BY <3>1, <3>2 DEF ToSet
  <2>3. ASSUME NEW i \in Compared, NEW j \in Compared
        PROVE  /\ Cardinality(Member(i, ExactGroups)) = 1
               /\ Member(i, ExactGroups) = Member(j, ExactGroups) <=> Entry(i).text.id = Entry(j).text.id
    <3> DEFINE G == ExactGroups
    <3>1. PICK k \in DOMAIN G : i \in ToSet(G[k]) /\ Member(i, G) = {k}
      BY <2>1, OneGroup
    <3>2. PICK l \in DOMAIN G : j \in ToSet(G[l]) /\ Member(j, G) = {l}
      BY <2>1, OneGroup
    <3>3. G[k][1] \in same[i] /\ G[l][1] \in same[j]
      BY <2>1, <3>1, <3>2 DEF Grouped
    <3>4. G[k][1] \in Compared /\ G[l][1] \in Compared
      BY <2>1, <2>2
    <3>5. \A x \in Compared : same[x] = {y \in Compared : Entry(y).text.id = Entry(x).text.id}
      BY <2>1 DEF SameText
    <3>6. Entry(G[k][1]).text.id = Entry(i).text.id /\ Entry(G[l][1]).text.id = Entry(j).text.id
      BY <3>3, <3>5
    <3>7. k # l => Entry(i).text.id # Entry(j).text.id
      <4> SUFFICES ASSUME k # l, Entry(i).text.id = Entry(j).text.id PROVE FALSE
        OBVIOUS
      <4>1. k \in Nat /\ l \in Nat
        BY <2>b
      <4>2. k < l \/ l < k
        BY <4>1
      <4>3. G[k][1] \in same[G[l][1]] /\ G[l][1] \in same[G[k][1]]
        BY <3>4, <3>5, <3>6
      <4> QED  BY <2>1, <4>2, <4>3 DEF Grouped
    <3>8. k = l => Entry(i).text.id = Entry(j).text.id
      BY <3>6
    <3>9. Member(i, G) = Member(j, G) <=> k = l
      BY <3>1, <3>2
    <3>10. Cardinality(Member(i, G)) = 1
      BY <3>1, FS_Singleton
    <3> QED  BY <3>7, <3>8, <3>9, <3>10
  <2>4. ASSUME NEW i \in Firsts PROVE Cardinality(Member(i, NearGroups)) = 1
    <3>1. PICK k \in DOMAIN NearGroups : Member(i, NearGroups) = {k}
      BY <2>1, OneGroup
    <3> QED  BY <3>1, FS_Singleton
  <2>5. ASSUME NEW g \in ToSet(NearGroups), NEW h \in ToSet(NearGroups)
        PROVE  /\ \A i \in ToSet(g) : i \in Firsts /\ Near(Entry(i).text.bits, Entry(g[1]).text.bits)
               /\ g # h => ~Near(Entry(g[1]).text.bits, Entry(h[1]).text.bits)
    <3> DEFINE G == NearGroups
    <3>1. PICK k \in DOMAIN G : g = G[k]
      BY DEF ToSet
    <3>2. PICK l \in DOMAIN G : h = G[l]
      BY DEF ToSet
    <3>3. g[1] \in Firsts /\ h[1] \in Firsts
      BY <2>1, <2>2, <3>1, <3>2
    <3>4. \A x \in Firsts : similar[x] = {y \in Compared : Near(Entry(x).text.bits, Entry(y).text.bits)}
      BY <2>1 DEF Similar
    <3>5. \A i \in ToSet(g) : i \in Firsts /\ Near(Entry(i).text.bits, Entry(g[1]).text.bits)
      <4> TAKE i \in ToSet(g)
      <4>1. i \in Firsts /\ g[1] \in similar[i]
        BY <2>1, <3>1 DEF Grouped
      <4> QED  BY <3>4, <4>1
    <3>6. ASSUME g # h PROVE ~Near(Entry(g[1]).text.bits, Entry(h[1]).text.bits)
      <4>1. k \in Nat /\ l \in Nat /\ k # l
        BY <2>b, <3>1, <3>2, <3>6
      <4>2. \A a, b : Near(a, b) => Near(b, a)
        <5>1. \A a, b : (a \ b) \cup (b \ a) = (b \ a) \cup (a \ b)
          OBVIOUS
        <5> QED  BY <5>1 DEF Near, hamming
      <4>3. CASE k < l
        <5>1. g[1] \notin similar[h[1]]
          BY <2>1, <3>1, <3>2, <4>3 DEF Grouped
        <5> QED  BY <2>1, <3>3, <3>4, <4>2, <5>1
      <4>4. CASE l < k
        <5>1. h[1] \notin similar[g[1]]
          BY <2>1, <3>1, <3>2, <4>4 DEF Grouped
        <5> QED  BY <2>1, <3>3, <3>4, <5>1
      <4> QED  BY <4>1, <4>3, <4>4
    <3> QED  BY <3>5, <3>6
  <2> QED  BY <2>3, <2>4, <2>5 DEF GroupsPartition, Firsts
<1> QED  BY <1>1, TypedAlways, PTL

-----------------------------------------------------------------------------
(* The rules of findings, and the index. *)

IndexRules ==
    {"LinkOrphan", "DuplicateExact", "DuplicateNear", "ContentNoText", "ContentBoilerplate", "ContentVeryShort"}
CanonicalRules == {"CanonicalLoop", "CanonicalChain"}
SiteOnly == IndexRules \cup CanonicalRules \cup {"HreflangNoReturn"}

(* A finding that is made has the rule it is made for. *)
LEMMA IfRule ==
    ASSUME NEW condition, NEW rule, NEW p, NEW f \in If(condition, rule, p)
    PROVE  f.rule = rule
  BY DEF If, F

(* No check of a single page has one of these rules. *)
LEMMA PageRules ==
    ASSUME NEW p, NEW start, NEW f \in PageFindings(p, start)
    PROVE  f.rule \notin SiteOnly
<1>1. ASSUME f \in MetadataFindings(p) PROVE f.rule \notin SiteOnly
  <2> DEFINE title == First(p.titles)
             description == First(p.descriptions)
             titleEmpty == p.titles # <<>> /\ title = ""
             descriptionEmpty == p.descriptions # <<>> /\ description = ""
  <2>1. \/ f \in If(p.titles = <<>>, "TitleMissing", p) \/ f \in If(titleEmpty, "TitleEmpty", p)
        \/ f \in If(title \in ShortTexts, "TitleShort", p) \/ f \in If(title \in LongTexts, "TitleLong", p)
        \/ f \in If(Len(p.titles) > 1, "TitleMultiple", p)
        \/ f \in If(p.descriptions = <<>>, "DescriptionMissing", p)
        \/ f \in If(descriptionEmpty, "DescriptionEmpty", p)
        \/ f \in If(description \in ShortTexts \cup LongTexts, "DescriptionLength", p)
        \/ f \in If(Len(p.descriptions) > 1, "DescriptionMultiple", p)
    BY <1>1, Zenon DEF MetadataFindings
  <2> HIDE DEF titleEmpty, descriptionEmpty
  <2> QED  BY <2>1, IfRule DEF SiteOnly, IndexRules, CanonicalRules
<1>2. ASSUME f \in HeadingFindings(p) PROVE f.rule \notin SiteOnly
  <2> DEFINE empty == \E i \in DOMAIN p.headings : p.headings[i].text = ""
  <2>1. \/ f \in If(H1s(p) = {}, "HeadingNoH1", p) \/ f \in If(Cardinality(H1s(p)) > 1, "HeadingMultipleH1", p)
        \/ f \in If(empty, "HeadingEmpty", p) \/ f \in If(Jumps(p) # {}, "HeadingHierarchy", p)
    BY <1>2, Zenon DEF HeadingFindings
  <2> HIDE DEF empty
  <2> QED  BY <2>1, IfRule DEF SiteOnly, IndexRules, CanonicalRules
<1>3. ASSUME f \in CanonicalFindings(p) PROVE f.rule \notin SiteOnly
  BY <1>3 DEF CanonicalFindings, If, F, SiteOnly, IndexRules, CanonicalRules
<1>4. ASSUME f \in RobotsFindings(p, start) PROVE f.rule \notin SiteOnly
  BY <1>4 DEF RobotsFindings, If, F, SiteOnly, IndexRules, CanonicalRules
<1>5. ASSUME f \in HreflangFindings(p) PROVE f.rule \notin SiteOnly
  BY <1>5 DEF HreflangFindings, If, F, SiteOnly, IndexRules, CanonicalRules
<1>6. ASSUME f \in LangFindings(p) PROVE f.rule \notin SiteOnly
  BY <1>6 DEF LangFindings, If, F, SiteOnly, IndexRules, CanonicalRules
<1>7. ASSUME f \in SocialFindings(p) PROVE f.rule \notin SiteOnly
  <2> DEFINE Differ(a, b) == /\ a \in Properties(p) /\ SocialValue(p, b) # ""
                             /\ SocialValue(p, a) # SocialValue(p, b)
             differ == \/ Differ("og:title", "twitter:title")
                       \/ Differ("og:description", "twitter:description")
             invalid == \E s \in ToSet(p.social) : /\ s.property \in {"og:image", "twitter:image"}
                                                   /\ s.value \notin ImageURLs \cup {""}
  <2>1. f \in If(differ, "SocialInconsistent", p) \/ f \in If(invalid, "SocialImageInvalid", p)
    BY <1>7, Zenon DEF SocialFindings
  <2> HIDE DEF differ, invalid
  <2> QED  BY <2>1, IfRule DEF SiteOnly, IndexRules, CanonicalRules
<1>8. ASSUME f \in SocialRequiredFindings(p) PROVE f.rule \notin SiteOnly
  <2> DEFINE No(properties) == \A property \in properties : SocialValue(p, property) = ""
             missing == \/ /\ Properties(p) \cap og # {}
                           /\ \E property \in {"og:title", "og:type", "og:url", "og:image"} : No({property})
                        \/ /\ Properties(p) \cap twitter # {}
                           /\ \/ No({"twitter:card"})
                              \/ No({"twitter:title", "og:title"})
                              \/ No({"twitter:image", "og:image"})
  <2>1. f \in If(missing, "SocialRequired", p)
    BY <1>8, Zenon DEF SocialRequiredFindings
  <2> HIDE DEF missing
  <2> QED  BY <2>1, IfRule DEF SiteOnly, IndexRules, CanonicalRules
<1>9. ASSUME f \in ImageFindings(p) PROVE f.rule \notin SiteOnly
  <2> DEFINE odd == {j \in ToSet(p.images) : j.loading \notin {"", "lazy", "eager"}}
  <2>1. \/ f \in {F("ImageAlt", p.url, i.url) : i \in {j \in ToSet(p.images) : j.alt = "absent"}}
        \/ f \in {F("ImageDimensions", p.url, i.url) : i \in {j \in ToSet(p.images) : ~j.sized}}
        \/ f \in {F("ImageLoading", p.url, i.url) : i \in odd}
    BY <1>9, Zenon DEF ImageFindings
  <2> HIDE DEF odd
  <2> QED  BY <2>1 DEF F, SiteOnly, IndexRules, CanonicalRules
<1>10. ASSUME f \in AnchorFindings(p) PROVE f.rule \notin SiteOnly
  <2> DEFINE internal == {l \in ToSet(p.links) : ~l.external /\ ~l.resource}
             empty == \E l \in internal : l.text = ""
             duplicate == \E k, l \in internal : k.text # "" /\ k.text = l.text /\ k.url # l.url
  <2>1. f \in If(empty, "AnchorEmpty", p) \/ f \in If(duplicate, "AnchorDuplicate", p)
    BY <1>10, Zenon DEF AnchorFindings
  <2> HIDE DEF empty, duplicate
  <2> QED  BY <2>1, IfRule DEF SiteOnly, IndexRules, CanonicalRules
<1> QED  BY <1>1, <1>2, <1>3, <1>4, <1>5, <1>6, <1>7, <1>8, <1>9, <1>10 DEF PageFindings

(* What the findings on links are. *)
LEMMA LinkRules ==
    ASSUME NEW f \in LinkFindings
    PROVE  \/ /\ f.rule = "LinkOrphan"
              /\ \E i \in DOMAIN crawl.pages : IndexablePage(i) /\ f = F("LinkOrphan", URLOf(i), NoURL)
           \/ f.rule \in {"LinkSelf", "LinkBroken", "LinkDuplicated"}
<1> DEFINE pages == DOMAIN crawl.pages
           Named(i) == {l \in InternalLinks(i) : IndexablePage(i) /\ l.text # ""}
           duplicated == \E i, j \in pages : \E k \in Named(i), l \in Named(j) : k.text = l.text /\ k.url # l.url
           orphans == {j \in pages : IndexablePage(j) /\ j # 1 /\ Inbound(URLOf(j)) = {}}
           selfs == {j \in Parsed : \E l \in ToSet(data[j].links) : l.url = data[j].url}
           broken == {k \in UNION {InternalLinks(i) : i \in pages} : FailedURL(k.url)}
<1>1. \/ f \in {F("LinkOrphan", URLOf(i), NoURL) : i \in orphans}
      \/ f \in {F("LinkSelf", data[i].url, NoURL) : i \in selfs}
      \/ f \in {F("LinkBroken", NoURL, l.url) : l \in broken}
      \/ f \in IF duplicated THEN {F("LinkDuplicated", NoURL, NoURL)} ELSE {}
  BY Zenon DEF LinkFindings
<1>2. \A i \in orphans : i \in DOMAIN crawl.pages /\ IndexablePage(i)
  OBVIOUS
<1> HIDE DEF duplicated, orphans, selfs, broken
<1>3. \/ f \in {F("LinkOrphan", URLOf(i), NoURL) : i \in orphans}
      \/ f.rule \in {"LinkSelf", "LinkBroken", "LinkDuplicated"}
  <2>1. \A u, v, r : F(r, u, v).rule = r
    BY DEF F
  <2> HIDE DEF NoURL, F
  <2> QED  BY <1>1, <2>1
<1>4. ASSUME f \in {F("LinkOrphan", URLOf(i), NoURL) : i \in orphans}
      PROVE  /\ f.rule = "LinkOrphan"
             /\ \E i \in DOMAIN crawl.pages : IndexablePage(i) /\ f = F("LinkOrphan", URLOf(i), NoURL)
  <2>1. PICK i \in orphans : f = F("LinkOrphan", URLOf(i), NoURL)
    BY <1>4
  <2>2. f.rule = "LinkOrphan"
    BY <2>1 DEF F
  <2> QED  BY <1>2, <2>1, <2>2
<1> QED  BY <1>3, <1>4

(* Pages that share a value have a finding of the rule. *)
LEMMA SharedRules ==
    ASSUME NEW value, NEW rule, NEW f \in SharedValues(value, rule)
    PROVE  f.rule = rule
<1> DEFINE shared == {j \in Parsed : value[j] # "" /\ \E k \in Parsed \ {j} : value[k] = value[j]}
<1>1. f \in {F(rule, data[i].url, NoURL) : i \in shared}
  BY Zenon DEF SharedValues
<1> HIDE DEF shared
<1> QED  BY <1>1 DEF F

(* Which of the checks of a site have them. *)
LEMMA SiteRules ==
    ASSUME NEW f \in Findings, f.rule \in SiteOnly
    PROVE  \/ f \in LinkFindings /\ f.rule = "LinkOrphan"
           \/ f \in ContentFindings /\ f.rule \in IndexRules
           \/ f \in DuplicateFindings /\ f.rule \in IndexRules
           \/ f \in HreflangSiteFindings /\ f.rule = "HreflangNoReturn"
           \/ f \in CanonicalSiteFindings /\ f.rule \in CanonicalRules
<1> USE DEF SiteOnly, IndexRules, CanonicalRules
<1>1. ASSUME f \in DuplicateMetadataFindings \/ f \in DuplicateH1Findings PROVE FALSE
  <2>1. f.rule \in {"TitleDuplicate", "DescriptionDuplicate", "HeadingDuplicateH1"}
    BY <1>1, SharedRules DEF DuplicateMetadataFindings, DuplicateH1Findings
  <2> QED  BY <2>1
<1>2. ASSUME f \in HreflangSiteFindings PROVE f.rule = "HreflangNoReturn"
  <2>1. PICK i, h : f \in AlternateFindings(i, h)
    BY <1>2 DEF HreflangSiteFindings
  <2>2. f.rule \in {"HreflangNoReturn", "HreflangTargetProblem"}
    BY <2>1 DEF AlternateFindings, F
  <2> QED  BY <2>2
<1>3. ASSUME f \in LinkFindings PROVE f.rule = "LinkOrphan"
  BY <1>3, LinkRules
<1>4. ASSUME f \in CanonicalSiteFindings PROVE f.rule \in CanonicalRules
  BY <1>4 DEF CanonicalSiteFindings, If, F
<1>5. ASSUME f \in CrawlFindings PROVE f \in CanonicalSiteFindings
  BY <1>5 DEF CrawlFindings, F
<1>6. ASSUME f \in observedLinkFindings PROVE FALSE
  BY <1>6 DEF observedLinkFindings, F
<1>7. ASSUME f \in HygieneFindings PROVE FALSE
  BY <1>7 DEF HygieneFindings, F
<1>8. ASSUME f \in MixedFindings PROVE FALSE
  BY <1>8 DEF MixedFindings, F
<1>9. ASSUME NEW i \in Parsed, f \in PageFindings(data[i], data[i].url = Start) PROVE FALSE
  BY <1>9, PageRules
<1>10. ASSUME f \in ContentFindings PROVE f.rule \in IndexRules
  BY <1>10 DEF ContentFindings, If, F
<1>11. ASSUME f \in DuplicateFindings PROVE f.rule \in IndexRules
  BY <1>11 DEF DuplicateFindings, F
<1> QED  BY <1>1, <1>2, <1>3, <1>4, <1>5, <1>6, <1>7, <1>8, <1>9, <1>10, <1>11, FindingsAre

\* The findings on links and on duplicates are those of the pages that
\* search engines see, by the same numbers that the report shows: a page
\* without an inbound link in the numbers is reported as an orphan, and a
\* page out of the index gets no finding on links, duplicates or content.
THEOREM IndexIsFollowed == Spec => []FindingsFollowTheIndex
<1>1. Typed => UnlinkedIsReported
  <2> SUFFICES ASSUME Typed, report.ready, NEW i \in DOMAIN report.pages, i # 1, report.pages[i].indexable,
                      report.pages[i].inbound = 0
               PROVE  F("LinkOrphan", report.pages[i].url, NoURL) \in report.findings
    BY DEF UnlinkedIsReported
  <2>1. ReportIs /\ i \in DOMAIN crawl.pages
    BY ReadyIs DEF ReportIs
  <2>2. report.pages[i].url = URLOf(i) /\ IndexablePage(i) /\ InboundNumber(URLOf(i)) = 0
    BY <2>1 DEF ReportIs
  <2>3. Inbound(URLOf(i)) = {}
    BY <2>2, LinksAreCounted
  <2>4. F("LinkOrphan", URLOf(i), NoURL) \in LinkFindings
    BY <2>1, <2>2, <2>3 DEF LinkFindings
  <2> QED  BY <2>1, <2>2, <2>4, FindingsAre DEF ReportIs
<1>2. Typed => NoindexLeftAlone
  <2> SUFFICES ASSUME Typed, report.ready, NEW f \in report.findings, f.rule \in IndexRules
               PROVE  \E i \in Parsed : data[i].url = f.url /\ Indexable(data[i])
    BY DEF NoindexLeftAlone, IndexRules
  <2>1. f \in Findings
    BY ReadyIs DEF ReportIs
  <2>2. CASE f \in LinkFindings /\ f.rule = "LinkOrphan"
    <3>1. PICK i \in DOMAIN crawl.pages : IndexablePage(i) /\ f = F("LinkOrphan", URLOf(i), NoURL)
      BY <2>2, LinkRules
    <3> QED  BY <3>1 DEF IndexablePage, URLOf, F
  <2>3. CASE f \in ContentFindings
    <3>1. PICK i \in Contents : f.url = data[i].url
      BY <2>3 DEF ContentFindings, If, F
    <3> QED  BY <3>1 DEF Contents, IndexablePage
  <2>4. CASE f \in DuplicateFindings
    <3>1. \/ \E g \in ToSet(ExactGroups) : f.url = data[g[1]].url
          \/ \E g \in ToSet(NearGroups) : f.url = data[g[1]].url
      BY <2>4 DEF DuplicateFindings, F
    <3>2. /\ Compared \subseteq Contents /\ Firsts \subseteq Compared
          /\ Grouped(ExactGroups, Compared, [i \in DOMAIN crawl.pages |-> SameText(i)])
          /\ Grouped(NearGroups, Firsts, [i \in DOMAIN crawl.pages |-> Similar(i)])
      BY GroupsAre
    <3>3. \A g \in ToSet(ExactGroups) : g[1] \in Firsts
      BY DEF Firsts
    <3>4. \A g \in ToSet(NearGroups) : g[1] \in Firsts
      <4> TAKE g \in ToSet(NearGroups)
      <4>1. PICK k \in DOMAIN NearGroups : g = NearGroups[k]
        BY DEF ToSet
      <4>2. g \in Seq(Nat) /\ g # <<>> /\ ToSet(g) \subseteq Firsts
        BY <3>2, <4>1, ElementOfSeq, LenProperties DEF Grouped
      <4>3. 1 \in DOMAIN g
        BY <4>2, LenProperties, EmptySeq
      <4> QED  BY <4>2, <4>3 DEF ToSet
    <3>5. PICK i \in Contents : f.url = data[i].url
      BY <3>1, <3>2, <3>3, <3>4
    <3> QED  BY <3>5 DEF Contents, IndexablePage
  <2> QED  BY <2>1, <2>2, <2>3, <2>4, SiteRules DEF SiteOnly, IndexRules, CanonicalRules
<1>3. Typed => FindingsFollowTheIndex
  BY <1>1, <1>2 DEF FindingsFollowTheIndex
<1> QED  BY <1>3, TypedAlways, PTL

\* No missing return link is reported exactly if, among the pages that were
\* read, alternates are mutual (hreflang.go:96): the check looks only at the
\* last page with a URL, and only from the page that declares.
THEOREM AlternatesAreMutual == Spec => []AlternatesReturn
<1>1. Typed => AlternatesReturn
  <2> DEFINE Names(i, j) == \E h \in ToSet(data[i].hreflangs) : h.href = data[j].url
             several == \E i, j \in Parsed : i # j /\ data[i].url = data[j].url
  <2> SUFFICES ASSUME Typed, report.ready, ~several
               PROVE  Found("HreflangNoReturn") = {} <=> \A i, j \in Parsed : Names(i, j) => Names(j, i)
    BY DEF AlternatesReturn
  <2>1. ReportIs /\ Parsed \subseteq Nat
    BY ReadyIs
  \* The page that an alternate names.
  <2>2. ASSUME NEW i \in Parsed, NEW j \in Parsed, NEW h, h.href = data[j].url
        PROVE  /\ AlternateFindings(i, h) \subseteq Findings \/ h \notin ToSet(data[i].hreflangs)
               /\ (\E f \in AlternateFindings(i, h) : f.rule = "HreflangNoReturn") <=> (j # i /\ ~Returns(j, i))
    <3> DEFINE with == {k \in Parsed : data[k].url = h.href}
    <3>1. with = {j}
      BY <2>2
    <3>2. LastOf(with) = j
      <4>1. j \in Nat /\ j <= j
        BY <2>1
      <4> HIDE DEF with
      <4> QED  BY <3>1, <4>1 DEF LastOf
    <3>3. AlternateFindings(i, h) =
             IF with = {} \/ LastOf(with) = i THEN {}
             ELSE (IF Returns(LastOf(with), i) THEN {} ELSE {F("HreflangNoReturn", data[i].url, h.href)})
                  \cup (IF IndexablePage(LastOf(with)) THEN {} ELSE {F("HreflangTargetProblem", data[i].url, h.href)})
      BY DEF AlternateFindings
    <3> HIDE DEF with
    <3>4. AlternateFindings(i, h) =
             IF j = i THEN {}
             ELSE (IF Returns(j, i) THEN {} ELSE {F("HreflangNoReturn", data[i].url, h.href)})
                  \cup (IF IndexablePage(j) THEN {} ELSE {F("HreflangTargetProblem", data[i].url, h.href)})
      BY <3>1, <3>2, <3>3
    <3>5. h \in ToSet(data[i].hreflangs) => AlternateFindings(i, h) \subseteq HreflangSiteFindings
      BY DEF HreflangSiteFindings
    <3>6. (\E f \in AlternateFindings(i, h) : f.rule = "HreflangNoReturn") <=> (j # i /\ ~Returns(j, i))
      <4> DEFINE A == F("HreflangNoReturn", data[i].url, h.href)
                 B == F("HreflangTargetProblem", data[i].url, h.href)
      <4>1. A.rule = "HreflangNoReturn" /\ B.rule # "HreflangNoReturn"
        BY DEF F
      <4> HIDE DEF A, B
      <4>2. AlternateFindings(i, h) =
               IF j = i THEN {} ELSE (IF Returns(j, i) THEN {} ELSE {A}) \cup (IF IndexablePage(j) THEN {} ELSE {B})
        BY <3>4 DEF A, B
      <4> QED  BY <4>1, <4>2
    <3> QED  BY <3>5, <3>6, FindingsAre
  <2>3. ASSUME Found("HreflangNoReturn") = {}, NEW i \in Parsed, NEW j \in Parsed, Names(i, j) PROVE Names(j, i)
    <3>1. PICK h \in ToSet(data[i].hreflangs) : h.href = data[j].url
      BY <2>3
    <3>2. \A f \in AlternateFindings(i, h) : f.rule # "HreflangNoReturn"
      BY <2>1, <2>2, <2>3, <3>1 DEF Found, ReportIs
    <3>3. j = i \/ Returns(j, i)
      BY <2>2, <3>1, <3>2
    <3> QED  BY <3>1, <3>3 DEF Returns
  <2>4. ASSUME \A i, j \in Parsed : Names(i, j) => Names(j, i), NEW f \in Found("HreflangNoReturn") PROVE FALSE
    <3>1. f \in HreflangSiteFindings /\ f.rule = "HreflangNoReturn"
      BY <2>1, SiteRules DEF Found, ReportIs, SiteOnly, IndexRules, CanonicalRules
    <3>a. PICK i \in Parsed : \E h \in ToSet(data[i].hreflangs) : f \in AlternateFindings(i, h)
      BY <3>1 DEF HreflangSiteFindings
    <3>2. PICK h \in ToSet(data[i].hreflangs) : f \in AlternateFindings(i, h)
      BY <3>a
    <3>3. PICK j \in Parsed : h.href = data[j].url
      BY <3>2 DEF AlternateFindings
    <3>4. j # i /\ ~Returns(j, i)
      BY <2>2, <3>1, <3>2, <3>3
    <3> QED  BY <2>4, <3>2, <3>3, <3>4 DEF Returns
  <2> QED  BY <2>3, <2>4
<1> QED  BY <1>1, TypedAlways, PTL

-----------------------------------------------------------------------------
(* Canonical URLs of a site. *)

(* The canonical URL of a page is a URL, and so is that of what it leads   *)
(* to; nothing leads on from no URL.                                       *)
LEMMA CanonicalIs ==
    ASSUME Typed
    PROVE  /\ \A i \in Parsed : CanonicalURL(data[i]) \in URLs
           /\ \A u \in URLs : TargetCanonical(u) \in URLs
           /\ TargetCanonical(NoURL) = NoURL /\ Known(NoURL) = {} /\ NoURL \in URLs
<1>1. NoURL \in URLs
  BY TextsAssumption DEF NoURL, URLs
<1>2. ASSUME NEW p \in PageModel PROVE CanonicalURL(p) \in URLs
  <2>1. CASE Effective(p) = {}
    BY <1>1, <2>1 DEF CanonicalURL
  <2>2. CASE Effective(p) # {}
    <3>1. p.canonicals \in Seq(CanonicalRecord)
      BY DEF PageModel
    <3>2. DOMAIN p.canonicals = 1 .. Len(p.canonicals)
      BY <3>1, LenProperties
    <3>3. Effective(p) \subseteq DOMAIN p.canonicals /\ Effective(p) \subseteq Nat
      BY <3>2 DEF Effective
    <3>4. Min(Effective(p)) \in Effective(p)
      BY <2>2, <3>3, LeastExists
    <3>5. p.canonicals[Min(Effective(p))] \in CanonicalRecord
      BY <3>1, <3>2, <3>3, <3>4, ElementOfSeq
    <3>6. p.canonicals[Min(Effective(p))].url \in URLs
      BY <3>5 DEF CanonicalRecord
    <3> QED  BY <2>2, <3>6 DEF CanonicalURL
  <2> QED  BY <2>1, <2>2
<1>3. \A i \in Parsed : CanonicalURL(data[i]) \in URLs
  BY <1>2 DEF Typed, ModelsTyped, ModelOf
<1>4. \A u \in URLs : TargetCanonical(u) \in URLs
  <2> HIDE DEF URLs, NoURL
  <2> QED  BY <1>1, <1>3 DEF TargetCanonical
<1>5. Known(NoURL) = {}
  <2> SUFFICES ASSUME NEW i \in Known(NoURL) PROVE FALSE
    OBVIOUS
  <2>1. i \in DOMAIN crawl.pages /\ Entry(i).requested = NoURL
    BY DEF Known
  <2>2. Entry(i) \in Response
    BY <2>1, EntryIs DEF Typed
  <2> QED  BY <2>1, <2>2 DEF Response, PageURLs
<1> QED  BY <1>1, <1>3, <1>4, <1>5 DEF TargetCanonical

\* The URLs that a page leads to, one after the other.
Leads(N, p, c) ==
    /\ DOMAIN N = 0 .. maxCanonicalHops + 1 /\ N[0] = p /\ N[1] = c
    /\ \A n \in 2 .. maxCanonicalHops + 1 : N[n] = TargetCanonical(N[n - 1])
WalkRecord == [chain : Seq(URLs), next : URLs, loop : BOOLEAN]

(* A walk is a sequence of hops. *)
LEMMA WalkIs ==
    ASSUME Typed, NEW p \in URLs, NEW c \in URLs
    PROVE  \E a \in [0 .. maxCanonicalHops -> WalkRecord] :
               /\ a[0] = [chain |-> <<p, c>>, next |-> TargetCanonical(c), loop |-> FALSE]
               /\ \A n \in 1 .. maxCanonicalHops : a[n] = Hop(a[n - 1])
               /\ Walk(p, c) = a[maxCanonicalHops]
<1> HIDE DEF URLs, NoURL
<1> DEFINE H == maxCanonicalHops
           base == [chain |-> <<p, c>>, next |-> TargetCanonical(c), loop |-> FALSE]
           step == [n \in 1 .. H |-> [w \in WalkRecord |-> Hop(w)]]
           after == CHOOSE a : a = [n \in 0 .. H |-> IF n = 0 THEN base ELSE Hop(a[n - 1])]
<1>1. base \in WalkRecord
  BY CanonicalIs DEF WalkRecord
<1>2. ASSUME NEW w \in WalkRecord PROVE Hop(w) \in WalkRecord
  <2>1. w.chain \in Seq(URLs) /\ w.next \in URLs /\ NoURL \in URLs /\ TargetCanonical(w.next) \in URLs
    BY CanonicalIs DEF WalkRecord
  <2>2. Append(w.chain, w.next) \in Seq(URLs)
    BY <2>1, AppendProperties
  <2>3. \/ Hop(w) = [w EXCEPT !.next = NoURL] \/ Hop(w) = [w EXCEPT !.next = NoURL, !.loop = TRUE]
        \/ Hop(w) = [w EXCEPT !.chain = Append(w.chain, w.next), !.next = TargetCanonical(w.next)]
    BY DEF Hop
  <2> QED  BY <2>1, <2>2, <2>3 DEF WalkRecord
<1>3. step \in [1 .. H -> [WalkRecord -> WalkRecord]]
  <2> HIDE DEF WalkRecord
  <2> QED  BY <1>2
<1>4. H \in Nat
  BY HopsAssumption
<1>5. PICK f : f \in [0 .. H -> WalkRecord] /\ f[0] = base /\ \A n \in 1 .. H : f[n] = step[n][f[n - 1]]
  <2> HIDE DEF base, step, H, WalkRecord
  <2>1. \E f : Along(f, H, WalkRecord, base, step)
    BY <1>1, <1>3, <1>4, RecursionExists
  <2> QED  BY <2>1 DEF Along
<1>6. f = [n \in 0 .. H |-> IF n = 0 THEN base ELSE Hop(f[n - 1])]
  <2>1. \A n \in 0 .. H : f[n] = IF n = 0 THEN base ELSE Hop(f[n - 1])
    <3> TAKE n \in 0 .. H
    <3>1. CASE n = 0
      BY <1>5, <3>1
    <3>2. CASE n # 0
      <4>1. n \in 1 .. H /\ n - 1 \in 0 .. H
        BY <1>4, <3>2
      <4>2. f[n - 1] \in WalkRecord
        BY <1>5, <4>1
      <4> HIDE DEF WalkRecord
      <4> QED  BY <1>5, <3>2, <4>1, <4>2
    <3> QED  BY <3>1, <3>2
  <2>2. f = [n \in 0 .. H |-> f[n]]
    <3> HIDE DEF WalkRecord, base, step
    <3> QED  BY <1>5
  <2> HIDE DEF base, H
  <2> QED  BY <2>1, <2>2
<1>7. after = [n \in 0 .. H |-> IF n = 0 THEN base ELSE Hop(after[n - 1])]
  <2> HIDE DEF base, H
  <2> QED  BY <1>6
<1>8. Walk(p, c) = after[H]
  BY DEF Walk
<1>9. after[0] = base /\ \A n \in 1 .. H : after[n] = Hop(after[n - 1])
  <2> HIDE DEF after, base
  <2>1. \A n \in 0 .. H : after[n] = IF n = 0 THEN base ELSE Hop(after[n - 1])
    <3> DEFINE g == [n \in 0 .. H |-> IF n = 0 THEN base ELSE Hop(after[n - 1])]
    <3>1. after = g
      BY <1>7
    <3>2. \A n \in 0 .. H : g[n] = IF n = 0 THEN base ELSE Hop(after[n - 1])
      OBVIOUS
    <3> HIDE DEF g
    <3> QED  BY <3>1, <3>2
  <2> QED  BY <1>4, <2>1
<1>10. after \in [0 .. H -> WalkRecord]
  <2> DEFINE T == {n \in 0 .. H : after[n] \in WalkRecord}
  <2> HIDE DEF after, base, WalkRecord
  <2>1. 0 \in T
    BY <1>1, <1>4, <1>9
  <2>2. ASSUME NEW n \in 1 .. H, n - 1 \in T PROVE n \in T
    BY <1>2, <1>9, <2>2
  <2>3. 0 .. H \subseteq T
    <3> HIDE DEF T
    <3> QED  BY <1>4, <2>1, <2>2, UpTo
  <2>4. after = [n \in 0 .. H |-> after[n]]
    BY <1>7
  <2> QED  BY <2>3, <2>4
<1> HIDE DEF after
<1> QED  BY <1>8, <1>9, <1>10

(* There are the URLs that a page leads to. *)
LEMMA LeadsExist ==
    ASSUME Typed, NEW p \in URLs, NEW c \in URLs
    PROVE  \E N : /\ Leads(N, p, c)
                  /\ N = [n \in 0 .. maxCanonicalHops + 1 |->
                             IF n = 0 THEN p ELSE IF n = 1 THEN c ELSE TargetCanonical(N[n - 1])]
<1> HIDE DEF URLs, NoURL
<1> DEFINE H == maxCanonicalHops + 1
           step == [n \in 1 .. H |-> [u \in URLs |-> IF n = 1 THEN c ELSE TargetCanonical(u)]]
<1>1. H \in Nat /\ 1 \in 1 .. H
  BY HopsAssumption
<1>2. step \in [1 .. H -> [URLs -> URLs]]
  BY CanonicalIs
<1>3. PICK N : N \in [0 .. H -> URLs] /\ N[0] = p /\ \A n \in 1 .. H : N[n] = step[n][N[n - 1]]
  <2> HIDE DEF step, H
  <2>1. \E f : Along(f, H, URLs, p, step)
    BY <1>1, <1>2, RecursionExists
  <2> QED  BY <2>1 DEF Along
<1>4. \A n \in 1 .. H : N[n] = IF n = 1 THEN c ELSE TargetCanonical(N[n - 1])
  <2> TAKE n \in 1 .. H
  <2>1. n - 1 \in 0 .. H
    BY <1>1
  <2>2. N[n - 1] \in URLs
    BY <1>3, <2>1
  <2> QED  BY <1>3, <2>2
<1>5. \A n \in 0 .. H : N[n] = IF n = 0 THEN p ELSE IF n = 1 THEN c ELSE TargetCanonical(N[n - 1])
  BY <1>1, <1>3, <1>4
<1>6. N = [n \in 0 .. H |-> N[n]]
  <2> HIDE DEF step, H
  <2> QED  BY <1>3
<1>7. N = [n \in 0 .. H |-> IF n = 0 THEN p ELSE IF n = 1 THEN c ELSE TargetCanonical(N[n - 1])]
  <2> HIDE DEF step, H
  <2> QED  BY <1>5, <1>6
<1>8. Leads(N, p, c)
  <2>1. N[0] = p /\ N[1] = c /\ DOMAIN N = 0 .. H
    BY <1>1, <1>3, <1>4
  <2>2. \A n \in 2 .. H : n \in 1 .. H /\ n # 1
    BY <1>1
  <2> HIDE DEF step
  <2> QED  BY <1>4, <2>1, <2>2 DEF Leads
<1> QED  BY <1>7, <1>8

\* No two of the first URLs are the same, and each is one.
Apart(N, k) == \A a \in 0 .. k : N[a] # NoURL /\ \A b \in 0 .. k : N[a] = N[b] => a = b

\* Where a walk is after n hops: under way, at its end, or back.
UnderWay(w, N, n) ==
    /\ ~w.loop /\ Len(w.chain) = n + 2 /\ (\A k \in 1 .. n + 2 : w.chain[k] = N[k - 1])
    /\ w.next = TargetCanonical(N[n + 1]) /\ Apart(N, n + 1)
AtEnd(w, N, n) ==
    /\ ~w.loop /\ w.next = NoURL
    /\ \E m \in 0 .. n - 1 : Apart(N, m + 1) /\ (N[m + 2] = NoURL \/ N[m + 2] = N[m + 1])
IsBack(w, N, n) ==
    /\ w.loop /\ w.next = NoURL
    /\ \E m \in 0 .. n - 1 : /\ Apart(N, m + 1) /\ N[m + 2] # NoURL /\ N[m + 2] # N[m + 1]
                             /\ \E a \in 0 .. m + 1 : N[a] = N[m + 2]

(* A hop takes the walk on, ends it, or finds it back. *)
LEMMA HopKeeps ==
    ASSUME NEW N, NEW p, NEW c, Leads(N, p, c), NEW n \in 1 .. maxCanonicalHops, NEW w \in WalkRecord,
           UnderWay(w, N, n - 1) \/ AtEnd(w, N, n - 1) \/ IsBack(w, N, n - 1)
    PROVE  UnderWay(Hop(w), N, n) \/ AtEnd(Hop(w), N, n) \/ IsBack(Hop(w), N, n)
<1> HIDE DEF URLs, NoURL, Apart
<1>0. n \in Nat /\ n >= 1 /\ n - 1 \in Nat /\ (n - 1) + 1 = n /\ (n - 1) + 2 = n + 1 /\ maxCanonicalHops \in Nat
  BY HopsAssumption
<1>1. w.chain \in Seq(URLs) /\ w.loop \in BOOLEAN /\ w.next \in URLs
  BY DEF WalkRecord
<1>2. CASE AtEnd(w, N, n - 1) \/ IsBack(w, N, n - 1)
  <2>1. w.next = NoURL
    BY <1>2 DEF AtEnd, IsBack
  <2>2. Hop(w) = [w EXCEPT !.next = NoURL]
    BY <2>1 DEF Hop
  <2>3. Hop(w).next = NoURL /\ Hop(w).loop = w.loop
    BY <2>2 DEF WalkRecord
  <2>4. \A m \in 0 .. (n - 1) - 1 : m \in 0 .. n - 1
    BY <1>0
  <2> QED  BY <1>2, <2>3, <2>4 DEF AtEnd, IsBack
<1>3. CASE UnderWay(w, N, n - 1)
  <2>1. /\ ~w.loop /\ Len(w.chain) = n + 1 /\ \A k \in 1 .. n + 1 : w.chain[k] = N[k - 1]
        /\ w.next = TargetCanonical(N[n]) /\ Apart(N, n)
    BY <1>0, <1>3 DEF UnderWay
  <2>2. n + 1 \in 2 .. maxCanonicalHops + 1
    BY <1>0
  <2>3. w.next = N[n + 1]
    <3>1. N[n + 1] = TargetCanonical(N[(n + 1) - 1])
      BY <2>2 DEF Leads
    <3>2. (n + 1) - 1 = n
      BY <1>0
    <3> QED  BY <2>1, <3>1, <3>2
  <2>4. Last(w.chain) = N[n]
    <3>1. n + 1 \in 1 .. n + 1 /\ (n + 1) - 1 = n
      BY <1>0
    <3> QED  BY <2>1, <3>1 DEF Last
  <2>5. DOMAIN w.chain = 1 .. n + 1
    BY <1>1, <2>1, LenProperties
  <2>6. Seen(w.chain, w.next) <=> \E a \in 0 .. n : N[a] = N[n + 1]
    <3>1. ASSUME NEW i \in DOMAIN w.chain, w.chain[i] = w.next PROVE \E a \in 0 .. n : N[a] = N[n + 1]
      <4>1. i - 1 \in 0 .. n /\ w.chain[i] = N[i - 1]
        BY <1>0, <2>1, <2>5
      <4> QED  BY <2>3, <3>1, <4>1
    <3>2. ASSUME NEW a \in 0 .. n, N[a] = N[n + 1] PROVE Seen(w.chain, w.next)
      <4>1. a + 1 \in 1 .. n + 1 /\ (a + 1) - 1 = a
        BY <1>0
      <4>2. w.chain[a + 1] = N[a]
        BY <2>1, <4>1
      <4> QED  BY <2>3, <2>5, <3>2, <4>1, <4>2 DEF Seen
    <3> QED  BY <3>1, <3>2 DEF Seen
  <2>m. n - 1 \in 0 .. n - 1 /\ (n - 1) + 1 = n /\ (n - 1) + 2 = n + 1
    BY <1>0
  <2>7. CASE w.next = NoURL \/ w.next = N[n]
    <3>1. Hop(w) = [w EXCEPT !.next = NoURL]
      BY <2>4, <2>7 DEF Hop
    <3>2. Hop(w).next = NoURL /\ ~Hop(w).loop
      BY <2>1, <3>1 DEF WalkRecord
    <3>3. \E m \in 0 .. n - 1 : Apart(N, m + 1) /\ (N[m + 2] = NoURL \/ N[m + 2] = N[m + 1])
      BY <2>1, <2>3, <2>7, <2>m
    <3> QED  BY <3>2, <3>3 DEF AtEnd
  <2>8. CASE ~(w.next = NoURL \/ w.next = N[n]) /\ Seen(w.chain, w.next)
    <3>1. Hop(w) = [w EXCEPT !.next = NoURL, !.loop = TRUE]
      BY <2>4, <2>8 DEF Hop
    <3>2. Hop(w).next = NoURL /\ Hop(w).loop
      BY <3>1 DEF WalkRecord
    <3>3. \E m \in 0 .. n - 1 : /\ Apart(N, m + 1) /\ N[m + 2] # NoURL /\ N[m + 2] # N[m + 1]
                                /\ \E a \in 0 .. m + 1 : N[a] = N[m + 2]
      BY <2>1, <2>3, <2>6, <2>8, <2>m
    <3> QED  BY <3>2, <3>3 DEF IsBack
  <2>9. CASE ~(w.next = NoURL \/ w.next = N[n]) /\ ~Seen(w.chain, w.next)
    <3>1. Hop(w) = [w EXCEPT !.chain = Append(w.chain, w.next), !.next = TargetCanonical(w.next)]
      BY <2>4, <2>9 DEF Hop
    <3>2. Hop(w).chain = Append(w.chain, w.next) /\ Hop(w).next = TargetCanonical(N[n + 1]) /\ ~Hop(w).loop
      BY <2>1, <2>3, <3>1 DEF WalkRecord
    <3>3. /\ Len(Hop(w).chain) = n + 2
          /\ \A k \in 1 .. n + 1 : Hop(w).chain[k] = w.chain[k]
          /\ Hop(w).chain[n + 2] = N[n + 1]
      <4>1. /\ Len(Append(w.chain, w.next)) = (n + 1) + 1
            /\ \A k \in 1 .. n + 1 : Append(w.chain, w.next)[k] = w.chain[k]
            /\ Append(w.chain, w.next)[(n + 1) + 1] = w.next
        BY <1>1, <2>1, AppendProperties
      <4>2. (n + 1) + 1 = n + 2
        BY <1>0
      <4> QED  BY <2>3, <3>2, <4>1, <4>2
    <3>4. \A k \in 1 .. n + 2 : Hop(w).chain[k] = N[k - 1]
      <4> TAKE k \in 1 .. n + 2
      <4>1. CASE k = n + 2
        <5>1. k - 1 = n + 1
          BY <1>0, <4>1
        <5> QED  BY <3>3, <4>1, <5>1
      <4>2. CASE k # n + 2
        <5>1. k \in 1 .. n + 1
          BY <1>0, <4>2
        <5> QED  BY <2>1, <3>3, <5>1
      <4> QED  BY <4>1, <4>2
    <3>5. Apart(N, n + 1)
      <4>1. \A a \in 0 .. n + 1 : a \in 0 .. n \/ a = n + 1
        BY <1>0
      <4>2. \A a \in 0 .. n : N[a] # N[n + 1]
        BY <2>6, <2>9
      <4>3. N[n + 1] # NoURL
        BY <2>3, <2>9
      <4> QED  BY <2>1, <4>1, <4>2, <4>3 DEF Apart
    <3> QED  BY <3>2, <3>3, <3>4, <3>5 DEF UnderWay
  <2> QED  BY <2>7, <2>8, <2>9
<1> QED  BY <1>2, <1>3

(* The last of a finite set of positions. *)
LEMMA LastIs ==
    ASSUME NEW n \in Nat, NEW S, S \subseteq 1 .. n, S # {}
    PROVE  LastOf(S) \in S /\ \A j \in S : j <= LastOf(S)
<1> DEFINE R == {k \in 0 .. n : n - k \in S}
<1>1. PICK x \in S : TRUE
  OBVIOUS
<1>2. n - x \in R /\ R \subseteq Nat
  OBVIOUS
<1>3. Min(R) \in R /\ \A y \in R : Min(R) <= y
  <2> HIDE DEF R
  <2> QED  BY <1>2, LeastExists
<1>4. PICK m \in R : \A y \in R : m <= y
  BY <1>3
<1>5. n - m \in S
  OBVIOUS
<1>6. \A j \in S : j <= n - m
  <2> TAKE j \in S
  <2>1. n - j \in R /\ n - (n - j) = j
    OBVIOUS
  <2>2. m <= n - j /\ m \in Nat /\ j \in Nat
    BY <1>4, <2>1
  <2> QED  BY <2>2
<1> QED  BY <1>5, <1>6 DEF LastOf

(* A walk is back exactly if the URLs it leads to return. *)
LEMMA WalkFindsLoops ==
    ASSUME Typed, NEW p \in PageURLs, NEW c \in PageURLs, p # c, NEW N, Leads(N, p, c)
    PROVE  Walk(p, c).loop <=>
               \E n \in 1 .. maxCanonicalHops + 1 :
                   /\ N[n] # NoURL /\ \E m \in 0 .. n - 1 : N[m] = N[n]
                   /\ \A m \in 0 .. n - 1 : N[m] # N[m + 1]
<1> HIDE DEF NoURL
<1> DEFINE H == maxCanonicalHops
<1>0. H \in Nat /\ p \in URLs /\ c \in URLs /\ p # NoURL /\ c # NoURL
  BY HopsAssumption DEF PageURLs
<1> HIDE DEF URLs
<1>1. PICK a : /\ a \in [0 .. H -> WalkRecord] /\ a[0] = [chain |-> <<p, c>>, next |-> TargetCanonical(c), loop |-> FALSE]
               /\ \A n \in 1 .. H : a[n] = Hop(a[n - 1])
               /\ Walk(p, c) = a[H]
  BY <1>0, WalkIs
<1> DEFINE T == {n \in 0 .. H : UnderWay(a[n], N, n) \/ AtEnd(a[n], N, n) \/ IsBack(a[n], N, n)}
<1>2. N[0] = p /\ N[1] = c /\ \A n \in 2 .. H + 1 : N[n] = TargetCanonical(N[n - 1])
  BY DEF Leads
<1>3. 0 \in T
  <2>1. Apart(N, 1)
    <3>1. \A x \in 0 .. 1 : x = 0 \/ x = 1
      OBVIOUS
    <3> QED  BY <1>0, <1>2, <3>1 DEF Apart
  <2>2. a[0].chain = <<p, c>> /\ a[0].next = TargetCanonical(N[1]) /\ ~a[0].loop
    BY <1>1, <1>2
  <2>3. Len(<<p, c>>) = 2 /\ <<p, c>>[1] = p /\ <<p, c>>[2] = c
    OBVIOUS
  <2>4. \A k \in 1 .. 2 : a[0].chain[k] = N[k - 1]
    <3>1. \A k \in 1 .. 2 : (k = 1 /\ k - 1 = 0) \/ (k = 2 /\ k - 1 = 1)
      OBVIOUS
    <3> QED  BY <1>2, <2>2, <2>3, <3>1
  <2>5. 0 + 2 = 2 /\ 0 + 1 = 1 /\ 0 \in 0 .. H
    BY <1>0
  <2>6. UnderWay(a[0], N, 0)
    BY <2>1, <2>2, <2>3, <2>4, <2>5 DEF UnderWay
  <2> QED  BY <2>5, <2>6
<1>4. ASSUME NEW n \in 1 .. H, n - 1 \in T PROVE n \in T
  <2>1. n - 1 \in 0 .. H /\ n \in 0 .. H
    BY <1>0
  <2>2. a[n - 1] \in WalkRecord /\ a[n] = Hop(a[n - 1])
    BY <1>1, <2>1
  <2>3. UnderWay(a[n - 1], N, n - 1) \/ AtEnd(a[n - 1], N, n - 1) \/ IsBack(a[n - 1], N, n - 1)
    BY <1>4
  <2>4. UnderWay(a[n], N, n) \/ AtEnd(a[n], N, n) \/ IsBack(a[n], N, n)
    BY <2>2, <2>3, HopKeeps
  <2> QED  BY <2>1, <2>4
<1>5. UnderWay(a[H], N, H) \/ AtEnd(a[H], N, H) \/ IsBack(a[H], N, H)
  <2>1. 0 .. H \subseteq T
    <3> HIDE DEF T
    <3> QED  BY <1>0, <1>3, <1>4, UpTo
  <2>2. H \in T
    <3> HIDE DEF T
    <3> QED  BY <1>0, <2>1
  <2> QED  BY <2>2
<1>6. ASSUME Walk(p, c).loop
      PROVE  \E n \in 1 .. H + 1 : /\ N[n] # NoURL /\ \E m \in 0 .. n - 1 : N[m] = N[n]
                                   /\ \A m \in 0 .. n - 1 : N[m] # N[m + 1]
  <2>1. PICK m \in 0 .. H - 1 : /\ Apart(N, m + 1) /\ N[m + 2] # NoURL /\ N[m + 2] # N[m + 1]
                                /\ \E b \in 0 .. m + 1 : N[b] = N[m + 2]
    BY <1>1, <1>5, <1>6 DEF UnderWay, AtEnd, IsBack
  <2>2. m + 2 \in 1 .. H + 1 /\ (m + 2) - 1 = m + 1
    BY <1>0
  <2>3. \A b \in 0 .. m + 1 : N[b] # N[b + 1]
    <3> TAKE b \in 0 .. m + 1
    <3>1. CASE b = m + 1
      <4>1. b + 1 = m + 2
        BY <3>1
      <4> QED  BY <2>1, <3>1, <4>1
    <3>2. CASE b # m + 1
      <4>1. b + 1 \in 0 .. m + 1 /\ b # b + 1
        BY <3>2
      <4> QED  BY <2>1, <4>1 DEF Apart
    <3> QED  BY <3>1, <3>2
  <2> QED  BY <2>1, <2>2, <2>3
<1>7. ASSUME ~Walk(p, c).loop, NEW n \in 1 .. H + 1, N[n] # NoURL, NEW m \in 0 .. n - 1, N[m] = N[n],
             \A k \in 0 .. n - 1 : N[k] # N[k + 1]
      PROVE  FALSE
  <2>1. UnderWay(a[H], N, H) \/ AtEnd(a[H], N, H)
    BY <1>1, <1>5, <1>7 DEF IsBack
  <2>2. CASE UnderWay(a[H], N, H)
    <3>1. Apart(N, H + 1) /\ n \in 0 .. H + 1 /\ m \in 0 .. H + 1 /\ m # n
      BY <1>0, <2>2 DEF UnderWay
    <3> QED  BY <1>7, <3>1 DEF Apart
  <2>3. CASE AtEnd(a[H], N, H)
    <3>1. PICK k \in 0 .. H - 1 : Apart(N, k + 1) /\ (N[k + 2] = NoURL \/ N[k + 2] = N[k + 1])
      BY <2>3 DEF AtEnd
    <3>2. CASE n <= k + 1
      <4>1. n \in 0 .. k + 1 /\ m \in 0 .. k + 1 /\ m # n
        BY <1>0, <3>2
      <4> QED  BY <1>7, <3>1, <4>1 DEF Apart
    <3>3. CASE n > k + 1
      <4>1. k + 1 \in 0 .. n - 1 /\ (k + 1) + 1 = k + 2
        BY <1>0, <3>3
      <4>2. N[k + 2] = NoURL
        BY <1>7, <3>1, <4>1
      <4>3. n # k + 2
        BY <1>7, <4>2
      <4>4. k + 2 \in 0 .. n - 1 /\ (k + 2) + 1 = k + 3 /\ k + 3 \in 2 .. H + 1 /\ (k + 3) - 1 = k + 2
        BY <1>0, <3>3, <4>3
      <4>5. N[k + 3] = TargetCanonical(N[(k + 3) - 1])
        BY <1>2, <4>4
      <4>6. N[k + 3] = NoURL
        BY <4>2, <4>4, <4>5, CanonicalIs
      <4> QED  BY <1>7, <4>2, <4>4, <4>6
    <3>4. n <= k + 1 \/ n > k + 1
      BY <1>0
    <3> QED  BY <3>2, <3>3, <3>4
  <2> QED  BY <2>1, <2>2, <2>3
<1> QED  BY <1>6, <1>7

\* A page has a canonical loop exactly if its canonical, one that was fetched
\* without fault, leads on to a URL that was already passed, within the
\* limit, and not to a page that names itself; it never has a chain as well
\* (canonical.go:196-218).
THEOREM LoopsAreReported == Spec => []LoopsAreFound
<1>1. Typed => LoopsAreFound
  <2> SUFFICES ASSUME Typed, report.ready, NEW i \in Parsed PROVE
        LET p == data[i].url
            c == CanonicalURL(data[i])
            Nth[n \in 0 .. maxCanonicalHops + 1] ==
                IF n = 0 THEN p ELSE IF n = 1 THEN c ELSE TargetCanonical(Nth[n - 1])
            sound == Known(c) # {} /\ ~Failed(Entry(LastOf(Known(c)))) /\ Entry(LastOf(Known(c))).redirects = 0
            returns == \E n \in 1 .. maxCanonicalHops + 1 :
                           /\ Nth[n] # NoURL /\ \E m \in 0 .. n - 1 : Nth[m] = Nth[n]
                           /\ \A m \in 0 .. n - 1 : Nth[m] # Nth[m + 1]
            Has(rule) == F(rule, p, NoURL) \in report.findings
        IN (\A j \in Parsed \ {i} : data[j].url # p) =>
               /\ Has("CanonicalLoop") <=> (sound /\ returns)
               /\ ~(Has("CanonicalLoop") /\ Has("CanonicalChain"))
    BY DEF LoopsAreFound
  <2> DEFINE p == data[i].url
             c == CanonicalURL(data[i])
             Nth == CHOOSE N : N = [n \in 0 .. maxCanonicalHops + 1 |->
                        IF n = 0 THEN p ELSE IF n = 1 THEN c ELSE TargetCanonical(N[n - 1])]
             target == Entry(LastOf(Known(c)))
             sound == Known(c) # {} /\ ~Failed(target) /\ target.redirects = 0
             returns == \E n \in 1 .. maxCanonicalHops + 1 :
                           /\ Nth[n] # NoURL /\ \E m \in 0 .. n - 1 : Nth[m] = Nth[n]
                           /\ \A m \in 0 .. n - 1 : Nth[m] # Nth[m + 1]
             Has(rule) == F(rule, p, NoURL) \in report.findings
             findings ==
                 IF c \in {NoURL, p} \/ Known(c) = {} THEN {}
                 ELSE IF Failed(target) THEN {F("CanonicalTargetBroken", p, c)}
                 ELSE IF target.redirects > 0 THEN {F("CanonicalTargetRedirects", p, c)}
                 ELSE If(Walk(p, c).loop, "CanonicalLoop", data[i])
                      \cup If(~Walk(p, c).loop /\ Len(Walk(p, c).chain) > 2, "CanonicalChain", data[i])
  <2> SUFFICES ASSUME \A j \in Parsed \ {i} : data[j].url # p
               PROVE  (Has("CanonicalLoop") <=> (sound /\ returns)) /\ ~(Has("CanonicalLoop") /\ Has("CanonicalChain"))
    OBVIOUS
  <2>1. p \in PageURLs /\ c \in URLs /\ p \in URLs
    <3>1. Entry(i) \in Response /\ p = Entry(i).url
      BY ReadyIs DEF ModelOf
    <3> QED  BY <3>1, CanonicalIs DEF Response, PageURLs
  <2>2. PICK N : /\ Leads(N, p, c)
                 /\ N = [n \in 0 .. maxCanonicalHops + 1 |->
                            IF n = 0 THEN p ELSE IF n = 1 THEN c ELSE TargetCanonical(N[n - 1])]
    <3> HIDE DEF p, c
    <3> QED  BY <2>1, LeadsExist
  <2>3. Leads(Nth, p, c)
    <3> HIDE DEF p, c
    <3>1. Nth = [n \in 0 .. maxCanonicalHops + 1 |->
                    IF n = 0 THEN p ELSE IF n = 1 THEN c ELSE TargetCanonical(Nth[n - 1])]
      BY <2>2
    <3> HIDE DEF Nth
    <3>2. \A n \in 0 .. maxCanonicalHops + 1 : Nth[n] = IF n = 0 THEN p ELSE IF n = 1 THEN c ELSE TargetCanonical(Nth[n - 1])
      <4> DEFINE g == [n \in 0 .. maxCanonicalHops + 1 |->
                          IF n = 0 THEN p ELSE IF n = 1 THEN c ELSE TargetCanonical(Nth[n - 1])]
      <4>1. Nth = g
        BY <3>1
      <4>2. \A n \in 0 .. maxCanonicalHops + 1 : g[n] = IF n = 0 THEN p ELSE IF n = 1 THEN c ELSE TargetCanonical(Nth[n - 1])
        OBVIOUS
      <4> HIDE DEF g
      <4> QED  BY <4>1, <4>2
    <3>3. DOMAIN Nth = 0 .. maxCanonicalHops + 1
      BY <3>1
    <3>4. maxCanonicalHops \in Nat
      BY HopsAssumption
    <3> QED  BY <3>2, <3>3, <3>4 DEF Leads
  <2>4. \A rule \in {"CanonicalLoop", "CanonicalChain"} : Has(rule) <=> F(rule, p, NoURL) \in findings
    <3>1. report.findings = Findings
      BY ReadyIs DEF ReportIs
    <3>2. findings \subseteq CanonicalSiteFindings
      BY DEF CanonicalSiteFindings
    <3>3. CanonicalSiteFindings \subseteq Findings
      BY FindingsAre DEF CrawlFindings
    <3> SUFFICES ASSUME NEW rule \in {"CanonicalLoop", "CanonicalChain"}, F(rule, p, NoURL) \in Findings
                 PROVE  F(rule, p, NoURL) \in findings
      BY <3>1, <3>2, <3>3
    <3> DEFINE f == F(rule, p, NoURL)
    <3>4. f.rule = rule /\ f.url = p
      BY DEF F
    <3>5. f \in CanonicalSiteFindings
      BY <3>4, SiteRules DEF SiteOnly, IndexRules, CanonicalRules
    <3> DEFINE Of(j) ==
                 LET d == CanonicalURL(data[j]) IN
                 IF d \in {NoURL, data[j].url} \/ Known(d) = {} THEN {}
                 ELSE IF Failed(Entry(LastOf(Known(d)))) THEN {F("CanonicalTargetBroken", data[j].url, d)}
                 ELSE IF Entry(LastOf(Known(d))).redirects > 0 THEN {F("CanonicalTargetRedirects", data[j].url, d)}
                 ELSE If(Walk(data[j].url, d).loop, "CanonicalLoop", data[j])
                      \cup If(~Walk(data[j].url, d).loop /\ Len(Walk(data[j].url, d).chain) > 2, "CanonicalChain", data[j])
    <3>6. PICK j \in Parsed : f \in Of(j)
      BY <3>5 DEF CanonicalSiteFindings
    <3>7. f.url = data[j].url
      BY <3>6 DEF If, F
    <3>8. j = i
      BY <3>4, <3>7
    <3> QED  BY <3>6, <3>8
  <2>5. ~(F("CanonicalLoop", p, NoURL) \in findings /\ F("CanonicalChain", p, NoURL) \in findings)
    BY DEF If, F
  <2>6. F("CanonicalLoop", p, NoURL) \in findings <=>
           c # NoURL /\ c # p /\ Known(c) # {} /\ ~Failed(target) /\ ~(target.redirects > 0) /\ Walk(p, c).loop
    <3> HIDE DEF c, target, p
    <3> QED  BY DEF If, F, p
  <2>7. Known(c) # {} => target.redirects \in Nat
    <3> SUFFICES ASSUME Known(c) # {} PROVE target.redirects \in Nat
      OBVIOUS
    <3>1. Known(c) \subseteq DOMAIN crawl.pages /\ Known(c) \subseteq 1 .. Len(crawl.pages) /\ Len(crawl.pages) \in Nat
      BY ReadyIs DEF Known
    <3>2. LastOf(Known(c)) \in Known(c)
      <4> HIDE DEF c
      <4> QED  BY <3>1, LastIs
    <3>3. target \in Response
      BY <3>1, <3>2, ReadyIs
    <3> QED  BY <3>3 DEF Response
  <2>8. sound => c # NoURL
    BY CanonicalIs
  <2>9. c = p => ~returns
    <3>1. \A n \in 1 .. maxCanonicalHops + 1 : 0 \in 0 .. n - 1
      BY HopsAssumption
    <3>2. Nth[0] = p /\ Nth[1] = c
      BY <2>3 DEF Leads
    <3> HIDE DEF p, c, Nth
    <3> QED  BY <3>1, <3>2
  <2>10. c # NoURL /\ c # p => (Walk(p, c).loop <=> returns)
    <3>1. c # NoURL => c \in PageURLs
      BY <2>1 DEF PageURLs
    <3> HIDE DEF p, c, Nth
    <3> QED  BY <2>1, <2>3, <3>1, WalkFindsLoops
  <2>11. target.redirects \in Nat => (~(target.redirects > 0) <=> target.redirects = 0)
    <3> HIDE DEF target
    <3> QED  OBVIOUS
  <2> HIDE DEF p, c, Nth, target, returns, findings, Has
  <2> QED  BY <2>4, <2>5, <2>6, <2>7, <2>8, <2>9, <2>10, <2>11
<1> QED  BY <1>1, TypedAlways, PTL

-----------------------------------------------------------------------------
(* The checks of one page. *)

(* A page without a jump has, before a heading, one of every level above. *)
LEMMA OutlineHolds == Typed => OutlineIsComplete
<1> SUFFICES ASSUME Typed, report.ready, NEW i \in Parsed,
                    F("HeadingHierarchy", data[i].url, NoURL) \notin report.findings
             PROVE  \A h \in DOMAIN data[i].headings : \A level \in 1 .. data[i].headings[h].level - 1 :
                        \E k \in 1 .. h - 1 : data[i].headings[k].level = level
  BY DEF OutlineIsComplete
<1> DEFINE s == data[i].headings
           n == Len(s)
           T == {h \in 0 .. n : h > 0 => \A level \in 1 .. s[h].level - 1 : \E k \in 1 .. h - 1 : s[k].level = level}
<1>1. s \in Seq(HeadingRecord)
  BY ReadyIs DEF ModelOf, PageModel
<1>2. n \in Nat /\ DOMAIN s = 1 .. n /\ \A k \in 1 .. n : s[k].level \in Nat
  <2>1. n \in Nat /\ DOMAIN s = 1 .. n /\ \A k \in 1 .. n : s[k] \in HeadingRecord
    BY <1>1, LenProperties, ElementOfSeq
  <2> QED  BY <2>1, SMTT(30) DEF HeadingRecord
<1>3. Jumps(data[i]) = {}
  <2> SUFFICES ASSUME Jumps(data[i]) # {} PROVE FALSE
    OBVIOUS
  <2>1. F("HeadingHierarchy", data[i].url, NoURL) \in HeadingFindings(data[i])
    <3>1. If(Jumps(data[i]) # {}, "HeadingHierarchy", data[i]) = {F("HeadingHierarchy", data[i].url, NoURL)}
      BY DEF If
    <3>2. If(Jumps(data[i]) # {}, "HeadingHierarchy", data[i]) \subseteq HeadingFindings(data[i])
      BY Zenon DEF HeadingFindings
    <3> QED  BY <3>1, <3>2
  <2>2. HeadingFindings(data[i]) \subseteq PageFindings(data[i], data[i].url = Start)
    BY DEF PageFindings
  <2> QED  BY <2>1, <2>2, FindingsAre, ReadyIs DEF ReportIs
<1>4. \A h \in 1 .. n : s[h].level <= 1 + (IF h = 1 THEN 0 ELSE s[h - 1].level)
  <2> TAKE h \in 1 .. n
  <2>1. ~(s[h].level > 1 + (IF h = 1 THEN 0 ELSE s[h - 1].level))
    BY <1>2, <1>3 DEF Jumps
  <2>2. CASE h = 1
    BY <1>2, <2>1, <2>2
  <2>3. CASE h # 1
    <3>1. h - 1 \in 1 .. n
      BY <1>2, <2>3
    <3> HIDE DEF s, n
    <3> QED  BY <1>2, <2>1, <2>3, <3>1
  <2> QED  BY <2>2, <2>3
<1> HIDE DEF s, n
<1>5. 0 \in T
  BY <1>2
<1>6. ASSUME NEW h \in 1 .. n, h - 1 \in T PROVE h \in T
  <2> SUFFICES ASSUME NEW level \in 1 .. s[h].level - 1 PROVE \E k \in 1 .. h - 1 : s[k].level = level
    BY <1>2
  <2>0. s[h].level \in Nat /\ h \in Nat
    BY <1>2
  <2>1. h # 1 /\ h - 1 \in 1 .. n
    BY <1>2, <1>4, <2>0
  <2>2. s[h - 1].level \in Nat /\ level <= s[h - 1].level
    BY <1>2, <1>4, <2>0, <2>1
  <2>3. CASE level = s[h - 1].level
    BY <2>0, <2>1, <2>3
  <2>4. CASE level # s[h - 1].level
    <3>1. level \in 1 .. s[h - 1].level - 1
      BY <2>0, <2>2, <2>4
    <3>2. \E k \in 1 .. (h - 1) - 1 : s[k].level = level
      BY <1>6, <2>1, <3>1
    <3>3. \A k \in 1 .. (h - 1) - 1 : k \in 1 .. h - 1
      BY <2>0
    <3> QED  BY <3>2, <3>3
  <2> QED  BY <2>3, <2>4
<1>7. 0 .. n \subseteq T
  <2> HIDE DEF T
  <2> QED  BY <1>2, <1>5, <1>6, UpTo
<1>8. ASSUME NEW h \in 1 .. n PROVE \A level \in 1 .. s[h].level - 1 : \E k \in 1 .. h - 1 : s[k].level = level
  <2>1. h \in T /\ h > 0
    BY <1>2, <1>7
  <2> QED  BY <2>1
<1> QED  BY <1>2, <1>8 DEF s

(* A page without a conflict names one URL for a language. *)
LEMMA AlternatesHold == Typed => AlternatesAgree
<1> SUFFICES ASSUME Typed, report.ready, NEW i \in Parsed,
                    \A f \in Found("HreflangConflict") : f.url # data[i].url
             PROVE  \A g, h \in ToSet(data[i].hreflangs) : g.lang.tag = h.lang.tag => g.href = h.href
  BY DEF AlternatesAgree
<1> DEFINE s == data[i].hreflangs
           n == Len(s)
           Bad == {k \in 1 .. n : \E j \in 1 .. k - 1 : s[j].lang.tag = s[k].lang.tag /\ s[j].href # s[k].href}
<1>1. n \in Nat /\ DOMAIN s = 1 .. n
  <2>1. s \in Seq([href : URLs, lang : Lang])
    BY ReadyIs DEF ModelOf, PageModel
  <2> QED  BY <2>1, LenProperties
<1>2. Conflicts(data[i]) = {}
  <2> SUFFICES ASSUME NEW k \in Conflicts(data[i]) PROVE FALSE
    OBVIOUS
  <2> DEFINE f == F("HreflangConflict", data[i].url, s[k].href)
  <2>1. f \in HreflangFindings(data[i])
    <3>1. ToSet(data[i].hreflangs) # {}
      BY DEF Conflicts, ToSet
    <3> QED  BY <3>1 DEF HreflangFindings
  <2>2. HreflangFindings(data[i]) \subseteq PageFindings(data[i], data[i].url = Start)
    BY DEF PageFindings
  <2>3. f \in report.findings
    BY <2>1, <2>2, FindingsAre, ReadyIs DEF ReportIs
  <2>4. f.rule = "HreflangConflict" /\ f.url = data[i].url
    BY DEF F
  <2> HIDE DEF f
  <2> QED  BY <2>3, <2>4 DEF Found
<1>3. \A k \in 1 .. n : ~\E j \in 1 .. k - 1 :
          /\ s[j].lang.tag = s[k].lang.tag /\ s[j].href # s[k].href
          /\ \A m \in j + 1 .. k - 1 : s[m].lang.tag # s[k].lang.tag
  BY <1>1, <1>2 DEF Conflicts
<1> HIDE DEF s, n
<1>4. Bad = {}
  <2> SUFFICES ASSUME Bad # {} PROVE FALSE
    OBVIOUS
  <2>1. Bad \subseteq Nat
    BY <1>1
  <2>2. Min(Bad) \in Bad /\ \A x \in Bad : Min(Bad) <= x
    <3> HIDE DEF Bad
    <3> QED  BY <2>1, LeastExists
  <2>3. PICK k \in Bad : \A x \in Bad : k <= x
    BY <2>2
  <2>4. k \in 1 .. n /\ k \in Nat /\ k - 1 \in Nat
    BY <1>1
  <2>5. PICK j \in 1 .. k - 1 : s[j].lang.tag = s[k].lang.tag /\ s[j].href # s[k].href
    OBVIOUS
  <2> DEFINE S == {m \in 1 .. k - 1 : s[m].lang.tag = s[k].lang.tag}
             m == LastOf(S)
  <2>6. j \in S /\ S \subseteq 1 .. k - 1
    BY <2>5
  <2>7. m \in S /\ \A x \in S : x <= m
    <3> HIDE DEF S
    <3> QED  BY <2>4, <2>6, LastIs
  <2>8. m \in 1 .. k - 1 /\ s[m].lang.tag = s[k].lang.tag
    BY <2>7
  <2>9. \A x \in m + 1 .. k - 1 : s[x].lang.tag # s[k].lang.tag
    <3> SUFFICES ASSUME NEW x \in m + 1 .. k - 1, s[x].lang.tag = s[k].lang.tag PROVE FALSE
      OBVIOUS
    <3>1. x \in 1 .. k - 1 /\ ~(x <= m)
      <4> HIDE DEF m
      <4> QED  BY <2>4, <2>8
    <3> QED  BY <2>7, <3>1
  <2>10. s[m].href = s[k].href
    BY <1>3, <2>4, <2>8, <2>9
  <2>11. j # m /\ j <= m
    BY <2>5, <2>6, <2>7, <2>10
  <2> HIDE DEF m
  <2>12. j \in 1 .. m - 1 /\ m \in 1 .. n /\ ~(k <= m)
    BY <1>1, <2>4, <2>5, <2>8, <2>11
  <2>13. m \in Bad
    BY <2>5, <2>8, <2>10, <2>12
  <2> QED  BY <2>3, <2>12, <2>13
<1>5. ASSUME NEW a \in 1 .. n, NEW b \in 1 .. n, s[a].lang.tag = s[b].lang.tag PROVE s[a].href = s[b].href
  <2>1. CASE a < b
    <3>1. a \in 1 .. b - 1
      BY <1>1, <2>1
    <3> QED  BY <1>4, <1>5, <3>1
  <2>2. CASE b < a
    <3>1. b \in 1 .. a - 1
      BY <1>1, <2>2
    <3> QED  BY <1>4, <1>5, <3>1
  <2>3. a = b \/ a < b \/ b < a
    BY <1>1
  <2> QED  BY <2>1, <2>2, <2>3
<1> QED  BY <1>1, <1>5 DEF s, ToSet

-----------------------------------------------------------------------------
(* Places in lists. *)

(* The place of a position grows with it, by one for a new last one. *)
LEMMA RankIs ==
    ASSUME NEW n \in Nat, NEW S, S \subseteq 1 .. n
    PROVE  /\ IsFiniteSet(S) /\ Cardinality(S) \in Nat
           /\ \A k \in S : Rank(S, k) \in 1 .. Cardinality(S)
           /\ \A k, l \in S : k < l => Rank(S, k) < Rank(S, l)
           /\ \A k \in S : Rank(S \cup {n + 1}, k) = Rank(S, k)
           /\ Cardinality(S \cup {n + 1}) = Cardinality(S) + 1 /\ Rank(S \cup {n + 1}, n + 1) = Cardinality(S) + 1
<1>1. IsFiniteSet(S) /\ Cardinality(S) \in Nat
  <2>1. IsFiniteSet(1 .. n)
    BY FS_Interval
  <2> QED  BY <2>1, FS_Subset, FS_CardinalityType
<1>2. ASSUME NEW k \in S
      PROVE  /\ IsFiniteSet({j \in S : j <= k}) /\ Rank(S, k) \in 1 .. Cardinality(S)
  <2> DEFINE R == {j \in S : j <= k}
  <2>1. R \in SUBSET S /\ k \in R
    OBVIOUS
  <2> HIDE DEF R
  <2>2. IsFiniteSet(R) /\ Cardinality(R) <= Cardinality(S) /\ Cardinality(R) \in Nat /\ Cardinality(R) # 0
    BY <1>1, <2>1, FS_Subset, FS_CardinalityType, FS_EmptySet
  <2>3. Cardinality(R) \in 1 .. Cardinality(S)
    BY <1>1, <2>2
  <2> QED  BY <2>2, <2>3 DEF R, Rank
<1>3. ASSUME NEW k \in S, NEW l \in S, k < l PROVE Rank(S, k) < Rank(S, l)
  <2> DEFINE A == {j \in S : j <= k}
             B == {j \in S : j <= l}
  <2>0. k \in Int /\ l \in Int /\ \A j \in S : j \in Int
    OBVIOUS
  <2>1. A \in SUBSET B /\ l \in B /\ l \notin A
    <3>1. \A j \in S : j <= k => j <= l
      BY <1>3, <2>0
    <3>2. ~(l <= k) /\ l <= l
      BY <1>3, <2>0
    <3> QED  BY <3>1, <3>2
  <2>2. IsFiniteSet(B)
    BY <1>2
  <2> HIDE DEF A, B
  <2>3. Cardinality(A) <= Cardinality(B) /\ Cardinality(A) # Cardinality(B)
    BY <2>1, <2>2, FS_Subset
  <2>4. Cardinality(A) \in Nat /\ Cardinality(B) \in Nat
    BY <2>1, <2>2, FS_Subset, FS_CardinalityType
  <2>5. Cardinality(A) < Cardinality(B)
    BY <2>3, <2>4
  <2> QED  BY <2>5 DEF A, B, Rank
<1>4. ASSUME NEW k \in S PROVE Rank(S \cup {n + 1}, k) = Rank(S, k)
  <2>1. {j \in S \cup {n + 1} : j <= k} = {j \in S : j <= k}
    OBVIOUS
  <2> QED  BY <2>1 DEF Rank
<1>5. Cardinality(S \cup {n + 1}) = Cardinality(S) + 1 /\ Rank(S \cup {n + 1}, n + 1) = Cardinality(S) + 1
  <2>1. n + 1 \notin S
    OBVIOUS
  <2>2. Cardinality(S \cup {n + 1}) = Cardinality(S) + 1
    BY <1>1, <2>1, FS_AddElement
  <2>3. {j \in S \cup {n + 1} : j <= n + 1} = S \cup {n + 1}
    <3>1. \A j \in S \cup {n + 1} : j <= n + 1
      OBVIOUS
    <3> QED  BY <3>1
  <2> QED  BY <2>2, <2>3 DEF Rank
<1> QED  BY <1>1, <1>2, <1>3, <1>4, <1>5

\* s holds the items of S, and each of its places is that of one of them.
Lists(s, f, S, limit) ==
    Holds(s, f, S, limit) /\ \A j \in 1 .. Len(s) : \E k \in S : Rank(S, k) = j

(* The next item comes last in the list, unless it is full. *)
LEMMA ListsNext ==
    ASSUME NEW V, NEW s \in Seq(V), NEW f, NEW n \in Nat, NEW S, S \subseteq 1 .. n, NEW limit \in Nat,
           Lists(s, f, S, limit), NEW v \in V, v = f[n + 1]
    PROVE  Lists(IF Len(s) < limit THEN Append(s, v) ELSE s, f, S \cup {n + 1}, limit)
<1> DEFINE C == Cardinality(S)
           S1 == S \cup {n + 1}
<1>0. /\ C \in Nat /\ Cardinality(S1) = C + 1 /\ Rank(S1, n + 1) = C + 1
      /\ \A k \in S : Rank(S, k) \in 1 .. C /\ Rank(S1, k) = Rank(S, k)
  <2>1. C \in Nat /\ Cardinality(S1) = C + 1 /\ Rank(S1, n + 1) = C + 1
    BY RankIs
  <2>2. \A k \in S : Rank(S, k) \in 1 .. Cardinality(S)
    BY RankIs
  <2>3. \A k \in S : Rank(S \cup {n + 1}, k) = Rank(S, k)
    BY RankIs
  <2> QED  BY <2>1, <2>2, <2>3
<1>1. /\ Len(s) = IF C < limit THEN C ELSE limit
      /\ \A k \in S : Rank(S, k) <= limit => s[Rank(S, k)] = f[k]
      /\ \A j \in 1 .. Len(s) : \E k \in S : Rank(S, k) = j
  BY DEF Lists, Holds
<1> HIDE DEF C
<1>2. CASE Len(s) < limit
  <2>1. C < limit /\ Len(s) = C
    BY <1>0, <1>1, <1>2
  <2> DEFINE t == Append(s, v)
  <2>2. Len(t) = C + 1 /\ (\A k \in 1 .. C : t[k] = s[k]) /\ t[C + 1] = v
    BY <2>1, AppendProperties
  <2> HIDE DEF t
  <2>3. Len(t) = IF Cardinality(S1) < limit THEN Cardinality(S1) ELSE limit
    BY <1>0, <2>1, <2>2
  <2>4. \A k \in S1 : Rank(S1, k) <= limit => t[Rank(S1, k)] = f[k]
    <3> TAKE k \in S1
    <3>1. CASE k = n + 1
      BY <1>0, <2>2, <3>1
    <3>2. CASE k \in S
      <4>1. Rank(S1, k) = Rank(S, k) /\ Rank(S, k) \in 1 .. C
        BY <1>0, <3>2
      <4> HIDE DEF S1
      <4> QED  BY <1>1, <2>2, <3>2, <4>1
    <3> QED  BY <3>1, <3>2
  <2>5. \A j \in 1 .. Len(t) : \E k \in S1 : Rank(S1, k) = j
    <3> TAKE j \in 1 .. Len(t)
    <3>1. CASE j = C + 1
      BY <1>0, <3>1
    <3>2. CASE j # C + 1
      <4>1. j \in 1 .. C
        BY <1>0, <2>2, <3>2
      <4>2. PICK k \in S : Rank(S, k) = j
        BY <1>1, <2>1, <4>1
      <4> QED  BY <1>0, <4>2
    <3> QED  BY <3>1, <3>2
  <2> QED  BY <1>2, <2>3, <2>4, <2>5 DEF Lists, Holds, t
<1>3. CASE ~(Len(s) < limit)
  <2>1. Len(s) = limit /\ ~(C < limit)
    BY <1>0, <1>1, <1>3
  <2>2. Len(s) = IF Cardinality(S1) < limit THEN Cardinality(S1) ELSE limit
    BY <1>0, <2>1
  <2>3. \A k \in S1 : Rank(S1, k) <= limit => s[Rank(S1, k)] = f[k]
    <3> TAKE k \in S1
    <3>1. CASE k = n + 1
      BY <1>0, <2>1, <3>1
    <3>2. CASE k \in S
      BY <1>0, <1>1, <3>2
    <3> QED  BY <3>1, <3>2
  <2>4. \A j \in 1 .. Len(s) : \E k \in S1 : Rank(S1, k) = j
    <3> TAKE j \in 1 .. Len(s)
    <3>1. PICK k \in S : Rank(S, k) = j
      BY <1>1
    <3> QED  BY <1>0, <3>1
  <2> QED  BY <1>3, <2>2, <2>3, <2>4 DEF Lists, Holds
<1> QED  BY <1>2, <1>3

(* A list as the next item leaves it, whether it is one of the list or not. *)
LEMMA ListsStep ==
    ASSUME NEW V, NEW s \in Seq(V), NEW f, NEW n \in Nat, NEW S, S \subseteq 1 .. n, NEW limit \in Nat,
           Lists(s, f, S, limit), NEW b \in BOOLEAN, NEW v, b => v \in V /\ v = f[n + 1],
           NEW S1, S1 = IF b THEN S \cup {n + 1} ELSE S
    PROVE  Lists(IF b /\ Len(s) < limit THEN Append(s, v) ELSE s, f, S1, limit)
<1>1. CASE b
  <2>1. Lists(IF Len(s) < limit THEN Append(s, v) ELSE s, f, S \cup {n + 1}, limit)
    BY <1>1, ListsNext
  <2> QED  BY <1>1, <2>1
<1>2. CASE ~b
  BY <1>2
<1> QED  BY <1>1, <1>2

(* An empty list holds the items of an empty set. *)
LEMMA ListsNone ==
    ASSUME NEW f, NEW limit \in Nat
    PROVE  Lists(<<>>, f, {}, limit)
<1>1. Cardinality({}) = 0 /\ Len(<<>>) = 0
  BY FS_EmptySet
<1>2. 1 .. 0 = {}
  OBVIOUS
<1> QED  BY <1>1, <1>2 DEF Lists, Holds

-----------------------------------------------------------------------------
(* What is read of a page. *)

\* The record of an item of a response.
Base(r) == SetBase(r.url, r.elements)
LinkIn(r, e) ==
    LET url == Resolve(Base(r), e.href)
    IN [url |-> url, external |-> External(url), resource |-> Resource(url), nofollow |-> e.nofollow, text |-> e.text]
ImageIn(r, e) ==
    LET url == Resolve(Base(r), e.href)
    IN [url |-> url, external |-> External(url), alt |-> e.alt, sized |-> e.sized, loading |-> e.loading]
CanonicalIn(r, e) ==
    [url |-> IF e.href = NoURL THEN NoURL ELSE Resolve(Base(r), e.href),
     source |-> IF e.tag = "link" THEN "header" ELSE "html",
     relative |-> e.href.site = "" /\ e.href # NoURL, inHead |-> IF e.tag = "link" THEN TRUE ELSE e.inHead]

\* The items of a list among the first n.
LinksTo(r, n) == {k \in 1 .. n : IsLink(Items(r)[k])}
ImagesTo(r, n) == {k \in 1 .. n : IsImage(Items(r)[k])}
CanonicalsTo(r, n) == {k \in 1 .. n : IsCanonical(Items(r)[k])}
SourcesTo(r, n) == {k \in 1 .. n : IsSource(Items(r)[k])}
AppliedTo(r, n) ==
    {j \in SourcesTo(r, n) : Rank(SourcesTo(r, n), j) <= maxRobotsSources /\ isAppliedAgent(SourceItem(Items(r)[j]).agent)}
GivenTo(r, n) == UNION {ToSet(Items(r)[j].value) : j \in AppliedTo(r, n)}

\* The lists of a page of which the first n items were read.
Recorded(p, r, n) ==
    /\ Lists(p.links, [k \in DOMAIN Items(r) |-> LinkIn(r, Items(r)[k])], LinksTo(r, n), MaxLinks)
    /\ Lists(p.images, [k \in DOMAIN Items(r) |-> ImageIn(r, Items(r)[k])], ImagesTo(r, n), MaxImages)
    /\ Lists(p.canonicals, [k \in DOMAIN Items(r) |-> CanonicalIn(r, Items(r)[k])], CanonicalsTo(r, n), MaxCanonicals)
    /\ Lists(p.robots.sources, [k \in DOMAIN Items(r) |-> SourceItem(Items(r)[k])], SourcesTo(r, n), maxRobotsSources)

\* A robots model that merges the directives of a set.
Snippets(D) == {d.n : d \in {e \in D : e.key = "max-snippet" /\ e.n >= -1}}
Previews(D) == {d.n : d \in {e \in D : e.key = "max-image-preview" /\ e.n \in 0 .. 2}}
Merged(m, D) ==
    /\ m.noindex = (\E d \in D : d.key \in {"noindex", "none"})
    /\ m.nofollow = (\E d \in D : d.key \in {"nofollow", "none"})
    /\ \/ m.maxSnippet = NotSet /\ Snippets(D) = {}
       \/ m.maxSnippet = -1 /\ Snippets(D) = {-1}
       \/ m.maxSnippet # -1 /\ m.maxSnippet \in Snippets(D) /\ \A n \in Snippets(D) : n = -1 \/ m.maxSnippet <= n
    /\ \/ m.preview = NotSet /\ Previews(D) = {}
       \/ m.preview \in Previews(D) /\ \A n \in Previews(D) : m.preview <= n
\* The directives of the first n items, but for those to be applied yet.
Merges(p, r, n, ds) ==
    \E D \in SUBSET RobotsDirective : Merged(p.robots, D) /\ D \cup ToSet(ds) = GivenTo(r, n)

\* What the pages hold of their responses.
Recording ==
    /\ response # NoResponse =>
           Recorded(page, response, visited) /\ Merges(page, response, visited, directives)
    /\ \A i \in Parsed :
           LET n == Len(Items(Entry(i))) IN Recorded(data[i], Entry(i), n) /\ Merges(data[i], Entry(i), n, <<>>)

(* One more directive is merged. *)
LEMMA MergedNext ==
    ASSUME NEW m \in RobotsModel, NEW D \in SUBSET RobotsDirective, Merged(m, D), NEW d \in RobotsDirective
    PROVE  Merged(Apply(m, d), D \cup {d})
<1> DEFINE new == Apply(m, d)
           E == D \cup {d}
<1>1. /\ new.noindex = (m.noindex \/ d.key \in {"noindex", "none"})
      /\ new.nofollow = (m.nofollow \/ d.key \in {"nofollow", "none"})
      /\ new.maxSnippet = IF d.key = "max-snippet" /\ d.n >= -1 THEN Stricter(m.maxSnippet, d.n) ELSE m.maxSnippet
      /\ new.preview = IF d.key = "max-image-preview" /\ d.n \in 0 .. 2 /\ (m.preview = NotSet \/ d.n < m.preview)
                       THEN d.n ELSE m.preview
  BY ApplyIs
<1>2. d.n \in Int /\ \A e \in D : e.n \in Int
  BY DEF RobotsDirective
<1>3. Snippets(D) \subseteq Int /\ Previews(D) \subseteq Int /\ \A x \in Snippets(D) : x >= -1
  BY <1>2 DEF Snippets, Previews
<1>4. Snippets(E) = IF d.key = "max-snippet" /\ d.n >= -1 THEN Snippets(D) \cup {d.n} ELSE Snippets(D)
  BY DEF Snippets
<1>5. Previews(E) = IF d.key = "max-image-preview" /\ d.n \in 0 .. 2 THEN Previews(D) \cup {d.n} ELSE Previews(D)
  BY DEF Previews
<1>5a. \A x \in Previews(D) : x \in 0 .. 2
  BY DEF Previews
<1>6. m.maxSnippet \in Int /\ m.preview \in Int
  BY DEF RobotsModel
<1> HIDE DEF new, RobotsModel, RobotsDirective
<1>7. /\ new.noindex = (\E e \in E : e.key \in {"noindex", "none"})
      /\ new.nofollow = (\E e \in E : e.key \in {"nofollow", "none"})
  BY <1>1 DEF Merged
<1> HIDE DEF E
<1>8. \/ new.maxSnippet = NotSet /\ Snippets(E) = {}
      \/ new.maxSnippet = -1 /\ Snippets(E) = {-1}
      \/ new.maxSnippet # -1 /\ new.maxSnippet \in Snippets(E) /\ \A n \in Snippets(E) : n = -1 \/ new.maxSnippet <= n
  <2>1. \/ m.maxSnippet = NotSet /\ Snippets(D) = {}
        \/ m.maxSnippet = -1 /\ Snippets(D) = {-1}
        \/ m.maxSnippet # -1 /\ m.maxSnippet \in Snippets(D) /\ \A n \in Snippets(D) : n = -1 \/ m.maxSnippet <= n
    BY DEF Merged
  <2>2. CASE ~(d.key = "max-snippet" /\ d.n >= -1)
    BY <1>1, <1>4, <2>1, <2>2
  <2>3. CASE d.key = "max-snippet" /\ d.n >= -1
    <3>1. new.maxSnippet = Stricter(m.maxSnippet, d.n) /\ Snippets(E) = Snippets(D) \cup {d.n}
      BY <1>1, <1>4, <2>3
    <3>2. CASE m.maxSnippet = NotSet /\ Snippets(D) = {}
      BY <1>2, <3>1, <3>2 DEF Stricter
    <3>3. CASE m.maxSnippet = -1 /\ Snippets(D) = {-1}
      BY <1>2, <2>3, <3>1, <3>3 DEF Stricter, NotSet
    <3>4. CASE m.maxSnippet # -1 /\ m.maxSnippet \in Snippets(D) /\ \A n \in Snippets(D) : n = -1 \/ m.maxSnippet <= n
      <4>1. m.maxSnippet # NotSet
        BY <1>3, <3>4 DEF NotSet
      <4>2. CASE d.n # -1 /\ d.n < m.maxSnippet
        <5>1. new.maxSnippet = d.n
          BY <3>1, <4>2 DEF Stricter
        <5>2. \A n \in Snippets(D) : n = -1 \/ d.n <= n
          BY <1>2, <1>3, <1>6, <3>4, <4>2
        <5> QED  BY <1>2, <3>1, <4>2, <5>1, <5>2
      <4>3. CASE ~(d.n # -1 /\ d.n < m.maxSnippet)
        <5>1. new.maxSnippet = m.maxSnippet
          BY <3>1, <3>4, <4>1, <4>3 DEF Stricter
        <5>2. d.n = -1 \/ m.maxSnippet <= d.n
          BY <1>2, <1>6, <4>3
        <5> QED  BY <3>1, <3>4, <5>1, <5>2
      <4> QED  BY <4>2, <4>3
    <3> QED  BY <2>1, <3>2, <3>3, <3>4
  <2> QED  BY <2>2, <2>3
<1>9. \/ new.preview = NotSet /\ Previews(E) = {}
      \/ new.preview \in Previews(E) /\ \A n \in Previews(E) : new.preview <= n
  <2>1. \/ m.preview = NotSet /\ Previews(D) = {}
        \/ m.preview \in Previews(D) /\ \A n \in Previews(D) : m.preview <= n
    BY DEF Merged
  <2>2. CASE ~(d.key = "max-image-preview" /\ d.n \in 0 .. 2)
    BY <1>1, <1>5, <2>1, <2>2
  <2>3. CASE d.key = "max-image-preview" /\ d.n \in 0 .. 2
    <3>1. Previews(E) = Previews(D) \cup {d.n} /\ new.preview = IF m.preview = NotSet \/ d.n < m.preview THEN d.n ELSE m.preview
      BY <1>1, <1>5, <2>3
    <3>2. CASE m.preview = NotSet /\ Previews(D) = {}
      BY <1>2, <3>1, <3>2
    <3>3. CASE m.preview \in Previews(D) /\ \A n \in Previews(D) : m.preview <= n
      <4>1. m.preview # NotSet
        BY <1>5a, <3>3 DEF NotSet
      <4> QED  BY <1>2, <1>3, <1>6, <3>1, <3>3, <4>1
    <3> QED  BY <2>1, <3>2, <3>3
  <2> QED  BY <2>2, <2>3
<1> QED  BY <1>7, <1>8, <1>9 DEF Merged, E, new

(* The items of the lists among one more. *)
LEMMA OneItemMore ==
    ASSUME NEW r, NEW n \in Nat
    PROVE  LET e == Items(r)[n + 1] IN
           /\ LinksTo(r, n + 1) = IF IsLink(e) THEN LinksTo(r, n) \cup {n + 1} ELSE LinksTo(r, n)
           /\ ImagesTo(r, n + 1) = IF IsImage(e) THEN ImagesTo(r, n) \cup {n + 1} ELSE ImagesTo(r, n)
           /\ CanonicalsTo(r, n + 1) = IF IsCanonical(e) THEN CanonicalsTo(r, n) \cup {n + 1} ELSE CanonicalsTo(r, n)
           /\ SourcesTo(r, n + 1) = IF IsSource(e) THEN SourcesTo(r, n) \cup {n + 1} ELSE SourcesTo(r, n)
<1>1. 1 .. n + 1 = (1 .. n) \cup {n + 1}
  OBVIOUS
<1>2. LinksTo(r, n + 1) = IF IsLink(Items(r)[n + 1]) THEN LinksTo(r, n) \cup {n + 1} ELSE LinksTo(r, n)
  BY <1>1 DEF LinksTo
<1>3. ImagesTo(r, n + 1) = IF IsImage(Items(r)[n + 1]) THEN ImagesTo(r, n) \cup {n + 1} ELSE ImagesTo(r, n)
  BY <1>1 DEF ImagesTo
<1>4. CanonicalsTo(r, n + 1)
      = IF IsCanonical(Items(r)[n + 1]) THEN CanonicalsTo(r, n) \cup {n + 1} ELSE CanonicalsTo(r, n)
  BY <1>1 DEF CanonicalsTo
<1>5. SourcesTo(r, n + 1) = IF IsSource(Items(r)[n + 1]) THEN SourcesTo(r, n) \cup {n + 1} ELSE SourcesTo(r, n)
  BY <1>1 DEF SourcesTo
<1> QED  BY <1>2, <1>3, <1>4, <1>5

(* The directives of one more item. *)
LEMMA GivenNext ==
    ASSUME NEW r, NEW n \in Nat
    PROVE  LET e == Items(r)[n + 1]
               more == /\ IsSource(e) /\ Cardinality(SourcesTo(r, n)) < maxRobotsSources
                       /\ isAppliedAgent(SourceItem(e).agent) IN
           GivenTo(r, n + 1) = GivenTo(r, n) \cup IF more THEN ToSet(e.value) ELSE {}
<1> DEFINE e == Items(r)[n + 1]
           S == SourcesTo(r, n)
           S1 == SourcesTo(r, n + 1)
           C == Cardinality(S)
           more == /\ IsSource(e) /\ C < maxRobotsSources /\ isAppliedAgent(SourceItem(e).agent)
<1>1. S \subseteq 1 .. n
  BY DEF SourcesTo
<1>2. S1 = IF IsSource(e) THEN S \cup {n + 1} ELSE S
  BY OneItemMore
<1>3. C \in Nat /\ Rank(S \cup {n + 1}, n + 1) = C + 1 /\ n + 1 \notin S
  <2>1. n + 1 \notin S
    BY <1>1
  <2> HIDE DEF S
  <2>2. C \in Nat /\ Rank(S \cup {n + 1}, n + 1) = C + 1
    BY <1>1, RankIs
  <2> QED  BY <2>1, <2>2
<1>4. \A k \in S : Rank(S \cup {n + 1}, k) = Rank(S, k)
  BY <1>1, RankIs
<1>5. maxRobotsSources \in Nat
  BY PageLimitsAssumption
<1>6. AppliedTo(r, n) = {j \in S : Rank(S, j) <= maxRobotsSources /\ isAppliedAgent(SourceItem(Items(r)[j]).agent)}
  BY DEF AppliedTo
<1>7. AppliedTo(r, n + 1) = {j \in S1 : Rank(S1, j) <= maxRobotsSources /\ isAppliedAgent(SourceItem(Items(r)[j]).agent)}
  BY DEF AppliedTo
<1> HIDE DEF S, S1, C
<1>8. AppliedTo(r, n + 1) = AppliedTo(r, n) \cup IF more THEN {n + 1} ELSE {}
  <2>1. CASE ~IsSource(e)
    BY <1>2, <1>6, <1>7, <2>1
  <2>2. CASE IsSource(e)
    <3>1. S1 = S \cup {n + 1}
      BY <1>2, <2>2
    <3>2. \A k \in S : k \in AppliedTo(r, n + 1) <=> k \in AppliedTo(r, n)
      BY <1>4, <1>6, <1>7, <3>1
    <3>3. C + 1 <= maxRobotsSources <=> C < maxRobotsSources
      BY <1>3, <1>5
    <3>4. n + 1 \in AppliedTo(r, n + 1) <=> more
      BY <1>3, <1>7, <2>2, <3>1, <3>3
    <3>5. AppliedTo(r, n) \subseteq S /\ AppliedTo(r, n + 1) \subseteq S \cup {n + 1}
      BY <1>6, <1>7, <3>1
    <3> HIDE DEF more
    <3> QED  BY <1>3, <3>2, <3>4, <3>5
  <2> QED  BY <2>1, <2>2
<1> HIDE DEF more
<1>9. GivenTo(r, n + 1) = GivenTo(r, n) \cup IF more THEN ToSet(e.value) ELSE {}
  BY <1>8 DEF GivenTo
<1> QED  BY <1>9 DEF more, C, S

(* A step that takes an item records it, if it is to be recorded. *)
LEMMA ItemRecorded ==
    ASSUME CrawlTyped, Reading, response # NoResponse, TakesItem, Recorded(page, response, visited)
    PROVE  Recorded(page', response, visited + 1)
<1> HIDE DEF URLs, LinkRecord, ImageRecord, CanonicalRecord, HeadingRecord, Lang, AnyItem
<1> DEFINE r == response
           n == visited
           e == Item
<1>1. /\ e \in AnyItem /\ n + 1 \in 1 .. Len(Items(r)) /\ r \in Response /\ e = Items(r)[n + 1]
      /\ DOMAIN Items(r) = 1 .. Len(Items(r)) /\ Len(Items(r)) \in Nat
  BY ItemIs, ItemsAre DEF TakesItem, Item
<1>2. n \in Nat /\ page \in PageModel /\ page.base = Base(r) /\ n + 1 \in DOMAIN Items(r)
  BY <1>1 DEF Reading, ModelOf, Base
<1>3. /\ page.links \in Seq(LinkRecord) /\ page.images \in Seq(ImageRecord) /\ page.canonicals \in Seq(CanonicalRecord)
      /\ page.robots \in RobotsModel
  BY <1>2 DEF PageModel
<1>3a. page.robots.sources \in Seq([source : {"meta", "header"}, agent : Texts])
  BY <1>3 DEF RobotsModel
<1>4. MaxLinks \in Nat /\ MaxImages \in Nat /\ MaxCanonicals \in Nat /\ maxRobotsSources \in Nat
  BY PageLimitsAssumption
<1>5. /\ LinksTo(r, n) \subseteq 1 .. n /\ ImagesTo(r, n) \subseteq 1 .. n /\ CanonicalsTo(r, n) \subseteq 1 .. n
      /\ SourcesTo(r, n) \subseteq 1 .. n
  BY DEF LinksTo, ImagesTo, CanonicalsTo, SourcesTo
<1>6. /\ IsLink(e) => LinkOf(e) \in LinkRecord
      /\ IsImage(e) => ImageOf(e) \in ImageRecord
      /\ IsCanonical(e) => CanonicalItem(e) \in CanonicalRecord
      /\ IsSource(e) => SourceItem(e) \in [source : {"meta", "header"}, agent : Texts]
  <2> USE <1>1, <1>2
  <2>1. IsLink(e) => LinkOf(e) \in LinkRecord
    BY RecordsAre DEF IsLink
  <2>2. IsImage(e) => ImageOf(e) \in ImageRecord
    BY RecordsAre DEF IsImage
  <2>3. IsCanonical(e) => CanonicalItem(e) \in CanonicalRecord
    BY RecordsAre DEF IsCanonical
  <2>4. IsSource(e) => SourceItem(e) \in [source : {"meta", "header"}, agent : Texts]
    BY RecordsAre DEF IsSource
  <2> QED  BY <2>1, <2>2, <2>3, <2>4
<1>7. LinkOf(e) = LinkIn(r, e) /\ ImageOf(e) = ImageIn(r, e)
  BY <1>2 DEF LinkOf, LinkIn, ImageOf, ImageIn
<1>8. CanonicalItem(e) = CanonicalIn(r, e)
  <2>1. e.tag = "link" => CanonicalItem(e) = CanonicalIn(r, e)
    BY <1>2, Zenon DEF CanonicalItem, CanonicalOf, CanonicalIn
  <2>2. e.tag # "link" => CanonicalItem(e) = CanonicalIn(r, e)
    BY <1>2, Zenon DEF CanonicalItem, CanonicalOf, CanonicalIn
  <2> QED  BY <2>1, <2>2
<1> DEFINE fl == [k \in DOMAIN Items(r) |-> LinkIn(r, Items(r)[k])]
           fi == [k \in DOMAIN Items(r) |-> ImageIn(r, Items(r)[k])]
           fc == [k \in DOMAIN Items(r) |-> CanonicalIn(r, Items(r)[k])]
           fs == [k \in DOMAIN Items(r) |-> SourceItem(Items(r)[k])]
<1>9. fl[n + 1] = LinkOf(e) /\ fi[n + 1] = ImageOf(e) /\ fc[n + 1] = CanonicalItem(e) /\ fs[n + 1] = SourceItem(e)
  BY <1>1, <1>2, <1>7, <1>8
<1>10. /\ Lists(page.links, fl, LinksTo(r, n), MaxLinks) /\ Lists(page.images, fi, ImagesTo(r, n), MaxImages)
       /\ Lists(page.canonicals, fc, CanonicalsTo(r, n), MaxCanonicals)
       /\ Lists(page.robots.sources, fs, SourcesTo(r, n), maxRobotsSources)
  BY DEF Recorded
<1> HIDE DEF fl, fi, fc, fs
<1>11. /\ IsLink(e) \in BOOLEAN /\ IsImage(e) \in BOOLEAN /\ IsCanonical(e) \in BOOLEAN /\ IsSource(e) \in BOOLEAN
  BY DEF IsLink, IsImage, IsCanonical, IsSource
<1>12. /\ LinksTo(r, n + 1) = IF IsLink(e) THEN LinksTo(r, n) \cup {n + 1} ELSE LinksTo(r, n)
       /\ ImagesTo(r, n + 1) = IF IsImage(e) THEN ImagesTo(r, n) \cup {n + 1} ELSE ImagesTo(r, n)
       /\ CanonicalsTo(r, n + 1) = IF IsCanonical(e) THEN CanonicalsTo(r, n) \cup {n + 1} ELSE CanonicalsTo(r, n)
       /\ SourcesTo(r, n + 1) = IF IsSource(e) THEN SourcesTo(r, n) \cup {n + 1} ELSE SourcesTo(r, n)
  BY <1>1, <1>2, OneItemMore
<1> HIDE DEF e, n, r
<1>13. Lists(IF IsLink(e) /\ Len(page.links) < MaxLinks THEN Append(page.links, LinkOf(e)) ELSE page.links,
             fl, LinksTo(r, n + 1), MaxLinks)
  BY <1>2, <1>3, <1>4, <1>5, <1>6, <1>9, <1>10, <1>11, <1>12, ListsStep, ZenonT(40)
<1>14. Lists(IF IsImage(e) /\ Len(page.images) < MaxImages THEN Append(page.images, ImageOf(e)) ELSE page.images,
             fi, ImagesTo(r, n + 1), MaxImages)
  BY <1>2, <1>3, <1>4, <1>5, <1>6, <1>9, <1>10, <1>11, <1>12, ListsStep
<1>15. Lists(IF IsCanonical(e) /\ Len(page.canonicals) < MaxCanonicals
             THEN Append(page.canonicals, CanonicalItem(e)) ELSE page.canonicals, fc, CanonicalsTo(r, n + 1), MaxCanonicals)
  BY <1>2, <1>3, <1>4, <1>5, <1>6, <1>9, <1>10, <1>11, <1>12, ListsStep
<1>16. Lists(IF IsSource(e) /\ Len(page.robots.sources) < maxRobotsSources
             THEN Append(page.robots.sources, SourceItem(e)) ELSE page.robots.sources,
             fs, SourcesTo(r, n + 1), maxRobotsSources)
  BY <1>2, <1>3a, <1>4, <1>5, <1>6, <1>9, <1>10, <1>11, <1>12, ListsStep, ZenonT(40)
<1>17. /\ page'.links = IF IsLink(e) /\ Len(page.links) < MaxLinks THEN Append(page.links, LinkOf(e)) ELSE page.links
       /\ page'.images = IF IsImage(e) /\ Len(page.images) < MaxImages THEN Append(page.images, ImageOf(e)) ELSE page.images
       /\ page'.canonicals = IF IsCanonical(e) /\ Len(page.canonicals) < MaxCanonicals
                             THEN Append(page.canonicals, CanonicalItem(e)) ELSE page.canonicals
       /\ page'.robots = IF IsSource(e) /\ Room THEN [page.robots EXCEPT !.sources = Append(@, SourceItem(e))]
                         ELSE page.robots
  BY DEF TakesItem, e
<1>18. page'.robots.sources = IF IsSource(e) /\ Len(page.robots.sources) < maxRobotsSources
                              THEN Append(page.robots.sources, SourceItem(e)) ELSE page.robots.sources
  BY <1>3, <1>17 DEF Room, RobotsModel
<1> QED  BY <1>13, <1>14, <1>15, <1>16, <1>17, <1>18 DEF Recorded, fl, fi, fc, fs, n, r

(* A step that takes an item keeps what is to be merged. *)
LEMMA ItemMerges ==
    ASSUME CrawlTyped, Reading, response # NoResponse, TakesItem, Recorded(page, response, visited),
           Merges(page, response, visited, directives)
    PROVE  Merges(page', response, visited + 1, directives')
<1> DEFINE r == response
           n == visited
           e == Item
           more == /\ IsSource(e) /\ Cardinality(SourcesTo(r, n)) < maxRobotsSources
                   /\ isAppliedAgent(SourceItem(e).agent)
<1>1. e = Items(r)[n + 1] /\ n \in Nat /\ page.robots \in RobotsModel
  BY DEF Item, Reading, ModelOf, PageModel
<1>2. GivenTo(r, n + 1) = GivenTo(r, n) \cup IF more THEN ToSet(e.value) ELSE {}
  BY <1>1, GivenNext
<1>3. Room <=> Cardinality(SourcesTo(r, n)) < maxRobotsSources
  <2>1. Lists(page.robots.sources, [k \in DOMAIN Items(r) |-> SourceItem(Items(r)[k])], SourcesTo(r, n), maxRobotsSources)
    BY DEF Recorded
  <2>2. SourcesTo(r, n) \subseteq 1 .. n
    BY DEF SourcesTo
  <2>3. Cardinality(SourcesTo(r, n)) \in Nat
    BY <1>1, <2>2, RankIs
  <2>4. maxRobotsSources \in Nat
    BY PageLimitsAssumption
  <2>5. Len(page.robots.sources) = IF Cardinality(SourcesTo(r, n)) < maxRobotsSources
                                   THEN Cardinality(SourcesTo(r, n)) ELSE maxRobotsSources
    BY <2>1 DEF Lists, Holds
  <2> HIDE DEF r, n
  <2> QED  BY <2>3, <2>4, <2>5 DEF Room
<1>4. PICK D \in SUBSET RobotsDirective : Merged(page.robots, D) /\ D \cup ToSet(directives) = GivenTo(r, n)
  BY DEF Merges
<1>5. ToSet(<<>>) = {}
  BY DEF ToSet
<1>6. directives = <<>>
  BY DEF TakesItem
<1>7. D = GivenTo(r, n)
  BY <1>4, <1>5, <1>6
<1>8. directives' = IF more THEN e.value ELSE <<>>
  BY <1>3 DEF TakesItem
<1>9. D \cup ToSet(directives') = GivenTo(r, n + 1)
  <2> HIDE DEF more, e, r, n
  <2> QED  BY <1>2, <1>5, <1>7, <1>8
<1>10. Merged(page'.robots, D)
  <2>1. page'.robots = page.robots \/ page'.robots = [page.robots EXCEPT !.sources = Append(@, SourceItem(Item))]
    BY DEF TakesItem
  <2>2. /\ page'.robots.noindex = page.robots.noindex /\ page'.robots.nofollow = page.robots.nofollow
        /\ page'.robots.maxSnippet = page.robots.maxSnippet /\ page'.robots.preview = page.robots.preview
    BY <1>1, <2>1 DEF RobotsModel
  <2> QED  BY <1>4, <2>2 DEF Merged
<1> QED  BY <1>9, <1>10 DEF Merges

(* A step that takes a directive merges it. *)
LEMMA DirectiveMerges ==
    ASSUME Reading, response # NoResponse, TakesDirective, Merges(page, response, visited, directives)
    PROVE  Merges(page', response, visited, directives')
<1>1. /\ directives # <<>> /\ directives' = Tail(directives) /\ Head(directives) \in RobotsDirective
      /\ page'.robots = Apply(page.robots, Head(directives)) /\ directives \in Seq(RobotsDirective)
      /\ page.robots \in RobotsModel
  BY DEF TakesDirective, Reading, ModelOf, PageModel
<1>2. PICK D \in SUBSET RobotsDirective :
          Merged(page.robots, D) /\ D \cup ToSet(directives) = GivenTo(response, visited)
  BY DEF Merges
<1> HIDE DEF RobotsDirective, RobotsModel
<1>3. Merged(page'.robots, D \cup {Head(directives)})
  BY <1>1, <1>2, MergedNext
<1>4. ToSet(directives) = {Head(directives)} \cup ToSet(Tail(directives))
  <2>1. /\ DOMAIN directives = 1 .. Len(directives) /\ Len(directives) \in Nat /\ Len(directives) # 0
        /\ Len(Tail(directives)) = Len(directives) - 1 /\ Head(directives) = directives[1]
        /\ Tail(directives) \in Seq(RobotsDirective)
        /\ \A i \in 1 .. Len(Tail(directives)) : Tail(directives)[i] = directives[i + 1]
    BY <1>1, LenProperties, HeadTailProperties, EmptySeq
  <2>2. DOMAIN Tail(directives) = 1 .. Len(Tail(directives))
    BY <2>1, LenProperties
  <2> DEFINE s == directives
             t == Tail(directives)
             h == Head(directives)
  <2> HIDE DEF s, t, h
  <2>3. ASSUME NEW i \in 1 .. Len(s) PROVE s[i] \in {h} \cup ToSet(t)
    <3>1. CASE i = 1
      BY <2>1, <3>1 DEF s, h
    <3>2. CASE i # 1
      <4>1. i - 1 \in 1 .. Len(t) /\ (i - 1) + 1 = i
        BY <2>1, <3>2 DEF s, t
      <4>2. t[i - 1] = s[i]
        BY <2>1, <4>1 DEF s, t
      <4> QED  BY <2>2, <4>1, <4>2 DEF ToSet, t
    <3> QED  BY <3>1, <3>2
  <2>4. ASSUME NEW i \in 1 .. Len(t) PROVE t[i] \in ToSet(s)
    <3>1. i + 1 \in 1 .. Len(s) /\ t[i] = s[i + 1]
      BY <2>1 DEF s, t
    <3> QED  BY <2>1, <3>1 DEF ToSet, s
  <2>5. h \in ToSet(s)
    <3>1. 1 \in 1 .. Len(s) /\ h = s[1]
      BY <2>1 DEF s, h
    <3> QED  BY <2>1, <3>1 DEF ToSet, s
  <2>6. ToSet(s) = {h} \cup ToSet(t)
    BY <2>1, <2>2, <2>3, <2>4, <2>5 DEF ToSet, s, t
  <2> QED  BY <2>6 DEF s, t, h
<1>5. (D \cup {Head(directives)}) \cup ToSet(directives') = GivenTo(response, visited)
  BY <1>1, <1>2, <1>4
<1>6. D \cup {Head(directives)} \in SUBSET RobotsDirective
  BY <1>1
<1> QED  BY <1>3, <1>5, <1>6 DEF Merges

(* Of a page that was just opened, nothing was read. *)
LEMMA NothingRecorded ==
    ASSUME NEW r \in Response
    PROVE  Recorded(NewPage(r), r, 0) /\ Merges(NewPage(r), r, 0, <<>>)
<1>1. NewPage(r).links = <<>> /\ NewPage(r).images = <<>> /\ NewPage(r).canonicals = <<>> /\ NewPage(r).robots = NoRobots
  BY NewPageIs
<1>2. 1 .. 0 = {}
  OBVIOUS
<1>3. LinksTo(r, 0) = {} /\ ImagesTo(r, 0) = {} /\ CanonicalsTo(r, 0) = {} /\ SourcesTo(r, 0) = {}
  BY <1>2 DEF LinksTo, ImagesTo, CanonicalsTo, SourcesTo
<1>4. MaxLinks \in Nat /\ MaxImages \in Nat /\ MaxCanonicals \in Nat /\ maxRobotsSources \in Nat
  BY PageLimitsAssumption
<1>5. NoRobots.sources = <<>>
  BY DEF NoRobots
<1>6. Recorded(NewPage(r), r, 0)
  <2> DEFINE fl == [k \in DOMAIN Items(r) |-> LinkIn(r, Items(r)[k])]
             fi == [k \in DOMAIN Items(r) |-> ImageIn(r, Items(r)[k])]
             fc == [k \in DOMAIN Items(r) |-> CanonicalIn(r, Items(r)[k])]
             fs == [k \in DOMAIN Items(r) |-> SourceItem(Items(r)[k])]
  <2> HIDE DEF fl, fi, fc, fs
  <2>1. /\ Lists(<<>>, fl, {}, MaxLinks) /\ Lists(<<>>, fi, {}, MaxImages) /\ Lists(<<>>, fc, {}, MaxCanonicals)
        /\ Lists(<<>>, fs, {}, maxRobotsSources)
    BY <1>4, ListsNone
  <2> QED  BY <1>1, <1>3, <1>5, <2>1 DEF Recorded, fl, fi, fc, fs
<1>7. GivenTo(r, 0) = {}
  BY <1>3 DEF GivenTo, AppliedTo
<1>8. Merged(NoRobots, {})
  BY DEF Merged, NoRobots, Snippets, Previews
<1>9. {} \cup ToSet(<<>>) = GivenTo(r, 0)
  BY <1>7 DEF ToSet
<1> QED  BY <1>1, <1>6, <1>8, <1>9 DEF Merges

(* What the pages hold of their responses, from the first state on. *)
LEMMA RecordingNext == Typed /\ Recording /\ [Next]_vars => Recording'
<1> SUFFICES ASSUME Typed, Recording, [Next]_vars PROVE Recording'
  OBVIOUS
<1>0. CrawlTyped /\ Reading /\ ModelsTyped
  BY DEF Typed
<1>1. \A i \in 1 .. Len(crawl.pages) : Entry(i) \in Response /\ Entry(i) # NoResponse
  BY <1>0, EntryIs
<1> DEFINE Kept(p, c) == Recorded(p, c, Len(Items(c))) /\ Merges(p, c, Len(Items(c)), <<>>)
           Held(p, c, n, ds) == Recorded(p, c, n) /\ Merges(p, c, n, ds)
<1>2. (response # NoResponse => Held(page, response, visited, directives)) /\ \A i \in Parsed : Kept(data[i], Entry(i))
  BY DEF Recording
<1>3. SUFFICES /\ response' # NoResponse => Held(page', response', visited', directives')
               /\ \A i \in Parsed' : Kept(data'[i], crawl'.pages[i])
  BY DEF Recording, Entry
<1>4. Parsed = DOMAIN data /\ Parsed' = DOMAIN data' /\ \A i : Entry(i) = crawl.pages[i]
  BY DEF Parsed, Entry
<1> HIDE DEF Kept, Held
<1>5. CASE Take
  <2>1. /\ response = NoResponse /\ at < Len(crawl.pages) /\ crawl' = crawl /\ data' = data
        /\ IF Processed(Entry(at + 1)) /\ Entry(at + 1).parses THEN Open(Entry(at + 1)) ELSE UNCHANGED pageVars
    BY <1>5 DEF Take
  <2>2. response' = response \/ (response' = Entry(at + 1) /\ page' = NewPage(Entry(at + 1)) /\ visited' = 0 /\ directives' = <<>>)
    BY <2>1 DEF Open, pageVars
  <2>3. at + 1 \in 1 .. Len(crawl.pages)
    BY <1>0, <2>1, EntryIs DEF CrawlTyped
  <2>4. Held(NewPage(Entry(at + 1)), Entry(at + 1), 0, <<>>)
    BY <1>1, <2>3, NothingRecorded DEF Held
  <2> QED  BY <1>2, <1>4, <2>1, <2>2, <2>4
<1>6. CASE Read
  <2>1. response # NoResponse /\ ReadPage /\ crawl' = crawl /\ data' = data
    BY <1>6 DEF Read
  <2>2. Recorded(page, response, visited) /\ Merges(page, response, visited, directives)
    BY <1>2, <2>1 DEF Held
  <2>3. CASE TakesItem
    <3>1. response' = response /\ visited' = visited + 1
      BY <2>3 DEF TakesItem
    <3>2. Recorded(page', response, visited + 1) /\ Merges(page', response, visited + 1, directives')
      BY <1>0, <2>1, <2>2, <2>3, ItemRecorded, ItemMerges
    <3> QED  BY <1>2, <1>4, <2>1, <3>1, <3>2 DEF Held
  <2>4. CASE TakesDirective
    <3>1. /\ response' = response /\ visited' = visited /\ page'.links = page.links /\ page'.images = page.images
          /\ page'.canonicals = page.canonicals
      BY <2>4 DEF TakesDirective
    <3>2. page'.robots.sources = page.robots.sources
      BY <1>0, <2>1, <2>4, ApplyIs, SMTT(30) DEF TakesDirective, Reading, ModelOf, PageModel
    <3>3. Merges(page', response, visited, directives')
      BY <1>0, <2>1, <2>2, <2>4, DirectiveMerges
    <3>4. Recorded(page', response, visited)
      BY <2>2, <3>1, <3>2 DEF Recorded
    <3> QED  BY <1>2, <1>4, <2>1, <3>1, <3>3, <3>4 DEF Held
  <2> QED  BY <1>0, <2>1, <2>3, <2>4, ReadIs
<1>7. CASE Keep
  <2>1. /\ response # NoResponse /\ visited = Len(Items(response)) /\ directives = <<>> /\ response' = NoResponse
        /\ data' = [i \in DOMAIN data \cup {at} |-> IF i = at THEN page ELSE data[i]] /\ crawl' = crawl
    BY <1>7 DEF Keep
  <2>2. response = Entry(at)
    BY <1>0, <2>1 DEF Reading
  <2>3. Kept(page, Entry(at))
    BY <1>2, <2>1, <2>2 DEF Kept, Held
  <2> QED  BY <1>2, <1>4, <2>1, <2>3
<1>8. CASE Analyse \/ UNCHANGED vars
  <2>1. /\ response' = response /\ visited' = visited /\ directives' = directives /\ page' = page /\ data' = data
        /\ crawl' = crawl
    BY <1>8 DEF Analyse, vars, pageVars
  <2> QED  BY <1>2, <1>4, <2>1
<1> QED  BY <1>5, <1>6, <1>7, <1>8 DEF Next

\* Typed with Recording: what is true of the models and of what they were
\* read from in every state.
LEMMA RecordingAlways == Spec => [](Typed /\ Recording)
<1>1. Init => Recording
  BY DEF Init, Recording, Parsed
<1>2. Typed /\ Recording /\ [Next]_vars => Recording'
  BY RecordingNext
<1> QED  BY <1>1, <1>2, TypedAlways, PTL DEF Spec

-----------------------------------------------------------------------------
(* The models against their documents. *)

(* What is visible is what is visited. *)
LEMMA VisibleIs ==
    ASSUME NEW e \in Element
    PROVE  Visible(e) <=> ~Skipped(e)
<1>1. e.inside \in Insides
  BY ItemHas DEF AnyItem
<1> QED  BY <1>1 DEF Visible, Skipped, Insides

(* The least of a set of numbers is found by what it is. *)
LEMMA MinIs ==
    ASSUME NEW S, S \subseteq Int, NEW x \in S, \A y \in S : x <= y
    PROVE  Min(S) = x
<1>1. Min(S) \in S /\ \A y \in S : Min(S) <= y
  BY DEF Min
<1>2. Min(S) <= x /\ x <= Min(S) /\ x \in Int /\ Min(S) \in Int
  BY <1>1
<1> QED  BY <1>2

(* The site that references without one belong to. *)
LEMMA BaseOfIs ==
    ASSUME NEW c \in Response
    PROVE  BaseOf(c) = Base(c).site
<1> DEFINE S == Bases(c.elements)
           href == c.elements[Min(S)].href
           bad == href.site = "bad"
           none == href.site = ""
<1>1. BaseOf(c) = IF S = {} \/ bad \/ none THEN c.url.site ELSE href.site
  BY Zenon DEF BaseOf, Bases
<1>2. Base(c) = IF S = {} THEN c.url ELSE IF bad THEN c.url ELSE Resolve(c.url, href)
  BY DEF Base, SetBase, BaseFrom
<1>3. Resolve(c.url, href) = IF bad THEN NoURL ELSE IF none THEN [href EXCEPT !.site = c.url.site] ELSE href
  BY Zenon DEF Resolve
<1>4. S # {} => href \in Reference
  <2> SUFFICES ASSUME S # {} PROVE href \in Reference
    OBVIOUS
  <2>1. c.elements \in Seq(Element)
    BY DEF Response
  <2>2. DOMAIN c.elements = 1 .. Len(c.elements) /\ Len(c.elements) \in Nat
    BY <2>1, LenProperties
  <2>3. S \subseteq Nat /\ \A k \in S : k \in 1 .. Len(c.elements) /\ c.elements[k].tag = "base"
    BY <2>2 DEF Bases
  <2>4. Min(S) \in S
    <3> HIDE DEF S
    <3> QED  BY <2>3, LeastExists
  <2> DEFINE e == c.elements[Min(S)]
  <2>5. e \in Element /\ e.tag = "base"
    <3> HIDE DEF S
    <3> QED  BY <2>1, <2>3, <2>4, ElementOfSeq
  <2> QED  BY <2>5 DEF Element
<1> HIDE DEF S, href, bad, none
<1>5. CASE S = {} \/ bad
  BY <1>1, <1>2, <1>5
<1>6. CASE S # {} /\ ~bad /\ none
  <2>1. [href EXCEPT !.site = c.url.site].site = c.url.site
    BY <1>4, <1>6 DEF Reference
  <2> QED  BY <1>1, <1>2, <1>3, <1>6, <2>1
<1>7. CASE S # {} /\ ~bad /\ ~none
  BY <1>1, <1>2, <1>3, <1>7
<1> QED  BY <1>5, <1>6, <1>7

\* What a reference in a response names, as the properties put it.
Written(c, h) ==
    IF h.site = "bad" THEN NoURL ELSE [site |-> IF h.site = "" THEN BaseOf(c) ELSE h.site, path |-> h.path]
Declared(c, h) == IF h.site = "" THEN [h EXCEPT !.site = BaseOf(c)] ELSE h
(* A reference resolves to what it names. *)
LEMMA WrittenIs ==
    ASSUME NEW c \in Response, NEW h \in Reference
    PROVE  /\ Resolve(Base(c), h) = Written(c, h)
           /\ h.site # "bad" => Resolve(Base(c), h) = Declared(c, h)
           /\ h.site # "bad" /\ h # NoURL => Resolve(Base(c), h) # NoURL
           /\ h.site = "bad" => Resolve(Base(c), h) = NoURL
<1> DEFINE bad == h.site = "bad"
           none == h.site = ""
           u == Resolve(Base(c), h)
           moved == [site |-> BaseOf(c), path |-> h.path]
<1>1. u = IF bad THEN NoURL ELSE IF none THEN [h EXCEPT !.site = Base(c).site] ELSE h
  BY Zenon DEF Resolve
<1>2. BaseOf(c) = Base(c).site
  BY BaseOfIs
<1>3. /\ Written(c, h) = IF bad THEN NoURL ELSE IF none THEN moved ELSE [site |-> h.site, path |-> h.path]
      /\ Declared(c, h) = IF none THEN [h EXCEPT !.site = BaseOf(c)] ELSE h
  <2>1. Declared(c, h) = IF none THEN [h EXCEPT !.site = BaseOf(c)] ELSE h
    BY Zenon DEF Declared
  <2>2. bad => Written(c, h) = NoURL
    BY Zenon DEF Written
  <2>3. ~bad /\ none => Written(c, h) = moved
    BY Zenon DEF Written
  <2>4. ~bad /\ ~none => Written(c, h) = [site |-> h.site, path |-> h.path]
    BY Zenon DEF Written
  <2> HIDE DEF bad, none, moved
  <2> QED  BY <2>1, <2>2, <2>3, <2>4
<1>4. h = [site |-> h.site, path |-> h.path] /\ [h EXCEPT !.site = BaseOf(c)] = moved
  BY DEF Reference
<1>5. ~bad /\ h # NoURL => u # NoURL
  <2> SUFFICES ASSUME ~bad, h # NoURL, u = NoURL PROVE FALSE
    OBVIOUS
  <2>1. CASE ~none
    <3>1. u = h
      BY <1>1, <2>1, Zenon
    <3> QED  BY <3>1, Zenon
  <2>2. CASE none
    <3>1. u = moved
      <4> HIDE DEF bad, none, moved, u
      <4> QED  BY <1>1, <1>2, <1>4, <2>2
    <3>2. NoURL.path = h.path /\ NoURL.site = ""
      <4>1. moved.path = h.path
        OBVIOUS
      <4>2. NoURL.site = ""
        BY Zenon DEF NoURL
      <4> QED  BY <3>1, <4>1, <4>2, Zenon
    <3>3. NoURL = [site |-> NoURL.site, path |-> NoURL.path]
      <4> DEFINE x == ""
      <4>1. NoURL = [site |-> x, path |-> x]
        BY DEF NoURL
      <4> HIDE DEF x
      <4> QED  BY <4>1
    <3>4. h.site = NoURL.site /\ h.path = NoURL.path
      BY <2>2, <3>2, Zenon
    <3>5. h = NoURL
      BY <1>4, <3>3, <3>4
    <3> QED  BY <3>5, Zenon
  <2> QED  BY <2>1, <2>2, Zenon
<1> HIDE DEF none, moved
<1> QED  BY <1>1, <1>2, <1>3, <1>4, <1>5

(* The lists of a response that was read, in the terms of its document. *)
LEMMA DocumentIs ==
    ASSUME NEW c \in Response
    PROVE  LET n == Len(Items(c)) IN
           /\ LinksTo(c, n) = {k \in DOMAIN c.elements : LET e == c.elements[k] IN
                                   e.tag = "a" /\ Visible(e) /\ e.href # NoURL}
           /\ ImagesTo(c, n) = {k \in DOMAIN c.elements : LET e == c.elements[k] IN
                                   e.tag = "img" /\ Visible(e) /\ e.href # NoURL}
           /\ CanonicalsTo(c, n) = {k \in DOMAIN Items(c) : LET e == Items(c)[k] IN
                                   e.tag = "link" \/ (e.tag = "canonical" /\ Visible(e))}
           /\ SourcesTo(c, n) = {k \in DOMAIN Items(c) : LET e == Items(c)[k] IN
                                   \/ e.tag = "robots" /\ Visible(e) /\ e.agent \in robotsAgents
                                   \/ e.tag = "x-robots"}
<1> DEFINE n == Len(Items(c))
           m == Len(c.elements)
           Links == {k \in DOMAIN c.elements : LET e == c.elements[k] IN e.tag = "a" /\ Visible(e) /\ e.href # NoURL}
           Images == {k \in DOMAIN c.elements : LET e == c.elements[k] IN e.tag = "img" /\ Visible(e) /\ e.href # NoURL}
           Canonicals == {k \in DOMAIN Items(c) : LET e == Items(c)[k] IN
                             e.tag = "link" \/ (e.tag = "canonical" /\ Visible(e))}
           Sources == {k \in DOMAIN Items(c) : LET e == Items(c)[k] IN
                             \/ e.tag = "robots" /\ Visible(e) /\ e.agent \in robotsAgents
                             \/ e.tag = "x-robots"}
<1>1. /\ n \in Nat /\ m \in Nat /\ m <= n /\ DOMAIN Items(c) = 1 .. n /\ DOMAIN c.elements = 1 .. m
      /\ \A k \in 1 .. m : Items(c)[k] = c.elements[k] /\ Items(c)[k] \in Element
      /\ \A k \in 1 .. n : k > m => Items(c)[k] \in RobotsHeaders \cup LinkHeaders
  BY ItemsAre
<1>2. ASSUME NEW k \in 1 .. n
      PROVE  \/ k \in 1 .. m /\ Items(c)[k] = c.elements[k] /\ Items(c)[k].tag \notin {"x-robots", "link"}
                /\ (Visible(Items(c)[k]) <=> ~Skipped(Items(c)[k]))
             \/ k \notin 1 .. m /\ Items(c)[k].tag \in {"x-robots", "link"}
  <2>1. CASE k \in 1 .. m
    <3>1. Items(c)[k] \in Element /\ Items(c)[k] \in AnyItem
      BY <1>1, <2>1 DEF AnyItem
    <3> QED  BY <1>1, <2>1, <3>1, ItemHas, VisibleIs
  <2>2. CASE k \notin 1 .. m
    <3>1. Items(c)[k] \in RobotsHeaders \cup LinkHeaders
      BY <1>1, <2>2
    <3>2. Items(c)[k] \in AnyItem
      BY <3>1 DEF AnyItem
    <3> QED  BY <2>2, <3>1, <3>2, ItemHas
  <2> QED  BY <2>1, <2>2
<1>3. 1 .. m \subseteq 1 .. n
  BY <1>1
<1>4. LinksTo(c, n) = Links
  <2>1. \A k \in 1 .. n : IsLink(Items(c)[k]) <=> k \in Links
    BY <1>1, <1>2 DEF IsLink
  <2> QED  BY <1>1, <1>3, <2>1 DEF LinksTo
<1>5. ImagesTo(c, n) = Images
  <2>1. \A k \in 1 .. n : IsImage(Items(c)[k]) <=> k \in Images
    BY <1>1, <1>2 DEF IsImage
  <2> QED  BY <1>1, <1>3, <2>1 DEF ImagesTo
<1>6. CanonicalsTo(c, n) = Canonicals
  <2>1. \A k \in 1 .. n : IsCanonical(Items(c)[k]) <=> k \in Canonicals
    BY <1>1, <1>2 DEF IsCanonical
  <2> QED  BY <1>1, <2>1 DEF CanonicalsTo
<1>7. SourcesTo(c, n) = Sources
  <2>1. \A k \in 1 .. n : IsSource(Items(c)[k]) <=> k \in Sources
    BY <1>1, <1>2 DEF IsSource
  <2> QED  BY <1>1, <2>1 DEF SourcesTo
<1> QED  BY <1>4, <1>5, <1>6, <1>7

\* The robots of a page merge the directives of all its sources, as many as
\* are read: each step that reads one keeps the merge of those before it.
THEOREM RobotsAreMerged == Spec => []RobotsMostRestrictive
<1>1. Typed /\ Recording => RobotsMostRestrictive
  <2> SUFFICES ASSUME Typed, Recording, NEW i \in Parsed
               PROVE  LET given == Directives(Entry(i))
                          r == data[i].robots
                          Keys(keys) == \E d \in given : d.key \in keys
                          snippets == {d.n : d \in {e \in given : e.key = "max-snippet" /\ e.n >= -1}}
                          previews == {d.n : d \in {e \in given : e.key = "max-image-preview" /\ e.n \in 0 .. 2}} IN
                      /\ r.noindex = Keys({"noindex", "none"}) /\ r.nofollow = Keys({"nofollow", "none"})
                      /\ r.maxSnippet = IF snippets = {} THEN NotSet
                                        ELSE IF snippets = {-1} THEN -1 ELSE Min(snippets \ {-1})
                      /\ r.preview = IF previews = {} THEN NotSet ELSE Min(previews)
    BY DEF RobotsMostRestrictive
  <2> DEFINE c == Entry(i)
             n == Len(Items(c))
             r == data[i].robots
  <2>1. c \in Response
    BY EntryIs DEF Typed, ModelsTyped, CrawlTyped
  <2>2. DOMAIN Items(c) = 1 .. n /\ \A k \in 1 .. n : Items(c)[k] \in AnyItem
    BY <2>1, ItemsAre, ElementOfSeq
  <2>3. PICK D \in SUBSET RobotsDirective : Merged(r, D) /\ D \cup ToSet(<<>>) = GivenTo(c, n)
    BY DEF Recording, Merges
  <2>4. D = GivenTo(c, n)
    <3>1. ToSet(<<>>) = {}
      BY DEF ToSet
    <3> HIDE DEF c, n
    <3> QED  BY <2>3, <3>1
  <2> HIDE DEF c, n
  <2>5. RobotsSources(c) = {j \in SourcesTo(c, n) : Rank(SourcesTo(c, n), j) <= maxRobotsSources}
    BY <2>1, DocumentIs DEF RobotsSources, n
  <2>6. ASSUME NEW j \in SourcesTo(c, n)
        PROVE  Items(c)[j].agent \in {"", "robots", "googlebot"} <=> isAppliedAgent(SourceItem(Items(c)[j]).agent)
    <3> DEFINE e == Items(c)[j]
               none == e.agent = ""
    <3>1. IsSource(e)
      BY DEF SourcesTo
    <3>2. e.agent \in {"", "robots", "googlebot"} <=> none \/ e.agent \in {"robots", "googlebot"}
      BY Zenon
    <3>3. CASE e.tag = "robots"
      <4>1. SourceItem(e).agent = e.agent /\ e.agent \in robotsAgents
        BY <3>1, <3>3 DEF SourceItem, IsSource
      <4>2. ~none
        BY <4>1, Zenon DEF robotsAgents
      <4> HIDE DEF none, e
      <4>3. isAppliedAgent(SourceItem(e).agent) <=> e.agent \in {"robots", "googlebot"}
        BY <4>1 DEF isAppliedAgent
      <4> QED  BY <3>2, <4>2, <4>3, Zenon DEF e
    <3>4. CASE e.tag # "robots"
      <4>1. SourceItem(e).agent = Agent(e)
        BY <3>4 DEF SourceItem
      <4>2. Agent(e) = IF none THEN "robots" ELSE e.agent
        BY Zenon DEF Agent
      <4>3. isAppliedAgent(Agent(e)) <=> none \/ e.agent \in {"robots", "googlebot"}
        <5> HIDE DEF none, e
        <5> QED  BY <4>2 DEF isAppliedAgent
      <4> QED  BY <3>2, <4>1, <4>3, Zenon
    <3> QED  BY <3>3, <3>4, Zenon
  <2>7. {j \in RobotsSources(c) : Items(c)[j].agent \in {"", "robots", "googlebot"}} = AppliedTo(c, n)
    BY <2>5, <2>6, Zenon DEF AppliedTo
  <2>8. Directives(c) = GivenTo(c, n)
    BY <2>7, Zenon DEF Directives, GivenTo
  <2>9. \A d \in D : d.n \in Int
    BY DEF RobotsDirective
  <2>10. /\ r.noindex = (\E d \in D : d.key \in {"noindex", "none"})
         /\ r.nofollow = (\E d \in D : d.key \in {"nofollow", "none"})
    BY <2>3 DEF Merged
  <2>11. r.maxSnippet = IF Snippets(D) = {} THEN NotSet
                        ELSE IF Snippets(D) = {-1} THEN -1 ELSE Min(Snippets(D) \ {-1})
    <3>1. \/ r.maxSnippet = NotSet /\ Snippets(D) = {}
          \/ r.maxSnippet = -1 /\ Snippets(D) = {-1}
          \/ r.maxSnippet # -1 /\ r.maxSnippet \in Snippets(D) /\ \A x \in Snippets(D) : x = -1 \/ r.maxSnippet <= x
      BY <2>3 DEF Merged
    <3>2. CASE r.maxSnippet # -1 /\ r.maxSnippet \in Snippets(D) /\ \A x \in Snippets(D) : x = -1 \/ r.maxSnippet <= x
      <4> DEFINE S == Snippets(D) \ {-1}
      <4>1. S \subseteq Int
        BY <2>9 DEF Snippets
      <4>2. r.maxSnippet \in S /\ \A x \in S : r.maxSnippet <= x
        BY <3>2
      <4> HIDE DEF S, r
      <4>3. Min(S) = r.maxSnippet
        BY <4>1, <4>2, MinIs
      <4> QED  BY <3>2, <4>3 DEF S
    <3> HIDE DEF r
    <3>3. CASE r.maxSnippet = NotSet /\ Snippets(D) = {}
      BY <3>3
    <3>4. CASE r.maxSnippet = -1 /\ Snippets(D) = {-1}
      BY <3>4
    <3> QED  BY <3>1, <3>2, <3>3, <3>4
  <2>12. r.preview = IF Previews(D) = {} THEN NotSet ELSE Min(Previews(D))
    <3>1. \/ r.preview = NotSet /\ Previews(D) = {}
          \/ r.preview \in Previews(D) /\ \A x \in Previews(D) : r.preview <= x
      BY <2>3 DEF Merged
    <3>2. Previews(D) \subseteq Int
      BY DEF Previews
    <3> HIDE DEF r
    <3>3. CASE r.preview \in Previews(D) /\ \A x \in Previews(D) : r.preview <= x
      <4>1. Min(Previews(D)) = r.preview
        BY <3>2, <3>3, MinIs
      <4> QED  BY <3>3, <4>1
    <3> QED  BY <3>1, <3>3
  <2>13. Directives(Entry(i)) = D
    BY <2>4, <2>8 DEF c
  <2> QED  BY <2>10, <2>11, <2>12, <2>13 DEF Snippets, Previews
<1> QED  BY <1>1, RecordingAlways, PTL

(* A list of records holds, by their URLs, what the references name. *)
LEMMA URLsHold ==
    ASSUME NEW s, NEW f, NEW g, NEW n \in Nat, NEW S, S \subseteq 1 .. n, NEW limit \in Nat, Holds(s, f, S, limit),
           \A k \in S : g[k] = f[k].url
    PROVE  Holds([k \in 1 .. Len(s) |-> s[k].url], g, S, limit)
<1> DEFINE t == [k \in 1 .. Len(s) |-> s[k].url]
           C == Cardinality(S)
<1>1. C \in Nat /\ \A k \in S : Rank(S, k) \in 1 .. C
  <2>1. C \in Nat
    BY RankIs
  <2>2. \A k \in S : Rank(S, k) \in 1 .. Cardinality(S)
    BY RankIs
  <2> QED  BY <2>1, <2>2
<1>2. Len(s) = (IF C < limit THEN C ELSE limit) /\ \A k \in S : Rank(S, k) <= limit => s[Rank(S, k)] = f[k]
  BY DEF Holds
<1> HIDE DEF C
<1>3. Len(s) \in Nat
  BY <1>1, <1>2
<1>4. Len(t) = Len(s)
  BY <1>3
<1>5. ASSUME NEW k \in S, Rank(S, k) <= limit PROVE t[Rank(S, k)] = g[k]
  <2>1. Rank(S, k) \in 1 .. Len(s)
    BY <1>1, <1>2, <1>5
  <2> QED  BY <1>2, <1>5, <2>1
<1> QED  BY <1>2, <1>4, <1>5 DEF Holds, C

(* The types of the models, and the limits of their lists. *)
LEMMA TypesHold == Typed => SiteTypeOK
<1> SUFFICES ASSUME Typed PROVE SiteTypeOK
  OBVIOUS
<1>1. at \in 0 .. Len(crawl.pages) /\ Parsed \subseteq 1 .. at
  BY DEF Typed, CrawlTyped, ModelsTyped
<1>2. report.ready \in BOOLEAN
  <2>1. CASE report = NoReport
    BY <2>1 DEF NoReport
  <2>2. CASE report # NoReport
    BY <2>2 DEF Typed, ReportHolds, ReportIs
  <2> QED  BY <2>1, <2>2
<1>3. \A i \in Parsed : Bounded(data[i])
  BY DEF Typed, ModelsTyped, ModelOf
<1>4. Bounded(page)
  <2>1. CASE response # NoResponse
    BY <2>1 DEF Typed, Reading, ModelOf
  <2>2. CASE response = NoResponse
    <3>1. page = NewPage(NoResponse)
      BY <2>2 DEF Typed, Reading
    <3>2. /\ page.headings = <<>> /\ page.canonicals = <<>> /\ page.robots = NoRobots /\ page.social = <<>>
          /\ page.links = <<>> /\ page.images = <<>> /\ page.hreflangs = <<>>
      BY <3>1, Zenon DEF NewPage
    <3>3. Len(<<>>) = 0 /\ NoRobots.sources = <<>>
      BY DEF NoRobots
    <3> QED  BY <3>2, <3>3, PageLimitsAssumption DEF Bounded
  <2> QED  BY <2>1, <2>2
<1> QED  BY <1>1, <1>2, <1>3, <1>4 DEF SiteTypeOK, Bounded

\* The links and images of a model are those of its document outside headings,
\* templates and drawings, in order and up to the limits, each with the URL that
\* its reference names.
THEOREM ReferencesAreRead == Spec => []ReferencesReachTheSite
<1>1. Typed /\ Recording => ReferencesOfThePage
  <2> SUFFICES ASSUME Typed, Recording, NEW i \in Parsed
               PROVE  LET c == Entry(i)
                          Of(tag) == {k \in DOMAIN c.elements : LET e == c.elements[k] IN
                                         e.tag = tag /\ Visible(e) /\ e.href # NoURL}
                          Targets(tag) == [k \in Of(tag) |-> Written(c, c.elements[k].href)]
                          URLsOf(s) == [k \in 1 .. Len(s) |-> s[k].url]
                      IN /\ Holds(URLsOf(data[i].links), Targets("a"), Of("a"), MaxLinks)
                         /\ Holds(URLsOf(data[i].images), Targets("img"), Of("img"), MaxImages)
    BY Zenon DEF ReferencesOfThePage, Written
  <2> DEFINE c == Entry(i)
             n == Len(Items(c))
             A == {k \in DOMAIN c.elements : LET e == c.elements[k] IN e.tag = "a" /\ Visible(e) /\ e.href # NoURL}
             I == {k \in DOMAIN c.elements : LET e == c.elements[k] IN e.tag = "img" /\ Visible(e) /\ e.href # NoURL}
             fl == [k \in DOMAIN Items(c) |-> LinkIn(c, Items(c)[k])]
             fi == [k \in DOMAIN Items(c) |-> ImageIn(c, Items(c)[k])]
             gl == [k \in A |-> Written(c, c.elements[k].href)]
             gi == [k \in I |-> Written(c, c.elements[k].href)]
  <2>1. c \in Response
    BY EntryIs DEF Typed, ModelsTyped, CrawlTyped
  <2>2. /\ n \in Nat /\ DOMAIN Items(c) = 1 .. n /\ DOMAIN c.elements = 1 .. Len(c.elements) /\ Len(c.elements) \in Nat
        /\ Len(c.elements) <= n
        /\ \A k \in 1 .. Len(c.elements) : Items(c)[k] = c.elements[k] /\ Items(c)[k] \in Element
    BY <2>1, ItemsAre
  <2>3. Holds(data[i].links, fl, LinksTo(c, n), MaxLinks) /\ Holds(data[i].images, fi, ImagesTo(c, n), MaxImages)
    BY DEF Recording, Recorded, Lists
  <2>4. LinksTo(c, n) = A /\ ImagesTo(c, n) = I
    BY <2>1, DocumentIs
  <2>5. ASSUME NEW k \in A \cup I PROVE /\ k \in DOMAIN Items(c) /\ c.elements[k] = Items(c)[k]
                                        /\ Resolve(Base(c), Items(c)[k].href) = Written(c, c.elements[k].href)
    <3>1. k \in 1 .. Len(c.elements) /\ k \in DOMAIN Items(c)
      BY <2>2
    <3> DEFINE e == c.elements[k]
    <3>2. e = Items(c)[k] /\ e \in AnyItem /\ e.tag \in {"a", "img"}
      BY <2>2, <3>1 DEF AnyItem
    <3>3. e.href \in Reference
      BY <3>2, ItemHas
    <3> QED  BY <2>1, <3>1, <3>2, <3>3, WrittenIs
  <2>6. \A k \in A : gl[k] = fl[k].url
    BY <2>5 DEF LinkIn
  <2>7. \A k \in I : gi[k] = fi[k].url
    BY <2>5 DEF ImageIn
  <2>8. A \subseteq 1 .. n /\ I \subseteq 1 .. n
    BY <2>2
  <2>9. MaxLinks \in Nat /\ MaxImages \in Nat
    BY PageLimitsAssumption
  <2> HIDE DEF A, I, fl, fi, gl, gi, n, c
  <2>10. Holds([k \in 1 .. Len(data[i].links) |-> data[i].links[k].url], gl, A, MaxLinks)
    BY <2>2, <2>3, <2>4, <2>6, <2>8, <2>9, URLsHold
  <2>11. Holds([k \in 1 .. Len(data[i].images) |-> data[i].images[k].url], gi, I, MaxImages)
    BY <2>2, <2>3, <2>4, <2>7, <2>8, <2>9, URLsHold
  <2> QED  BY <2>10, <2>11 DEF gl, gi, A, I, c
<1> QED  BY <1>1, TypesHold, RecordingAlways, PTL DEF ReferencesReachTheSite

(* Pages with two targets have more than one. *)
LEMMA TargetsAreCounted ==
    ASSUME NEW p \in PageModel, NEW u \in distinctTargets(p), NEW v \in distinctTargets(p), u # v
    PROVE  Cardinality(distinctTargets(p)) > 1
<1> DEFINE s == p.canonicals
           T == {s[k].url : k \in 1 .. Len(s)}
           f == [k \in 1 .. Len(s) |-> s[k].url]
<1>1. s \in Seq(CanonicalRecord)
  BY DEF PageModel
<1>2. DOMAIN s = 1 .. Len(s) /\ Len(s) \in Nat
  BY <1>1, LenProperties
<1>3. distinctTargets(p) \subseteq T
  BY <1>2 DEF distinctTargets, ToSet
<1>4. f \in Surjection(1 .. Len(s), T)
  BY DEF Surjection
<1>5. IsFiniteSet(1 .. Len(s))
  BY <1>2, FS_Interval
<1> HIDE DEF T, f
<1>6. IsFiniteSet(distinctTargets(p))
  BY <1>3, <1>4, <1>5, FS_Surjection, FS_Subset
<1>7. IsFiniteSet({u}) /\ Cardinality({u}) = 1 /\ Cardinality({u} \cup {v}) = Cardinality({u}) + 1
  BY FS_Singleton, FS_AddElement
<1>8. {u} \cup {v} \subseteq distinctTargets(p)
  OBVIOUS
<1>9. Cardinality({u} \cup {v}) <= Cardinality(distinctTargets(p)) /\ Cardinality(distinctTargets(p)) \in Nat
  BY <1>6, <1>8, FS_Subset, FS_CardinalityType
<1> QED  BY <1>7, <1>9

(* The records of canonical declarations, and the first that is effective. *)
LEMMA CanonicalHolds == Typed /\ Recording => CanonicalIsDecided
<1> SUFFICES ASSUME Typed, Recording, report.ready, NEW i \in Parsed
             PROVE  LET c == Entry(i)
                        all == Items(c)
                        declared == {k \in DOMAIN all : all[k].tag = "link" \/ (all[k].tag = "canonical" /\ Visible(all[k]))}
                        valid == {k \in declared : all[k].href # NoURL /\ all[k].href.site # "bad"}
                        effective == {k \in valid : all[k].tag = "link" \/ all[k].inHead} IN
                    Cardinality(declared) <= MaxCanonicals =>
                        /\ CanonicalURL(data[i]) = IF effective = {} THEN NoURL ELSE Declared(c, all[Min(effective)].href)
                        /\ F("CanonicalMultiple", data[i].url, NoURL) \notin report.findings =>
                               \A k, l \in valid : Declared(c, all[k].href) = Declared(c, all[l].href)
  BY Zenon DEF CanonicalIsDecided, Declared
<1> DEFINE c == Entry(i)
           all == Items(c)
           n == Len(all)
           p == data[i]
           s == p.canonicals
           D == {k \in DOMAIN all : all[k].tag = "link" \/ (all[k].tag = "canonical" /\ Visible(all[k]))}
           V == {k \in D : all[k].href # NoURL /\ all[k].href.site # "bad"}
           E == {k \in V : all[k].tag = "link" \/ all[k].inHead}
           Q(k) == CanonicalIn(c, all[k])
           T(k) == Declared(c, all[k].href)
<1>1. c \in Response /\ p \in PageModel
  BY EntryIs DEF Typed, ModelsTyped, CrawlTyped, ModelOf
<1>2. n \in Nat /\ DOMAIN all = 1 .. n /\ \A k \in 1 .. n : all[k] \in AnyItem
  BY <1>1, ItemsAre, ElementOfSeq
<1>3. D = CanonicalsTo(c, n) /\ D \subseteq 1 .. n
  BY <1>1, <1>2, DocumentIs
<1>4. Lists(s, [k \in DOMAIN all |-> Q(k)], D, MaxCanonicals)
  BY <1>3 DEF Recording, Recorded
<1>5. SUFFICES ASSUME Cardinality(D) <= MaxCanonicals
               PROVE  /\ CanonicalURL(p) = IF E = {} THEN NoURL ELSE T(Min(E))
                      /\ F("CanonicalMultiple", p.url, NoURL) \notin report.findings => \A k, l \in V : T(k) = T(l)
  OBVIOUS
<1>6. ASSUME NEW k \in D
      PROVE  /\ k \in V <=> Q(k).url # NoURL
             /\ k \in V => Q(k).url = T(k)
             /\ k \in E <=> Q(k).url # NoURL /\ Q(k).inHead
  <2> DEFINE e == all[k]
             h == e.href
             u == Resolve(Base(c), h)
  <2>1. e \in AnyItem /\ (e.tag = "link" \/ e.tag = "canonical")
    BY <1>2, <1>3
  <2>2. h \in Reference
    BY <2>1, ItemHas
  <2>3. /\ h.site # "bad" => u = Declared(c, h)
        /\ h.site # "bad" /\ h # NoURL => u # NoURL
        /\ h.site = "bad" => u = NoURL
    BY <1>1, <2>2, WrittenIs
  <2>4. Q(k).url = IF h = NoURL THEN NoURL ELSE u
    BY Zenon DEF CanonicalIn
  <2>5. Q(k).inHead <=> e.tag = "link" \/ e.inHead
    <3>1. Q(k).inHead = IF e.tag = "link" THEN TRUE ELSE e.inHead
      BY Zenon DEF CanonicalIn
    <3> HIDE DEF e
    <3> QED  BY <3>1
  <2>6. /\ k \in V <=> h # NoURL /\ h.site # "bad"
        /\ k \in E <=> k \in V /\ (e.tag = "link" \/ e.inHead)
    OBVIOUS
  <2> HIDE DEF u, h, e, V, E, Q
  <2>7. /\ k \in V <=> Q(k).url # NoURL
        /\ k \in V => Q(k).url = Declared(c, h)
    BY <2>3, <2>4, <2>6
  <2> QED  BY <2>5, <2>6, <2>7 DEF h, e
<1>7. MaxCanonicals \in Nat /\ Cardinality(D) \in Nat /\ \A k \in D : Rank(D, k) \in 1 .. Cardinality(D)
  <2>1. MaxCanonicals \in Nat
    BY PageLimitsAssumption
  <2>2. Cardinality(D) \in Nat
    BY <1>2, <1>3, RankIs
  <2>3. \A k \in D : Rank(D, k) \in 1 .. Cardinality(D)
    BY <1>2, <1>3, RankIs
  <2> QED  BY <2>1, <2>2, <2>3
<1>8. \A k, l \in D : k < l => Rank(D, k) < Rank(D, l)
  BY <1>2, <1>3, RankIs
<1>9. /\ Len(s) = Cardinality(D)
      /\ \A k \in D : Rank(D, k) \in 1 .. Len(s) /\ s[Rank(D, k)] = Q(k)
      /\ \A j \in 1 .. Len(s) : \E k \in D : Rank(D, k) = j
  <2> DEFINE f == [k \in DOMAIN all |-> Q(k)]
             C == Cardinality(D)
  <2>1. /\ Len(s) = IF C < MaxCanonicals THEN C ELSE MaxCanonicals
        /\ \A k \in D : Rank(D, k) <= MaxCanonicals => s[Rank(D, k)] = f[k]
        /\ \A j \in 1 .. Len(s) : \E k \in D : Rank(D, k) = j
    BY <1>4 DEF Lists, Holds
  <2>2. \A k \in D : f[k] = Q(k)
    BY <1>2, <1>3
  <2> HIDE DEF f, C, Q, D, s
  <2>3. Len(s) = C /\ C <= MaxCanonicals
    BY <1>5, <1>7, <2>1 DEF C
  <2>4. \A k \in D : Rank(D, k) \in 1 .. Len(s) /\ Rank(D, k) <= MaxCanonicals
    BY <1>7, <2>3 DEF C
  <2> QED  BY <2>1, <2>2, <2>3, <2>4 DEF C
<1>10. DOMAIN s = 1 .. Len(s)
  BY <1>1, LenProperties DEF PageModel
<1>11. V \subseteq D /\ E \subseteq V /\ E \subseteq Nat
  BY <1>3
<1> HIDE DEF D, V, E, Q, T
<1>12. \A k \in E : Rank(D, k) \in Effective(p)
  BY <1>6, <1>9, <1>10, <1>11 DEF Effective
<1>13. ASSUME NEW j \in Effective(p) PROVE \E k \in E : Rank(D, k) = j
  <2>1. j \in 1 .. Len(s) /\ s[j].inHead /\ s[j].url # NoURL
    BY <1>10 DEF Effective
  <2>2. PICK k \in D : Rank(D, k) = j
    BY <1>9, <2>1
  <2> QED  BY <1>6, <1>9, <2>1, <2>2
<1>14. CanonicalURL(p) = IF E = {} THEN NoURL ELSE T(Min(E))
  <2>1. CASE E = {}
    <3>1. Effective(p) = {}
      BY <1>13, <2>1
    <3> QED  BY <2>1, <3>1 DEF CanonicalURL
  <2>2. CASE E # {}
    <3>1. Min(E) \in E /\ \A x \in E : Min(E) <= x
      BY <1>11, <2>2, LeastExists
    <3>2. PICK m \in E : m = Min(E) /\ \A x \in E : m <= x
      BY <3>1
    <3>3. Rank(D, m) \in Effective(p) /\ Effective(p) \subseteq Int
      BY <1>10, <1>12 DEF Effective
    <3>4. ASSUME NEW j \in Effective(p) PROVE Rank(D, m) <= j
      <4>1. PICK k \in E : Rank(D, k) = j
        BY <1>13
      <4>2. m <= k /\ m \in Nat /\ k \in Nat /\ m \in D /\ k \in D
        BY <1>11, <3>2
      <4>3. CASE m = k
        BY <1>7, <4>1, <4>2, <4>3
      <4>4. CASE m # k
        <5>1. Rank(D, m) < Rank(D, k)
          BY <1>8, <4>2, <4>4
        <5> QED  BY <1>7, <4>1, <4>2, <5>1
      <4> QED  BY <4>3, <4>4
    <3>5. Min(Effective(p)) = Rank(D, m)
      BY <3>3, <3>4, MinIs
    <3>6. CanonicalURL(p) = s[Rank(D, m)].url
      BY <3>3, <3>5 DEF CanonicalURL
    <3>7. s[Rank(D, m)].url = T(m)
      BY <1>6, <1>9, <1>11
    <3> QED  BY <2>2, <3>2, <3>6, <3>7
  <2> QED  BY <2>1, <2>2
<1>15. ASSUME F("CanonicalMultiple", p.url, NoURL) \notin report.findings, NEW k \in V, NEW l \in V PROVE T(k) = T(l)
  <2>1. ASSUME NEW m \in V PROVE T(m) \in distinctTargets(p)
    <3>1. m \in D /\ Q(m).url = T(m) /\ Q(m).url # NoURL
      BY <1>6, <1>11
    <3>2. Q(m) \in ToSet(s)
      BY <1>9, <1>10, <3>1 DEF ToSet
    <3> QED  BY <3>1, <3>2 DEF distinctTargets
  <2>2. SUFFICES ASSUME T(k) # T(l) PROVE FALSE
    OBVIOUS
  <2>3. Cardinality(distinctTargets(p)) > 1
    BY <1>1, <2>1, <2>2, TargetsAreCounted
  <2> DEFINE f == F("CanonicalMultiple", p.url, NoURL)
             several == Cardinality(distinctTargets(p)) > 1
  <2>4. f \in CanonicalFindings(p)
    <3> DEFINE invalid == {x \in ToSet(p.canonicals) : x.url = NoURL}
    <3>1. If(several \/ (invalid # {} /\ Len(p.canonicals) > 1), "CanonicalMultiple", p) \subseteq CanonicalFindings(p)
      BY Zenon DEF CanonicalFindings
    <3>2. f \in If(several \/ (invalid # {} /\ Len(p.canonicals) > 1), "CanonicalMultiple", p)
      <4>1. several
        BY <2>3
      <4> HIDE DEF several, invalid
      <4> QED  BY <4>1, Zenon DEF If
    <3> QED  BY <3>1, <3>2
  <2>5. CanonicalFindings(p) \subseteq PageFindings(p, p.url = Start)
    BY DEF PageFindings
  <2>6. f \in report.findings
    BY <2>4, <2>5, FindingsAre, ReadyIs DEF ReportIs
  <2> QED  BY <1>15, <2>6
<1> QED  BY <1>14, <1>15

\* What a page is judged for depends on several elements in their order: a
\* page without a finding on its outline has no gap in it, the effective
\* canonical is the first that may be, and without a finding the canonicals
\* agree, and so do the alternates of a language.
THEOREM JudgementsHold == Spec => []PagesAreJudged
<1>1. Typed /\ Recording => PagesAreJudged
  BY OutlineHolds, CanonicalHolds, AlternatesHold DEF PagesAreJudged
<1> QED  BY <1>1, RecordingAlways, PTL
=============================================================================
