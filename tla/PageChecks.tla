----------------------------- MODULE PageChecks -----------------------------
(***************************************************************************)
(* What the model of one page is checked for (internal/htmlcheck): the     *)
(* findings of a page p.  A finding names its rule, the page, and what it  *)
(* is about if there can be several of a rule; its evidence is left out.   *)
(***************************************************************************)
EXTENDS Page

CONSTANTS
    ShortTexts, LongTexts,      \* texts shorter, longer than the guidelines
    ImageURLs,                  \* texts that are absolute HTTP URLs
    og, twitter                 \* texts that go on after "og:", after "twitter:"

ASSUME SocialAssumption ==
    /\ {"og:title", "og:description", "og:type", "og:url", "og:image"} \subseteq og
    /\ {"twitter:title", "twitter:description", "twitter:card", "twitter:image"} \subseteq twitter

F(rule, url, about) == [rule |-> rule, url |-> url, about |-> about]
If(condition, rule, p) == IF condition THEN {F(rule, p.url, NoURL)} ELSE {}
First(s) == IF s = <<>> THEN "" ELSE s[1]

MetadataFindings(p) ==
    LET title == First(p.titles)
        description == First(p.descriptions) IN
    If(p.titles = <<>>, "TitleMissing", p) \cup If(p.titles # <<>> /\ title = "", "TitleEmpty", p)
    \cup If(title \in ShortTexts, "TitleShort", p) \cup If(title \in LongTexts, "TitleLong", p)
    \cup If(Len(p.titles) > 1, "TitleMultiple", p)
    \cup If(p.descriptions = <<>>, "DescriptionMissing", p)
    \cup If(p.descriptions # <<>> /\ description = "", "DescriptionEmpty", p)
    \cup If(description \in ShortTexts \cup LongTexts, "DescriptionLength", p)
    \cup If(Len(p.descriptions) > 1, "DescriptionMultiple", p)

-----------------------------------------------------------------------------
H1s(p) == {i \in DOMAIN p.headings : p.headings[i].level = 1}
\* Headings that skip a level; the first is measured from 0.
Jumps(p) == {i \in DOMAIN p.headings :
                p.headings[i].level > 1 + (IF i = 1 THEN 0 ELSE p.headings[i - 1].level)}
HeadingFindings(p) ==
    If(H1s(p) = {}, "HeadingNoH1", p) \cup If(Cardinality(H1s(p)) > 1, "HeadingMultipleH1", p)
    \cup If(\E i \in DOMAIN p.headings : p.headings[i].text = "", "HeadingEmpty", p)
    \cup If(Jumps(p) # {}, "HeadingHierarchy", p)

-----------------------------------------------------------------------------
\* The effective canonical URL: the first that is valid and not in the body.
Effective(p) == {i \in DOMAIN p.canonicals : p.canonicals[i].inHead /\ p.canonicals[i].url # NoURL}
CanonicalURL(p) == IF Effective(p) = {} THEN NoURL ELSE p.canonicals[Min(Effective(p))].url
distinctTargets(p) == {c.url : c \in ToSet(p.canonicals)} \ {NoURL}
CanonicalFindings(p) ==
    LET all == ToSet(p.canonicals)
        invalid == {c \in all : c.url = NoURL} IN
    If(all = {}, "CanonicalMissing", p)
    \cup If(\/ Cardinality(distinctTargets(p)) > 1
            \/ invalid # {} /\ Len(p.canonicals) > 1, "CanonicalMultiple", p)
    \cup If(invalid # {}, "CanonicalInvalid", p)
    \cup If(\E c \in all \ invalid : c.relative, "CanonicalRelative", p)
    \cup If(\E c \in all \ invalid : ~c.inHead, "CanonicalOutsideHead", p)
    \cup If(External(CanonicalURL(p)), "CanonicalCrossDomain", p)

Indexable(p) == ~p.robots.noindex
RobotsFindings(p, start) ==
    LET r == p.robots IN
    If(r.noindex /\ start, "IndexStartNoindex", p) \cup If(r.noindex /\ ~start, "IndexNoindex", p)
    \cup If(r.nofollow, "IndexNofollow", p)
    \cup If((r.noindex /\ r.index) \/ (r.nofollow /\ r.follow), "IndexConflict", p)
    \cup If(r.invalid > 0, "IndexInvalidDirective", p)
    \cup If(r.restricted \/ r.maxSnippet = 0 \/ r.preview = 0, "IndexSnippetRestricted", p)
    \cup If(r.noindex /\ CanonicalURL(p) \notin {NoURL, p.url}, "IndexNoindexCanonical", p)

-----------------------------------------------------------------------------
\* A declaration against the one before it for the same language.  Fault:
\* only neighbours are compared.
ConflictsNeighbour(p) ==
    {i \in DOMAIN p.hreflangs : i > 1 /\ p.hreflangs[i].lang.tag = p.hreflangs[i - 1].lang.tag
                                      /\ p.hreflangs[i].href # p.hreflangs[i - 1].href}
Conflicts(p) ==
    {i \in DOMAIN p.hreflangs :
        \E j \in 1 .. i - 1 :
            /\ p.hreflangs[j].lang.tag = p.hreflangs[i].lang.tag
            /\ p.hreflangs[j].href # p.hreflangs[i].href
            /\ \A k \in j + 1 .. i - 1 : p.hreflangs[k].lang.tag # p.hreflangs[i].lang.tag}
HreflangFindings(p) ==
    LET all == ToSet(p.hreflangs)
        self == {h \in all : h.href = p.url /\ h.lang.tag # "x-default"}
        tags == {h.lang.tag : h \in all} IN
    IF all = {} THEN {}
    ELSE If(\E h \in all : ~h.lang.valid, "HreflangInvalid", p)
         \cup {F("HreflangConflict", p.url, p.hreflangs[i].href) : i \in Conflicts(p)}
         \cup If(p.lang.tag # "absent" /\ \E h \in self : h.lang.primary # p.lang.primary, "LangMismatch", p)
         \cup If(self = {}, "HreflangSelfMissing", p)
         \cup If("x-default" \notin tags /\ Cardinality(tags) > 1, "HreflangNoDefault", p)
LangFindings(p) ==
    If(p.lang.tag = "absent", "LangMissing", p)
    \cup If(p.lang.tag # "absent" /\ ~p.lang.valid, "LangInvalid", p)

-----------------------------------------------------------------------------
\* The last value of a property; "" if it is not there.
SocialValue(p, property) ==
    LET with == {i \in DOMAIN p.social : p.social[i].property = property}
    IN IF with = {} THEN "" ELSE p.social[Max(with)].value
Properties(p) == {s.property : s \in ToSet(p.social)}
SocialFindings(p) ==
    LET Differ(a, b) == /\ a \in Properties(p) /\ SocialValue(p, b) # ""
                        /\ SocialValue(p, a) # SocialValue(p, b) IN
    If(\/ Differ("og:title", "twitter:title")
       \/ Differ("og:description", "twitter:description"), "SocialInconsistent", p)
    \cup If(\E s \in ToSet(p.social) : /\ s.property \in {"og:image", "twitter:image"}
                                       /\ s.value \notin ImageURLs \cup {""}, "SocialImageInvalid", p)
\* Any property of a kind is a sign of its use, and some are then required.
SocialRequiredFindings(p) ==
    LET No(properties) == \A property \in properties : SocialValue(p, property) = "" IN
    If(\/ /\ Properties(p) \cap og # {}
          /\ \E property \in {"og:title", "og:type", "og:url", "og:image"} : No({property})
       \/ /\ Properties(p) \cap twitter # {}
          /\ \/ No({"twitter:card"})
             \/ No({"twitter:title", "og:title"})
             \/ No({"twitter:image", "og:image"}), "SocialRequired", p)

ImageFindings(p) ==
    LET all == ToSet(p.images) IN
    {F("ImageAlt", p.url, i.url) : i \in {j \in all : j.alt = "absent"}}
    \cup {F("ImageDimensions", p.url, i.url) : i \in {j \in all : ~j.sized}}
    \cup {F("ImageLoading", p.url, i.url) : i \in {j \in all : j.loading \notin {"", "lazy", "eager"}}}

AnchorFindings(p) ==
    LET internal == {l \in ToSet(p.links) : ~l.external /\ ~l.resource} IN
    If(\E l \in internal : l.text = "", "AnchorEmpty", p)
    \cup If(\E k, l \in internal : k.text # "" /\ k.text = l.text /\ k.url # l.url, "AnchorDuplicate", p)

PageFindings(p, start) ==
    UNION {MetadataFindings(p), HeadingFindings(p), CanonicalFindings(p), RobotsFindings(p, start),
           HreflangFindings(p), LangFindings(p), SocialFindings(p), SocialRequiredFindings(p),
           ImageFindings(p), AnchorFindings(p)}
=============================================================================
