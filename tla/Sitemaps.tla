------------------------------ MODULE Sitemaps ------------------------------
(***************************************************************************)
(* Sitemap discovery: Collect (internal/sitemap/collect.go) fetches the    *)
(* seeds and the sitemaps they reference, breadth-first and within limits, *)
(* and Findings says what is wrong with them.  Servers answer anything.    *)
(***************************************************************************)
EXTENDS Integers, Sequences, FiniteSets

CONSTANTS
    FileURLs,   \* URLs of sitemap files, normalized
    BadURLs,    \* strings that urlnorm.Parse refuses
    InScope,    \* pages of the site
    OutOfScope, \* pages elsewhere
    Seeds,      \* the sequence of seeds: URL and whether robots.txt declares it
    IndexDocs,  \* the entries an index may have: sequences of files
    PageDocs,   \* the entries a urlset may have: sequences of pages
    MaxFiles, MaxURLs, MaxDepth,
    MaxListed   \* how many invalid and out-of-scope pages are listed

Files == FileURLs \cup BadURLs
Pages == InScope \cup OutOfScope \cup BadURLs

ASSUME LimitsAssumption ==
    MaxFiles \in Nat \ {0} /\ MaxURLs \in Nat \ {0} /\ MaxDepth \in Nat \ {0}
    /\ MaxListed \in Nat
ASSUME DocsAssumption ==
    /\ Seeds \in Seq([url : Files, declared : BOOLEAN])
    /\ IndexDocs \subseteq Seq(Files) /\ PageDocs \subseteq Seq(Pages)
    /\ InScope \cap (OutOfScope \cup BadURLs) = {}

VARIABLES
    pc,             \* what todo holds: "files", "pages", or "fetch", "done"
    todo,           \* entries of the current document (or the seeds) to come
    queue,          \* files to fetch
    files,          \* Result.Files
    seenFiles,
    urls,           \* Result.URLs
    filesSkipped, urlsSkipped,
    invalidLocs, outOfScope,    \* how many are listed
    canceled,       \* the context has ended
    dropped         \* history: which file listed a page that was not recorded

vars == <<pc, todo, queue, files, seenFiles, urls, filesSkipped, urlsSkipped,
          invalidLocs, outOfScope, canceled, dropped>>
counts == <<urls, urlsSkipped, invalidLocs, outOfScope, dropped>>

Failures == {"failed", "oversize", "invalid", "invalid-url"}
Usable == {"index", "too-deep", "urlset"}
File == [url : Files, depth : Nat, declared : BOOLEAN,
         outcome : {"fetching"} \cup Failures \cup Usable,
         listed : SUBSET (Files \cup Pages), truncated : BOOLEAN]
Ref == [url : Files, depth : Nat, declared : BOOLEAN]

NewFile(r, o) ==
    [url |-> r.url, depth |-> r.depth, declared |-> r.declared, outcome |-> o,
     listed |-> {}, truncated |-> FALSE]
Refs(doc, d) ==
    [i \in 1 .. Len(doc) |-> [url |-> doc[i], depth |-> d, declared |-> TRUE]]
Listed(doc) == {doc[i] : i \in 1 .. Len(doc)}

-----------------------------------------------------------------------------
Init ==
    /\ pc = "files" /\ queue = <<>> /\ files = <<>> /\ seenFiles = {}
    /\ todo = [i \in 1 .. Len(Seeds) |->
                 [url |-> Seeds[i].url, depth |-> 0, declared |-> Seeds[i].declared]]
    /\ urls = {} /\ filesSkipped = 0 /\ urlsSkipped = 0
    /\ invalidLocs = 0 /\ outOfScope = 0 /\ canceled = FALSE /\ dropped = {}

\* Fault: the files that wait are not counted.
NoRoomForgetful == Len(files) >= MaxFiles
NoRoom == Len(queue) + Len(files) >= MaxFiles

\* enqueue
Enqueue(r) ==
    \/ /\ r.url \in seenFiles
       /\ UNCHANGED <<queue, files, seenFiles, filesSkipped>>
    \/ /\ r.url \notin seenFiles /\ NoRoom
       /\ seenFiles' = seenFiles \cup {r.url}
       /\ filesSkipped' = filesSkipped + 1
       /\ UNCHANGED <<queue, files>>
    \/ /\ r.url \notin seenFiles /\ ~NoRoom
       /\ seenFiles' = seenFiles \cup {r.url}
       /\ IF r.url \in BadURLs
          THEN files' = Append(files, NewFile(r, "invalid-url")) /\ UNCHANGED queue
          ELSE queue' = Append(queue, r) /\ UNCHANGED files
       /\ UNCHANGED filesSkipped

\* Fault: an invalid entry ends the document.
RestUnlessBad == IF pc = "pages" /\ Head(todo) \in BadURLs THEN <<>> ELSE Tail(todo)
Rest == Tail(todo)

\* A seed, or an entry of an index.
AddFile ==
    /\ pc = "files" /\ todo # <<>>
    /\ Enqueue(Head(todo))
    /\ todo' = Rest
    /\ UNCHANGED <<pc, counts, canceled>>

Plus1(n) == IF n < MaxListed THEN n + 1 ELSE n

Full == Cardinality(urls) >= MaxURLs

\* An entry of a urlset.
AddPage ==
    /\ pc = "pages" /\ todo # <<>>
    /\ LET p == Head(todo) IN
       \/ /\ p \in BadURLs /\ invalidLocs' = Plus1(invalidLocs)
          /\ UNCHANGED <<urls, urlsSkipped, outOfScope, dropped>>
       \/ /\ p \in OutOfScope \ BadURLs /\ outOfScope' = Plus1(outOfScope)
          /\ UNCHANGED <<urls, urlsSkipped, invalidLocs, dropped>>
       \/ /\ p \in InScope \cap urls /\ UNCHANGED counts
       \/ /\ p \in InScope \ urls /\ Full
          /\ urlsSkipped' = urlsSkipped + 1
          /\ dropped' = dropped \cup {<<files[Len(files)].url, p>>}
          /\ UNCHANGED <<urls, invalidLocs, outOfScope>>
       \/ /\ p \in InScope \ urls /\ ~Full
          /\ urls' = urls \cup {p}
          /\ UNCHANGED <<urlsSkipped, invalidLocs, outOfScope, dropped>>
    /\ todo' = Rest
    /\ UNCHANGED <<pc, queue, files, seenFiles, filesSkipped, canceled>>

AtLoop == pc \in {"files", "pages"} /\ todo = <<>>

\* Fault: the last file that was queued is fetched first.
TakeLast ==
    /\ AtLoop /\ queue # <<>> /\ ~canceled
    /\ files' = Append(files, NewFile(queue[Len(queue)], "fetching"))
    /\ queue' = SubSeq(queue, 1, Len(queue) - 1)
    /\ pc' = "fetch"
    /\ UNCHANGED <<todo, seenFiles, filesSkipped, counts, canceled>>

\* The head of the loop.
TakeFile ==
    /\ AtLoop /\ queue # <<>> /\ ~canceled
    /\ files' = Append(files, NewFile(Head(queue), "fetching"))
    /\ queue' = Tail(queue)
    /\ pc' = "fetch"
    /\ UNCHANGED <<todo, seenFiles, filesSkipped, counts, canceled>>

Current == files[Len(files)]

Fetched(o, l, t, next, rest) ==
    /\ pc = "fetch"
    /\ files' = [files EXCEPT ![Len(files)] =
                   [Current EXCEPT !.outcome = o, !.listed = l, !.truncated = t]]
    /\ pc' = next /\ todo' = rest
    /\ UNCHANGED <<queue, seenFiles, filesSkipped, counts, canceled>>

\* fetchFile returns no document.
FetchFails == \E o \in Failures \ {"invalid-url"} : Fetched(o, {}, FALSE, "files", <<>>)

TooDeep(d) == d + 1 > MaxDepth

\* A document: a sitemap index that is nested too deep, one that is followed,
\* or a list of pages.
FetchIndex(doc, t) ==
    /\ pc = "fetch"
    /\ \/ TooDeep(Current.depth) /\ Fetched("too-deep", Listed(doc), t, "files", <<>>)
       \/ /\ ~TooDeep(Current.depth)
          /\ Fetched("index", Listed(doc), t, "files", Refs(doc, Current.depth + 1))
FetchPages(doc, t) == Fetched("urlset", Listed(doc), t, "pages", doc)

Finish ==
    /\ AtLoop /\ (queue = <<>> \/ canceled)
    /\ pc' = "done"
    /\ UNCHANGED <<todo, queue, files, seenFiles, filesSkipped, counts, canceled>>

\* The context ends; a request that is under way fails.
Cancel ==
    /\ pc # "done" /\ ~canceled /\ canceled' = TRUE
    /\ UNCHANGED <<pc, todo, queue, files, seenFiles, filesSkipped, counts>>

Next ==
    \/ AddFile \/ AddPage \/ TakeFile \/ FetchFails \/ Finish \/ Cancel
    \/ \E doc \in IndexDocs, t \in BOOLEAN : FetchIndex(doc, t)
    \/ \E doc \in PageDocs, t \in BOOLEAN : FetchPages(doc, t)

Spec == Init /\ [][Next]_vars

\* Findings: SitemapMissing.
AnyUsable == \E i \in 1 .. Len(files) : files[i].outcome \in Usable
AnyDeclared == \E i \in 1 .. Len(files) : files[i].declared
Missing == ~AnyUsable /\ ~AnyDeclared

-----------------------------------------------------------------------------
(* Every variable has its type. *)
SitemapsTypeOK ==
    /\ pc \in {"files", "pages", "fetch", "done"}
    /\ todo \in (IF pc = "pages" THEN Seq(Pages) ELSE Seq(Ref))
    /\ queue \in Seq(Ref) /\ files \in Seq(File)
    /\ seenFiles \subseteq Files /\ urls \subseteq InScope
    /\ filesSkipped \in Nat /\ urlsSkipped \in Nat
    /\ invalidLocs \in 0 .. MaxListed /\ outOfScope \in 0 .. MaxListed
    /\ canceled \in BOOLEAN /\ dropped \subseteq Files \X InScope

UrlsOf(s) == {s[i].url : i \in 1 .. Len(s)}
Known == UrlsOf(files) \cup UrlsOf(queue)

(* docs/crawling.md, Limits: the files fetched, waiting and refused as     *)
(* invalid are within the limit, no file is fetched twice, and a file is   *)
(* counted as skipped once, and only when the limit is used up.            *)
FilesBounded ==
    /\ Len(queue) + Len(files) <= MaxFiles
    /\ Cardinality(Known) = Len(queue) + Len(files)
    /\ Known \subseteq seenFiles
    /\ filesSkipped = Cardinality(seenFiles \ Known)
    /\ filesSkipped > 0 => Len(queue) + Len(files) = MaxFiles

(* docs/crawling.md, "URLs taken from sitemaps": no more than the limit,   *)
(* and none is dropped before the limit is used up; a page that is dropped *)
(* is not recorded later, and is counted for each file that lists it.      *)
URLsBounded ==
    /\ Cardinality(urls) <= MaxURLs
    /\ urlsSkipped > 0 => dropped # {}
    /\ urlsSkipped >= Cardinality(dropped)
    /\ dropped # {} => Cardinality(urls) = MaxURLs
    /\ \A d \in dropped : d[2] \notin urls

Followed == {i \in 1 .. Len(files) : files[i].outcome = "index"}

(* A file that is listed by several indexes counts with its shortest way   *)
(* from the seeds: nesting limits never cut off a file that another index  *)
(* reaches within the limit.                                               *)
ShortestWay ==
    /\ \A i \in Followed, j \in 1 .. Len(files) :
          files[j].url \in files[i].listed => files[j].depth <= files[i].depth + 1
    /\ \A i \in Followed, j \in 1 .. Len(queue) :
          queue[j].url \in files[i].listed => queue[j].depth <= files[i].depth + 1
    /\ \A i \in 1 .. Len(files) :
          files[i].depth = 0 \/ \E j \in Followed :
              files[i].url \in files[j].listed /\ files[i].depth = files[j].depth + 1

(* A collection that was not cut off read what there is: all seeds and     *)
(* entries of followed indexes are files of the result unless the limit    *)
(* was reached, and all pages of the site that the files list are URLs of  *)
(* the result unless that limit was; and nothing else is.                  *)
Collected ==
    pc = "done" /\ ~canceled =>
        /\ filesSkipped = 0 =>
              /\ \A i \in 1 .. Len(Seeds) : Seeds[i].url \in UrlsOf(files)
              /\ \A i \in Followed : files[i].listed \subseteq UrlsOf(files)
        /\ LET there == UNION {files[i].listed : i \in
                                 {j \in 1 .. Len(files) : files[j].outcome = "urlset"}}
           IN  urls \subseteq there /\ (urlsSkipped = 0 => there \cap InScope \subseteq urls)

(* internal/findings/catalog_crawl.go, SitemapMissing: "robots.txt         *)
(* declares no sitemap and /sitemap.xml does not return a valid sitemap."  *)
MissingIsTrue ==
    pc = "done" /\ ~canceled /\ Missing => \A i \in 1 .. Len(Seeds) : ~Seeds[i].declared

(* Both limits hold while files and entries move between lists, and        *)
(* nothing is skipped before a limit is used up.                           *)
WithinLimits == SitemapsTypeOK /\ FilesBounded /\ URLsBounded
=============================================================================
