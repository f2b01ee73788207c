-------------------------------- MODULE URLs --------------------------------
(***************************************************************************)
(* URLs (internal/urlnorm): a reference is resolved and brought to its     *)
(* normal form, which decides whether it belongs to the site and whether   *)
(* the trap guard lets it into the crawl.  A URL is a record of a scheme,  *)
(* whether it names a user, and sequences: labels and dots of the host,    *)
(* digits of the port, bytes of path and query.  net/url and idna are      *)
(* external.                                                               *)
(***************************************************************************)
EXTENDS Integers, FiniteSets, SequencesExt

CONSTANTS
    Start, Base,        \* the start URL and the page that the links are on
    Links,              \* the sequences of references that pages may have
    Labels,             \* the labels and dots of their hosts
    MaxURLLength, MaxPathSegments, MaxSegmentRepeats, MaxQueryVariants, MaxPatternVariants

VARIABLES
    links,              \* references that are still to come
    ref, parsed,        \* the last one, and whether it was parsed without a base
    url, reason,        \* its normal form (or an error), what the guard said to it
    queries, patterns, seen     \* the trap guard

vars == <<links, ref, parsed, url, reason, queries, patterns, seen>>

-----------------------------------------------------------------------------
(* Bytes. *)
Byte == 0 .. 255
percent == 37
dot == 46
slash == 47
ampersand == 38
equals == 61
Digits == 48 .. 57
HexDigits == Digits \cup 65 .. 70 \cup 97 .. 102
unhex(c) == IF c < 65 THEN c - 48 ELSE IF c < 97 THEN c - 55 ELSE c - 87
hexDigits(n) == IF n < 10 THEN n + 48 ELSE n + 55
isUnreserved == Digits \cup 65 .. 90 \cup 97 .. 122 \cup {45, 46, 95, 126}   \* - . _ ~
pathSafe == isUnreserved \cup {33, 36} \cup 38 .. 44 \cup {47, 58, 59, 61, 64}   \* !$&'()*+,/:;=@
querySafe == pathSafe \cup {63}

\* Text is read in units, a byte or an escape.  s[i] begins an escape; a byte
\* of one is no "%", so that none overlap.
Escapes == {percent} \X HexDigits \X HexDigits
Unit == {<<c>> : c \in Byte} \cup Escapes
Escape(s, i) == i \in 1 .. Len(s) - 2 /\ s[i] = percent /\ {s[i + 1], s[i + 2]} \subseteq HexDigits
Escaped(s, i) == Escape(s, i - 1) \/ Escape(s, i - 2)
UnitAt(s, i) == IF Escape(s, i) THEN <<percent, s[i + 1], s[i + 2]>> ELSE <<s[i]>>
Value(u) == IF u \in Escapes THEN 16 * unhex(u[2]) + unhex(u[3]) ELSE u[1]
Encode(c) == <<percent, hexDigits(c \div 16), hexDigits(c % 16)>>

\* s with a text for each unit.
Each(s, text) == FlattenSeq([i \in DOMAIN s |-> IF Escaped(s, i) THEN <<>> ELSE text[UnitAt(s, i)]])

Decode(s) == Each(s, [u \in Unit |-> <<Value(u)>>])
escapeStrayPercent(s) == Each(s, [u \in Unit |-> IF u = <<percent>> THEN Encode(percent) ELSE u])
\* Fault: every escape is decoded.
normalizePercentAll(s, safe) ==
    Each(s, [u \in Unit |-> IF u \in Escapes \/ Value(u) \in safe THEN <<Value(u)>> ELSE Encode(Value(u))])
normalizePercent(s, safe) ==
    Each(s, [u \in Unit |-> IF Value(u) \in (IF u \in Escapes THEN isUnreserved ELSE safe) THEN <<Value(u)>>
                            ELSE Encode(Value(u))])

-----------------------------------------------------------------------------
(* Paths. *)
\* segments[n] are those of the last n bytes.
Split(s, at) ==
    LET segments[n \in 0 .. Len(s)] ==
            IF n = 0 THEN <<<<>>>>
            ELSE LET c == s[Len(s) - n + 1]
                     segs == segments[n - 1]
                 IN IF c = at THEN <<<<>>>> \o segs ELSE <<<<c>> \o Head(segs)>> \o Tail(segs)
    IN segments[Len(s)]
Join(segs) == Tail(FlattenSeq([i \in DOMAIN segs |-> <<slash>> \o segs[i]]))

Dots == {<<dot>>, <<dot, dot>>}
\* The segments that dots leave; ".." leaves the first keep of them, and
\* dots at the end leave the slash before them.
WithoutDots(segs, keep) ==
    LET left[n \in 0 .. Len(segs)] ==
            IF n = 0 THEN <<>>
            ELSE LET out == left[n - 1]
                 IN IF segs[n] = <<dot>> THEN out
                    ELSE IF segs[n] = <<dot, dot>> THEN IF Len(out) > keep THEN Front(out) ELSE out
                    ELSE Append(out, segs[n])
    IN IF Last(segs) \in Dots THEN Append(left[Len(segs)], <<>>) ELSE left[Len(segs)]
\* The slash in front that ".." may have taken is put back.
Rooted(p) == IF p = <<>> \/ p[1] # slash THEN <<slash>> \o p ELSE p
\* All paths begin with a slash.
removeDotSegments(p) == IF p = <<>> THEN p ELSE Rooted(Join(WithoutDots(Split(p, slash), 1)))

\* URL.EscapedPath: a path with a byte that must be escaped is decoded and
\* encoded again as a whole, !'()* with it.
EscapedPath(p) ==
    IF ToSet(p) \subseteq pathSafe \cup {percent, 91, 93} THEN p   \* []
    ELSE FlattenSeq([i \in DOMAIN Decode(p) |-> IF Decode(p)[i] \in pathSafe \ ({33} \cup 39 .. 42)
                                                THEN <<Decode(p)[i]>> ELSE Encode(Decode(p)[i])])
\* URL.ResolveReference, for references with a scheme or without a host:
\* ".." may take the first segment, which is empty, and the next begins anew.
resolvePath(p) == IF p = <<>> THEN p ELSE Rooted(Join(WithoutDots(Split(p, slash), 0)))
Directory(p) == SubSeq(p, 1, Max({i \in DOMAIN p : p[i] = slash}))
ResolveReference(base, r) ==
    LET path == EscapedPath(r.path)
    IN IF r.scheme # "" THEN [r EXCEPT !.path = resolvePath(path)]
       ELSE [base EXCEPT
                !.path = resolvePath(IF path = <<>> THEN @ ELSE IF path[1] = slash THEN path ELSE Directory(@) \o path),
                !.query = IF path = <<>> /\ r.query = <<>> THEN @ ELSE r.query]

-----------------------------------------------------------------------------
(* Resolve. *)
Error(e) == [error |-> e]
IsError(x) == "error" \in DOMAIN x
LowerCase(label) == IF label = "A" THEN "a" ELSE IF label = "WWW" THEN "www" ELSE label
\* idna.Profile.ToASCII: labels that are not allowed are an error.
ToASCII(host) == [i \in DOMAIN host |-> LowerCase(host[i])]
TrimDot(host) == IF host # <<>> /\ Last(host) = "." THEN Front(host) ELSE host
HostFails(host) == TrimDot(host) = <<>> \/ "%" \in ToSet(host) \/ "bad" \in ToSet(host)
normalizeHost(host) == ToASCII(TrimDot(host))

Default == [http |-> <<8, 0>>, https |-> <<4, 4, 3>>]
TrimZeros(port) ==
    LET some == {i \in DOMAIN port : port[i] # 0}
    IN IF some = {} THEN <<>> ELSE SubSeq(port, Min(some), Len(port))
\* strconv.Atoi, of the five digits there may be.
Number(digits) == LET n == [i \in 1 .. 5 |-> IF i > Len(digits) THEN 0 ELSE digits[Len(digits) + 1 - i]]
                  IN n[1] + 10 * n[2] + 100 * n[3] + 1000 * n[4] + 10000 * n[5]
PortFails(port) ==
    /\ port # <<>>
    /\ TrimZeros(port) = <<>> \/ Len(TrimZeros(port)) > 5 \/ Number(TrimZeros(port)) > 65535
normalizePort(scheme, port) == IF TrimZeros(port) = Default[scheme] THEN <<>> ELSE TrimZeros(port)

Length(u) == Len(u.host) + Len(u.port) + Len(u.path) + Len(u.query)
\* Fault: dots go before they can be seen.
PathDotsFirst(p) == normalizePercent(removeDotSegments(EscapedPath(p)), pathSafe)
Path(p) == removeDotSegments(normalizePercent(EscapedPath(p), pathSafe))
Normalize(u) ==
    IF u.scheme \notin DOMAIN Default THEN Error("not http")
    ELSE IF u.user THEN Error("credentials")
    ELSE IF HostFails(u.host) \/ PortFails(u.port) THEN Error("invalid")
    ELSE LET out == [u EXCEPT !.host = normalizeHost(@), !.port = normalizePort(u.scheme, @),
                              !.path = IF @ = <<>> THEN <<slash>> ELSE Path(@),
                              !.query = normalizePercent(@, querySafe)]
         IN IF Length(out) > MaxURLLength THEN Error("too long") ELSE out

\* url.Parse: no control characters.
ParseFails(r) == (ToSet(r.path) \cup ToSet(r.query)) \cap (0 .. 31 \cup {127}) # {}
Clean(r) == [r EXCEPT !.path = escapeStrayPercent(@), !.query = escapeStrayPercent(@)]
\* Resolve, and Parse, which has no base.
ResolveIn(r, resolved) ==
    IF Length(Clean(r)) > MaxURLLength THEN Error("too long")
    ELSE IF ParseFails(r) THEN Error("invalid")
    ELSE Normalize(resolved)
Parse(r) == ResolveIn(r, Clean(r))
Resolve(base, r) == ResolveIn(r, ResolveReference(base, Clean(r)))

-----------------------------------------------------------------------------
(* References: what url.Parse makes of a href.  A path after a host is     *)
(* empty or begins with a slash.                                           *)
Reference ==
    [scheme : STRING, user : BOOLEAN, host : Seq(Labels), port : Seq(0 .. 9), path : Seq(Byte), query : Seq(Byte)]
HasPath(r) == r.scheme # "" => r.path = <<>> \/ r.path[1] = slash
ASSUME LabelsAssumption == \A label \in Labels : LowerCase(label) \in Labels
ASSUME ReferencesAssumption ==
    /\ {Start, Base} \subseteq Reference /\ \A u \in {Start, Base} : u.scheme # "" /\ HasPath(u)
    /\ \A seq \in Links : seq \in Seq(Reference) /\ \A i \in DOMAIN seq : HasPath(seq[i])
    /\ ~IsError(Parse(Start)) /\ Parse(Base) = Base
ASSUME URLLimitsAssumption ==
    {MaxURLLength, MaxPathSegments, MaxSegmentRepeats, MaxQueryVariants, MaxPatternVariants} \subseteq Nat

-----------------------------------------------------------------------------
(* Scope and TrapGuard. *)
WithoutWWW(host) == IF Len(host) > 2 /\ SubSeq(host, 1, 2) = <<"www", ".">> THEN SubSeq(host, 3, Len(host)) ELSE host
SiteKey(u) == <<WithoutWWW(u.host), IF u.port = Default[u.scheme] THEN <<>> ELSE u.port>>
InScope(u) == SiteKey(u) = SiteKey(Start)

collapseDigits(s) ==
    FlattenSeq([i \in DOMAIN s |-> IF s[i] \notin Digits THEN <<s[i]>>
                                   ELSE IF i > 1 /\ s[i - 1] \in Digits THEN <<>> ELSE <<123, 110, 125>>])  \* {n}
\* Fault: the values of the parameters count.
KeyOfAll(part) == collapseDigits(part)
KeyOf(part) == collapseDigits(Head(Split(part, equals)))
\* The sorted list of keys is the bag of them.
Keys(query) == LET parts == Split(query, ampersand) IN ToBag([i \in DOMAIN parts |-> KeyOf(parts[i])])
Pattern(u) == <<collapseDigits(u.path), IF u.query = <<>> THEN EmptyBag ELSE Keys(u.query)>>

\* strings.Trim(path, "/"), split.
Segments(u) ==
    LET names == {i \in DOMAIN u.path : u.path[i] # slash}
    IN IF names = {} THEN <<<<>>>>
       ELSE Split(SubSeq(u.path, Min(names), Max(names)), slash)
Repeats(segs) == \E s \in ToSet(segs) \ {<<>>} : Cardinality({i \in DOMAIN segs : segs[i] = s}) > MaxSegmentRepeats
\* A key that is not in a map counts 0.
Count(key, counters) == IF key \in DOMAIN counters THEN counters[key] ELSE 0
Incremented(counters, key) ==
    [k \in DOMAIN counters \cup {key} |-> Count(k, counters) + (IF k = key THEN 1 ELSE 0)]
Queries(u, verdict) == IF verdict = "none" /\ u.query # <<>> THEN Incremented(queries, u.path) ELSE queries
Verdict(u) ==
    IF Length(u) > MaxURLLength THEN "url-too-long"
    ELSE IF Len(Segments(u)) > MaxPathSegments THEN "too-many-path-segments"
    ELSE IF Repeats(Segments(u)) THEN "repeated-path-segment"
    ELSE IF u.query # <<>> /\ Count(u.path, queries) >= MaxQueryVariants THEN "query-explosion"
    ELSE IF Count(Pattern(u), patterns) >= MaxPatternVariants THEN "path-pattern-explosion"
    ELSE "none"
Admit(u) ==
    LET verdict == Verdict(u)
    IN IF u \in seen THEN reason' = "none" /\ UNCHANGED <<queries, patterns, seen>>
       ELSE /\ reason' = verdict
            /\ queries' = Queries(u, verdict)
            /\ patterns' = IF verdict = "none" THEN Incremented(patterns, Pattern(u)) ELSE patterns
            /\ seen' = IF verdict = "none" THEN seen \cup {u} ELSE seen

-----------------------------------------------------------------------------
Init ==
    /\ links \in Links /\ ref = Start /\ parsed = TRUE /\ url = Parse(Start) /\ reason = "start"
    /\ queries = EmptyBag /\ patterns = EmptyBag /\ seen = {}

\* What cannot be resolved or is not of the site is not followed.
Follow(u) ==
    /\ url' = u
    /\ IF IsError(u) THEN reason' = "error" /\ UNCHANGED <<queries, patterns, seen>>
       ELSE IF ~InScope(u) THEN reason' = "external" /\ UNCHANGED <<queries, patterns, seen>>
       ELSE Admit(u)
Take == links # <<>> /\ links' = Tail(links) /\ ref' = Head(links)
\* A link of a page, and a URL of a sitemap.
Link == Take /\ parsed' = FALSE /\ Follow(Resolve(Base, Head(links)))
Entry == Take /\ parsed' = TRUE /\ Follow(Parse(Head(links)))

Next == Link \/ Entry
Spec == Init /\ [][Next]_vars

-----------------------------------------------------------------------------
(***************************************************************************)
(* Properties.                                                             *)
(***************************************************************************)

(* Every variable has its type; the guard's counters are bags, and what it  *)
(* has seen are URLs of the site in normal form.                           *)
URLsTypeOK ==
    /\ ref \in Reference /\ parsed \in BOOLEAN /\ links \in Seq(Reference)
    /\ IsError(url) = (reason = "error")
    /\ \A u \in seen \cup (IF IsError(url) THEN {} ELSE {url}) :
           /\ u \in Reference /\ u.scheme \in DOMAIN Default /\ ~u.user
           /\ u.path # <<>> /\ u.path[1] = slash /\ ToSet(u.path) \subseteq pathSafe \cup {percent}
    /\ \A u \in seen : InScope(u)
    /\ IsABag(queries) /\ IsABag(patterns)

(* Normalize (urlnorm.go:4, "conservative"): what comes out is in normal   *)
(* form - escapes only of bytes that need them, with capital digits, no    *)
(* segment of dots, no default port, no zero in front - and comes out the  *)
(* same when it goes in again, with a base or without, as                  *)
(* TestNormalizeIsIdempotent has it, but for a host with more than one dot *)
(* at its end, of which one is removed each time.                          *)
NormalForm ==
    ~IsError(url) =>
        LET needed(s) == \A i \in DOMAIN s : s[i] = percent =>
                /\ Escape(s, i) /\ Value(UnitAt(s, i)) \notin isUnreserved
                /\ UnitAt(s, i) = Encode(Value(UnitAt(s, i)))
        IN /\ needed(url.path) /\ needed(url.query)
           /\ ToSet(Split(url.path, slash)) \cap Dots = {}
           /\ url.port # Default[url.scheme] /\ (url.port # <<>> => url.port[1] # 0)
           /\ Last(url.host) # "." => Resolve(Base, url) = url /\ Parse(url) = url

(* urlnorm.go:4-8: normalization "only applies transformations that do not *)
(* change which resource a URL identifies": the decoded segments, once the *)
(* segments of dots are gone, and the decoded query are the reference's.   *)
(* It is so for every path whose bytes may all appear in a path, and for a *)
(* link, which net/url resolves first, if no dots are escaped and ".."     *)
(* does not meet an empty segment.                                         *)
Resource(r) ==
    LET segs == Split(r.path, slash)
    IN <<IF r.path = <<>> THEN <<<<>>, <<>>>> ELSE WithoutDots([i \in DOMAIN segs |-> Decode(segs[i])], 1),
         Decode(r.query)>>
SafeToParse == ToSet(ref.path) \subseteq pathSafe \cup {percent}
SafeToResolve ==
    LET segs == Split(ref.path, slash)
    IN /\ \A s \in ToSet(segs) : Decode(s) \in Dots => s \in Dots
       /\ <<dot, dot>> \in ToSet(segs) => \A i \in 2 .. Len(segs) - 1 : segs[i] # <<>>
SameResourceIfSafe ==
    ~IsError(url) /\ ref.scheme # "" /\ SafeToParse /\ (parsed \/ SafeToResolve) => Resource(Clean(ref)) = Resource(url)

(* TrapGuard: the counters are of the admitted URLs alone, each counted    *)
(* once, and stay within their limits, whatever was asked in between.      *)
CountersTrue ==
    /\ \A p \in {u.path : u \in seen} \cup DOMAIN queries :
           Count(p, queries) = Cardinality({u \in seen : u.path = p /\ u.query # <<>>})
    /\ \A p \in {Pattern(u) : u \in seen} \cup DOMAIN patterns :
           Count(p, patterns) = Cardinality({u \in seen : Pattern(u) = p})
    /\ \A p \in DOMAIN queries : Count(p, queries) <= MaxQueryVariants

(* The traps that the guard is for end: URLs that differ in the values of  *)
(* parameters, in the order of parameters or in the numbers in their path  *)
(* are admitted only as often as a pattern may be, and no admitted path    *)
(* has too many segments or repeats one too often.                         *)
Names(u) == {Head(Split(part, equals)) : part \in ToSet(Split(u.query, ampersand))}
Words(s) == FlattenSeq([i \in DOMAIN s |-> IF s[i] \in Digits THEN <<>> ELSE <<s[i]>>])
\* Where the numbers are, counted in the other bytes.
Runs(s) == {Cardinality({j \in 1 .. i : s[j] \notin Digits}) : i \in {k \in DOMAIN s : s[k] \in Digits}}
Alike(u, v) ==
    /\ Words(u.path) = Words(v.path) /\ Runs(u.path) = Runs(v.path)
    /\ (u.query = <<>>) = (v.query = <<>>)
    /\ Names(u) = Names(v) /\ \A w \in {u, v} : Cardinality(Names(w)) = Len(Split(w.query, ampersand))
TrapsEnd ==
    \A u \in seen :
        /\ Cardinality({v \in seen : Alike(u, v)}) <= MaxPatternVariants
        /\ Len(Segments(u)) <= MaxPathSegments /\ ~Repeats(Segments(u))

(* The trap guard, over sequences of links that run into its limits.       *)
GuardHolds == URLsTypeOK /\ CountersTrue /\ TrapsEnd
=============================================================================
