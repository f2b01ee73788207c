-------------------------------- MODULE Fetch --------------------------------
(***************************************************************************)
(* One call of Client.Fetch (internal/fetcher/fetcher.go): redirects are   *)
(* followed by hand, one hop at a time, and the body of the last response  *)
(* is read under two limits.  The servers are arbitrary: they may answer   *)
(* the same URL differently each time.                                     *)
(***************************************************************************)
EXTENDS Integers, Sequences

CONSTANTS
    URLs,           \* URLs that can be requested, without fragments
    BadURLs,        \* strings that are no URLs or that checkURL refuses
    MaxRedirects,
    MaxBody,        \* limit of the body on the wire
    MaxDecoded,     \* limit of the decoded body
    Sizes           \* sizes of bodies

ASSUME LimitsAssumption ==
    /\ MaxRedirects \in Nat /\ MaxBody \in Nat /\ MaxDecoded \in Nat
    /\ Sizes \subseteq Nat
ASSUME URLsAssumption == URLs \cap BadURLs = {} /\ "unset" \notin URLs

VARIABLES
    pc,         \* "start", "head" (of the loop), "wait", "do", or "done"
    asked,      \* the request: its URL and method
    current,    \* the URL to request next
    method,     \* the method of the next request
    seen,       \* URLs at the head of the loop so far
    final,      \* Response.FinalURL; "unset" (empty) until it is set
    hops,       \* Response.Redirects
    body,       \* the body of the last response, if one was read
    error,      \* the error Fetch returned, or "ok"; "none" while it runs
    requests    \* history: the requests made

vars == <<pc, asked, current, method, seen, final, hops, body, error, requests>>

Methods == {"GET", "HEAD"}
Request == [url : URLs \cup BadURLs, method : Methods \cup {"other"}]
Hop == [url : URLs, to : URLs \cup BadURLs]
NoBody == [wire |-> 0, decoded |-> 0, kept |-> 0]

\* A body: what it declares (-1: nothing), its bytes on the wire, the bytes
\* they decode to, its encoding, and whether it ends well.
Bodies ==
    {b \in [declared : {-1} \cup Sizes, wire : Sizes, decoded : Sizes,
            encoding : {"identity", "gzip", "other"}, whole : BOOLEAN] :
        /\ b.encoding = "identity" => b.decoded = b.wire
        /\ b.declared >= 0 =>
               b.wire <= b.declared /\ (b.whole => b.wire = b.declared)}

Lesser(a, b) == IF a < b THEN a ELSE b

\* Fault: the reader stops at the limit, so nothing ever exceeds it.
TakenAtLimit(b) == Lesser(b.wire, Lesser(MaxBody, MaxDecoded))

\* What an identity body yields: one byte more than a limit is enough.
Taken(b) == Lesser(b.wire, Lesser(MaxBody, MaxDecoded) + 1)

\* readBody: the results it may have.  How far gzip has read ahead when the
\* decoded limit is reached depends on its buffers.
ReadBody(b) ==
    IF b.declared > MaxBody THEN {"body"}
    ELSE IF b.encoding = "other" THEN {"encoding"}
    ELSE IF b.encoding = "identity"
         THEN IF Taken(b) > MaxBody THEN {"body"}
              ELSE IF Taken(b) > MaxDecoded THEN {"decompressed"}
              ELSE IF b.whole THEN {"ok"} ELSE {"read"}
    ELSE IF b.wire > MaxBody
         THEN {"body"} \cup (IF b.decoded > MaxDecoded THEN {"decompressed"} ELSE {})
                       \cup (IF b.whole THEN {} ELSE {"read"})
    ELSE IF b.decoded > MaxDecoded THEN {"decompressed"}
    ELSE IF b.whole THEN {"ok"} ELSE {"read"}

Kept(b) == IF b.encoding = "identity" THEN Taken(b) ELSE b.decoded

-----------------------------------------------------------------------------
Init ==
    /\ pc = "start" /\ asked \in Request
    /\ current = asked.url /\ method = asked.method
    /\ seen = {} /\ final = "unset" /\ hops = <<>> /\ body = NoBody
    /\ error = "none" /\ requests = <<>>

Return(e) == pc' = "done" /\ error' = e

\* Up to the loop: the method, and ParseHTTPURL.
Parse ==
    /\ pc = "start"
    /\ IF asked.method \notin Methods THEN Return("method")
       ELSE IF asked.url \in BadURLs THEN Return("invalid-url")
       ELSE pc' = "head" /\ UNCHANGED error
    /\ UNCHANGED <<asked, current, method, seen, final, hops, body, requests>>

\* Fault: only the URL that was asked for is remembered.
LoopHeadForgets ==
    /\ pc = "head"
    /\ final' = current
    /\ IF current \in seen
       THEN Return("redirect-loop") /\ UNCHANGED seen
       ELSE /\ seen' = IF seen = {} THEN {current} ELSE seen
            /\ pc' = "wait" /\ UNCHANGED error
    /\ UNCHANGED <<asked, current, method, hops, body, requests>>

\* The head of the loop.
LoopHead ==
    /\ pc = "head"
    /\ final' = current
    /\ IF current \in seen
       THEN Return("redirect-loop") /\ UNCHANGED seen
       ELSE seen' = seen \cup {current} /\ pc' = "wait" /\ UNCHANGED error
    /\ UNCHANGED <<asked, current, method, hops, body, requests>>

\* Options.Wait: the limiter grants a request, or the context ends first.
Wait ==
    /\ pc = "wait"
    /\ \/ pc' = "do" /\ UNCHANGED error
       \/ Return("timeout")
    /\ UNCHANGED <<asked, current, method, seen, final, hops, body, requests>>

Requested == requests' = Append(requests, [url |-> current, method |-> method])

\* The request ends without a response: the guard, the network, the context.
Fail ==
    /\ pc = "do" /\ Requested
    /\ \E e \in {"blocked", "network", "timeout"} : Return(e)
    /\ UNCHANGED <<asked, current, method, seen, final, hops, body>>

\* A redirect status without a Location is the final response.
NoLocation ==
    /\ pc = "do" /\ Requested
    /\ Return("ok")
    /\ UNCHANGED <<asked, current, method, seen, final, hops, body>>

\* Fault: a HEAD becomes a GET after a 303.
MethodAfterGet(status) == IF status = "see-other" THEN "GET" ELSE method

OverLimit(h) == Len(h) > MaxRedirects

MethodAfter(status) ==
    IF status = "see-other" /\ method # "HEAD" THEN "GET" ELSE method

\* A redirect to a Location: the hop is recorded before it is judged.
Redirect(to, status) ==
    /\ pc = "do" /\ Requested
    /\ hops' = Append(hops, [url |-> final, to |-> to])
    /\ \/ /\ to \in BadURLs
          /\ Return("invalid-url") /\ UNCHANGED <<current, final, method>>
       \/ /\ to \notin BadURLs /\ OverLimit(hops')
          /\ final' = to /\ Return("too-many-redirects") /\ UNCHANGED <<current, method>>
       \/ /\ to \notin BadURLs /\ ~OverLimit(hops')
          /\ current' = to /\ method' = MethodAfter(status)
          /\ pc' = "head" /\ UNCHANGED <<final, error>>
    /\ UNCHANGED <<asked, seen, body>>

\* Any other response: the body of a HEAD is not read.
Respond(b) ==
    /\ pc = "do" /\ Requested
    /\ IF method = "HEAD" THEN Return("ok") /\ UNCHANGED body
       ELSE \E e \in ReadBody(b) :
               /\ Return(e)
               /\ body' = IF e = "ok"
                          THEN [wire |-> b.wire, decoded |-> b.decoded, kept |-> Kept(b)]
                          ELSE body
    /\ UNCHANGED <<asked, current, method, seen, final, hops>>

Next ==
    \/ Parse \/ LoopHead \/ Wait \/ Fail \/ NoLocation
    \/ \E to \in URLs \cup BadURLs, status \in {"see-other", "redirect"} :
           Redirect(to, status)
    \/ \E b \in Bodies : Respond(b)

Spec == Init /\ [][Next]_vars

-----------------------------------------------------------------------------
Errors ==
    {"none", "ok", "method", "invalid-url", "redirect-loop", "timeout", "blocked", "network",
     "too-many-redirects", "body", "decompressed", "encoding", "read"}

(* Every variable has its type. *)
FetchTypeOK ==
    /\ pc \in {"start", "head", "wait", "do", "done"}
    /\ asked \in Request /\ current \in URLs \cup BadURLs /\ method \in Methods \cup {"other"}
    /\ seen \subseteq URLs /\ final \in URLs \cup {"unset"}
    /\ hops \in Seq(Hop) /\ requests \in Seq(Request)
    /\ error \in Errors /\ body \in [wire : Nat, decoded : Nat, kept : Nat]

(* docs/crawling.md, Crawl traps: "Redirect loops are detected per request *)
(* and reported; a loop never consumes more than the redirect hop limit".  *)
(* Whatever the servers answer, a fetch requests no URL twice and makes at *)
(* most one request more than the limit.                                   *)
Bounded ==
    /\ \A i, j \in 1 .. Len(requests) : requests[i].url = requests[j].url => i = j
    /\ Len(requests) <= MaxRedirects + 1

(* The redirects a response reports are the way from the URL asked for to  *)
(* the final URL, each hop requested: audits report the chain, robots.txt, *)
(* canonical and link checks rely on where it ends.                        *)
ChainTrue ==
    error # "none" /\ final # "unset" =>
        /\ \A i \in 1 .. Len(hops) : hops[i].url = requests[i].url
        /\ \A i \in 1 .. Len(hops) - 1 : hops[i].to = hops[i + 1].url
        /\ IF hops = <<>> THEN final = asked.url
           ELSE IF error = "invalid-url" THEN final = hops[Len(hops)].url
           ELSE final = hops[Len(hops)].to
        /\ hops # <<>> => hops[1].url = asked.url

(* A successful fetch has requested its final URL last, with the method it *)
(* was asked to use; a fetch that reports a loop ended on a URL it had     *)
(* requested, and one with too many redirects has used up its hops.        *)
ResultTrue ==
    /\ error = "ok" => requests # <<>> /\ requests[Len(requests)].url = final
    /\ error = "redirect-loop" => \E i \in 1 .. Len(requests) : requests[i].url = final
    /\ error = "too-many-redirects" => Len(hops) = MaxRedirects + 1
    /\ \A i \in 1 .. Len(requests) : requests[i].method = asked.method

(* docs/crawling.md, Limits: a body that is kept is within both limits and *)
(* is all of the body, never a part that was cut off at a limit.           *)
BodyWhole ==
    /\ body.wire <= MaxBody /\ body.decoded <= MaxDecoded
    /\ body.kept = body.decoded

(* Whatever servers answer, a fetch ends within its limits and what it     *)
(* tells of its way is the way it took.                                    *)
WayIsTrue == FetchTypeOK /\ Bounded /\ ChainTrue
=============================================================================
