----------------------------- MODULE FetchProofs -----------------------------
(***************************************************************************)
(* Proofs about one call of Fetch, for any number of URLs and any limits;  *)
(* that a fetch over the guarded dialer is a fetch, and that the dialer    *)
(* keeps the policy, for any addresses and any answers of name servers.    *)
(***************************************************************************)
EXTENDS GuardedFetch, TLAPS, SequenceTheorems

Looping == pc \in {"head", "wait", "do"}

(* In the loop the URL and the method of the next request are good ones;   *)
(* FinalURL is the URL that is requested.                                  *)
Ready ==
    /\ Looping => current \in URLs /\ method \in Methods
    /\ pc \in {"wait", "do"} => final = current
    /\ pc = "start" => current = asked.url /\ method = asked.method

(* No body has the type of a body. *)
LEMMA NoBodyType == NoBody \in [wire : Nat, decoded : Nat, kept : Nat]
  BY DEF NoBody

(* An identity body is taken in up to one byte more than the lower limit.  *)
LEMMA TakenIs ==
    ASSUME NEW b, b.wire \in Nat
    PROVE  /\ Taken(b) \in Nat /\ Taken(b) <= b.wire
           /\ Taken(b) <= MaxBody /\ Taken(b) <= MaxDecoded => Taken(b) = b.wire
<1>1. Lesser(MaxBody, MaxDecoded) \in Nat
      /\ (Lesser(MaxBody, MaxDecoded) = MaxBody \/ Lesser(MaxBody, MaxDecoded) = MaxDecoded)
  BY LimitsAssumption DEF Lesser
<1> DEFINE m == Lesser(MaxBody, MaxDecoded)
<1>2. Taken(b) = IF b.wire < m + 1 THEN b.wire ELSE m + 1
  BY DEF Taken, Lesser
<1> HIDE DEF m
<1>3. m \in Nat /\ (m = MaxBody \/ m = MaxDecoded)
  BY <1>1 DEF m
<1> QED  BY <1>2, <1>3, LimitsAssumption

(* A request extends the history of requests by one. *)
LEMMA RequestedType ==
    ASSUME requests \in Seq(Request), current \in URLs, method \in Methods, Requested
    PROVE  /\ requests' \in Seq(Request)
           /\ Len(requests') = Len(requests) + 1
           /\ \A i \in 1 .. Len(requests) : requests'[i] = requests[i]
           /\ requests'[Len(requests) + 1] = [url |-> current, method |-> method]
<1> DEFINE r == [url |-> current, method |-> method]
<1>1. r \in Request
  BY DEF Request
<1>2. requests' = Append(requests, r)
  BY DEF Requested
<1> HIDE DEF r
<1>3. /\ Append(requests, r) \in Seq(Request)
      /\ Len(Append(requests, r)) = Len(requests) + 1
      /\ \A i \in 1 .. Len(requests) : Append(requests, r)[i] = requests[i]
      /\ Append(requests, r)[Len(requests) + 1] = r
  BY <1>1, AppendProperties
<1> QED  BY <1>2, <1>3 DEF r

(* A redirect extends the chain by one hop. *)
LEMMA RedirectType ==
    ASSUME hops \in Seq(Hop), final \in URLs,
           NEW to \in URLs \cup BadURLs, NEW status, Redirect(to, status)
    PROVE  /\ hops' \in Seq(Hop)
           /\ Len(hops') = Len(hops) + 1
           /\ \A i \in 1 .. Len(hops) : hops'[i] = hops[i]
           /\ hops'[Len(hops) + 1] = [url |-> final, to |-> to]
<1> DEFINE h == [url |-> final, to |-> to]
<1>1. h \in Hop
  BY DEF Hop
<1>2. hops' = Append(hops, h)
  BY DEF Redirect
<1> HIDE DEF h
<1>3. /\ Append(hops, h) \in Seq(Hop)
      /\ Len(Append(hops, h)) = Len(hops) + 1
      /\ \A i \in 1 .. Len(hops) : Append(hops, h)[i] = hops[i]
      /\ Append(hops, h)[Len(hops) + 1] = h
  BY <1>1, AppendProperties
<1> QED  BY <1>2, <1>3 DEF h

(* The type invariant, with what the loop needs to keep it. *)
LEMMA TypesReady == Spec => [](FetchTypeOK /\ Ready)
<1>0. \A r \in Request : r.url \in URLs \cup BadURLs /\ r.method \in Methods \cup {"other"}
  BY DEF Request
<1>1. Init => FetchTypeOK /\ Ready
  <2> SUFFICES ASSUME Init PROVE FetchTypeOK /\ Ready
    OBVIOUS
  <2>1. hops \in Seq(Hop) /\ requests \in Seq(Request)
    BY EmptySeq DEF Init
  <2>2. body \in [wire : Nat, decoded : Nat, kept : Nat] /\ error \in Errors
    BY NoBodyType DEF Init, Errors
  <2>3. asked \in Request /\ current \in URLs \cup BadURLs
        /\ method \in Methods \cup {"other"}
    BY <1>0 DEF Init
  <2>4. pc = "start" /\ current = asked.url /\ method = asked.method
        /\ seen = {} /\ final = "unset"
    BY DEF Init
  <2>5. Ready
    BY <2>4 DEF Ready, Looping
  <2> QED  BY <2>1, <2>2, <2>3, <2>4, <2>5 DEF FetchTypeOK
<1>2. FetchTypeOK /\ Ready /\ [Next]_vars => (FetchTypeOK /\ Ready)'
  <2> SUFFICES ASSUME FetchTypeOK, Ready, [Next]_vars PROVE (FetchTypeOK /\ Ready)'
    OBVIOUS
  <2> USE DEF FetchTypeOK, Ready, Looping
  <2>0. ASSUME pc = "do", Requested PROVE requests' \in Seq(Request)
    BY <2>0, RequestedType
  <2>1. CASE Parse
    BY <2>1, <1>0 DEF Parse, Return, Errors
  <2>2. CASE LoopHead
    BY <2>2 DEF LoopHead, Return, Errors
  <2>3. CASE Wait
    BY <2>3 DEF Wait, Return, Errors
  <2>4. CASE Fail
    BY <2>0, <2>4 DEF Fail, Return, Errors
  <2>5. CASE NoLocation
    BY <2>0, <2>5 DEF NoLocation, Return, Errors
  <2>6. ASSUME NEW to \in URLs \cup BadURLs, NEW status \in {"see-other", "redirect"},
               Redirect(to, status)
        PROVE  (FetchTypeOK /\ Ready)'
    <3>1. hops' \in Seq(Hop)
      <4>1. final \in URLs
        BY <2>6 DEF Redirect
      <4> QED  BY <2>6, <4>1, RedirectType
    <3>2. MethodAfter(status) \in Methods
      BY <2>6 DEF MethodAfter, Redirect, Methods
    <3>3. requests' \in Seq(Request)
      BY <2>0, <2>6 DEF Redirect
    <3> HIDE <2>0
    <3>4. CASE to \in BadURLs
      BY <2>6, <3>1, <3>3, <3>4 DEF Redirect, Return, Errors
    <3>5. CASE to \notin BadURLs /\ OverLimit(hops')
      BY <2>6, <3>1, <3>3, <3>5 DEF Redirect, Return, Errors
    <3>6. CASE to \notin BadURLs /\ ~OverLimit(hops')
      BY <2>6, <3>1, <3>2, <3>3, <3>6 DEF Redirect
    <3> QED  BY <3>4, <3>5, <3>6
  <2>7. ASSUME NEW b \in Bodies, Respond(b) PROVE (FetchTypeOK /\ Ready)'
    <3>1. [wire |-> b.wire, decoded |-> b.decoded, kept |-> Kept(b)]
            \in [wire : Nat, decoded : Nat, kept : Nat]
      <4>1. b.wire \in Nat /\ b.decoded \in Nat
        BY LimitsAssumption DEF Bodies
      <4>2. Kept(b) \in Nat
        BY <4>1, TakenIs DEF Kept
      <4> QED  BY <4>1, <4>2
    <3>2. ReadBody(b) \subseteq Errors
      BY DEF ReadBody, Errors
    <3>3. requests' \in Seq(Request)
      BY <2>0, <2>7 DEF Respond
    <3>4. body' \in [wire : Nat, decoded : Nat, kept : Nat]
      BY <2>7, <3>1 DEF Respond
    <3>5. error' \in Errors
      BY <2>7, <3>2 DEF Respond, Return, Errors
    <3> QED  BY <2>7, <3>3, <3>4, <3>5 DEF Respond, Return
  <2>8. CASE UNCHANGED vars
    BY <2>8 DEF vars
  <2> QED  BY <2>1, <2>2, <2>3, <2>4, <2>5, <2>6, <2>7, <2>8 DEF Next
<1> QED  BY <1>1, <1>2, PTL DEF Spec

(* The type invariant of a fetch. *)
THEOREM FetchTypeCorrect == Spec => []FetchTypeOK
  BY TypesReady, PTL

-----------------------------------------------------------------------------
(* A body that is kept. *)

(* readBody accepts a body only when it is within both limits, and keeps   *)
(* all of it.                                                              *)
LEMMA AcceptedWhole ==
    ASSUME NEW b \in Bodies, "ok" \in ReadBody(b)
    PROVE  b.wire <= MaxBody /\ b.decoded <= MaxDecoded /\ Kept(b) = b.decoded
<1>1. b.wire \in Nat /\ b.decoded \in Nat
  BY LimitsAssumption DEF Bodies
<1>2. CASE b.encoding = "identity"
  <2>1. Taken(b) <= MaxBody /\ Taken(b) <= MaxDecoded
    BY <1>1, <1>2, TakenIs, LimitsAssumption DEF ReadBody
  <2>2. b.decoded = b.wire
    BY <1>2 DEF Bodies
  <2> QED  BY <1>1, <1>2, <2>1, <2>2, TakenIs DEF Kept
<1>3. CASE b.encoding # "identity"
  <2>1. ~(b.wire > MaxBody) /\ ~(b.decoded > MaxDecoded)
    BY <1>1, <1>3 DEF ReadBody
  <2> QED  BY <1>1, <1>3, <2>1, LimitsAssumption DEF Kept
<1> QED  BY <1>2, <1>3

(* A body that Fetch returns is within both limits and is not cut off.     *)
THEOREM BodiesAreWhole == Spec => []BodyWhole
<1>1. Init => BodyWhole
  <2>1. Init => body = NoBody
    BY DEF Init
  <2>2. NoBody.wire = 0 /\ NoBody.decoded = 0 /\ NoBody.kept = 0
    BY DEF NoBody
  <2> QED  BY <2>1, <2>2, LimitsAssumption DEF BodyWhole
<1>2. BodyWhole /\ [Next]_vars => BodyWhole'
  <2> SUFFICES ASSUME BodyWhole, [Next]_vars PROVE BodyWhole'
    OBVIOUS
  <2>1. ASSUME NEW b \in Bodies, Respond(b) PROVE BodyWhole'
    <3>1. CASE UNCHANGED body
      BY <3>1 DEF BodyWhole
    <3>2. CASE "ok" \in ReadBody(b) /\
               body' = [wire |-> b.wire, decoded |-> b.decoded, kept |-> Kept(b)]
      BY <3>2, AcceptedWhole DEF BodyWhole
    <3> QED  BY <2>1, <3>1, <3>2 DEF Respond
  <2>2. CASE UNCHANGED body
    BY <2>2 DEF BodyWhole
  <2> QED
    BY <2>1, <2>2 DEF Next, Parse, LoopHead, Wait, Fail, NoLocation, Redirect, vars
<1> QED  BY <1>1, <1>2, PTL DEF Spec

-----------------------------------------------------------------------------
(* The bound. *)

Asked == {requests[i].url : i \in 1 .. Len(requests)}

(* Requests and hops are counted alike, and what the loop remembers are    *)
(* the URLs it has requested and the one it is about to request.           *)
Counted ==
    /\ Len(hops) <= Len(requests) /\ Len(requests) <= MaxRedirects + 1
    /\ pc # "done" => Len(requests) = Len(hops) /\ Len(hops) <= MaxRedirects
Remembered ==
    /\ \A i, j \in 1 .. Len(requests) : requests[i].url = requests[j].url => i = j
    /\ pc \in {"start", "head"} => seen = Asked
    /\ pc \in {"wait", "do"} => current \notin Asked /\ seen = Asked \cup {current}

(* A request to a URL that was not asked before keeps them distinct. *)
LEMMA AskedGrows ==
    ASSUME FetchTypeOK, Ready, Remembered, pc = "do", Requested
    PROVE  /\ Asked' = Asked \cup {current}
           /\ \A i, j \in 1 .. Len(requests') : requests'[i].url = requests'[j].url => i = j
<1>1. /\ requests' \in Seq(Request)
      /\ Len(requests') = Len(requests) + 1
      /\ \A i \in 1 .. Len(requests) : requests'[i] = requests[i]
      /\ requests'[Len(requests) + 1] = [url |-> current, method |-> method]
  BY RequestedType DEF FetchTypeOK, Ready, Looping
<1>2. Len(requests) \in Nat
  BY LenProperties DEF FetchTypeOK
<1>3. current \notin Asked
  BY DEF Remembered
<1>4. requests'[Len(requests) + 1].url = current
  BY <1>1
<1>5. \A i \in 1 .. Len(requests') : i \in 1 .. Len(requests) \/ i = Len(requests) + 1
  BY <1>1, <1>2
<1>6. 1 .. Len(requests) \subseteq 1 .. Len(requests') /\ Len(requests) + 1 \in 1 .. Len(requests')
  BY <1>1, <1>2
<1>7. Asked' = Asked \cup {current}
  BY <1>1, <1>4, <1>5, <1>6 DEF Asked
<1>8. \A i \in 1 .. Len(requests) : requests[i].url # current
  BY <1>3 DEF Asked
<1>9. \A i, j \in 1 .. Len(requests') : requests'[i].url = requests'[j].url => i = j
  BY <1>1, <1>4, <1>5, <1>8 DEF Remembered
<1> QED  BY <1>7, <1>9

(* The counts of requests and redirects stay in step. *)
LEMMA CountedStep ==
    ASSUME FetchTypeOK, Ready, Counted, [Next]_vars
    PROVE  Counted'
<1>1. Len(requests) \in Nat /\ Len(hops) \in Nat
  BY LenProperties DEF FetchTypeOK
<1>2. ASSUME pc = "do", Requested PROVE Len(requests') = Len(requests) + 1
  BY <1>2, RequestedType DEF FetchTypeOK, Ready, Looping
<1>3. ASSUME NEW to \in URLs \cup BadURLs, NEW status, Redirect(to, status)
      PROVE  Counted'
  <2>1. Len(hops') = Len(hops) + 1
    BY <1>3, RedirectType DEF FetchTypeOK, Ready, Looping, Redirect
  <2>2. Len(requests') = Len(requests) + 1 /\ pc = "do"
    BY <1>2, <1>3 DEF Redirect
  <2>3. pc' # "done" => ~OverLimit(hops')
    BY <1>3 DEF Redirect, Return
  <2> QED  BY <1>1, <2>1, <2>2, <2>3, LimitsAssumption DEF Counted, OverLimit
<1>4. ASSUME pc = "do", pc' = "done", Requested, UNCHANGED hops PROVE Counted'
  BY <1>1, <1>2, <1>4, LimitsAssumption DEF Counted
<1>5. CASE UNCHANGED <<requests, hops>> /\ (pc = "done" => pc' = "done")
  BY <1>5 DEF Counted
<1> QED
  BY <1>3, <1>4, <1>5
     DEF Next, Parse, LoopHead, Wait, Fail, NoLocation, Respond, Return, vars

(* What was requested is in seen. *)
LEMMA RememberedStep ==
    ASSUME FetchTypeOK, Ready, Remembered, [Next]_vars
    PROVE  Remembered'
<1>1. CASE Parse
  BY <1>1 DEF Parse, Return, Remembered, Asked
<1>2. CASE LoopHead
  BY <1>2 DEF LoopHead, Return, Remembered, Asked
<1>3. CASE Wait
  BY <1>3 DEF Wait, Return, Remembered, Asked
<1>4. ASSUME pc = "do", Requested, UNCHANGED seen, pc' \in {"head", "done"}
      PROVE  Remembered'
  BY <1>4, AskedGrows DEF Remembered
<1>5. CASE UNCHANGED vars
  BY <1>5 DEF vars, Remembered, Asked
<1> QED
  BY <1>1, <1>2, <1>3, <1>4, <1>5 DEF Next, Fail, NoLocation, Redirect, Respond, Return

(* The invariant of the redirect loop. *)
LEMMA LoopInvariant == Spec => [](FetchTypeOK /\ Ready /\ Counted /\ Remembered)
<1>1. Init => Counted /\ Remembered
  <2> SUFFICES ASSUME Init PROVE Counted /\ Remembered
    OBVIOUS
  <2>1. Len(requests) = 0 /\ Len(hops) = 0 /\ pc = "start" /\ seen = {}
    BY DEF Init
  <2>2. Asked = {}
    BY <2>1 DEF Asked
  <2> QED  BY <2>1, <2>2, LimitsAssumption DEF Counted, Remembered
<1>2. FetchTypeOK /\ Ready /\ Counted /\ Remembered /\ [Next]_vars
      => (Counted /\ Remembered)'
  BY CountedStep, RememberedStep
<1> QED  BY <1>1, <1>2, TypesReady, PTL DEF Spec

(* A fetch requests no URL twice and no more URLs than the limit on        *)
(* redirects allows, whatever the servers answer.                          *)
THEOREM RequestsBounded == Spec => []Bounded
<1>1. Counted /\ Remembered => Bounded
  BY DEF Counted, Remembered, Bounded
<1> QED  BY <1>1, LoopInvariant, PTL

-----------------------------------------------------------------------------
(* The chain and the result. *)

(* What the properties of the outcome need while the loop runs: each hop   *)
(* was requested, the next URL is where the last hop leads, and the method *)
(* is the one that was asked for.                                          *)
Path ==
    /\ \A i \in 1 .. Len(hops) : hops[i].url = requests[i].url
    /\ \A i \in 1 .. Len(hops) - 1 : hops[i].to = hops[i + 1].url
    /\ Len(hops) > 0 => hops[1].url = asked.url
    /\ pc # "done" =>
           /\ current = IF Len(hops) = 0 THEN asked.url ELSE hops[Len(hops)].to
           /\ error = "none"
    /\ pc = "start" => final = "unset"
    /\ method = asked.method
    /\ \A i \in 1 .. Len(requests) : requests[i].method = asked.method

\* What is true of the outcome, once there is one.
Outcome ==
    pc = "done" =>
        /\ final # "unset" =>
              final = IF Len(hops) = 0 THEN asked.url
                      ELSE IF error = "invalid-url" THEN hops[Len(hops)].url
                      ELSE hops[Len(hops)].to
        /\ error = "ok" => Len(requests) > 0 /\ requests[Len(requests)].url = final
        /\ error = "redirect-loop" => final \in Asked
        /\ error = "too-many-redirects" => Len(hops) = MaxRedirects + 1

Running == FetchTypeOK /\ Ready /\ Counted /\ Remembered

(* A redirect extends the path. *)
LEMMA RedirectPath ==
    ASSUME Running, Path,
           NEW to \in URLs \cup BadURLs, NEW status, Redirect(to, status)
    PROVE  Path' /\ Outcome'
<1>0. FetchTypeOK /\ Ready /\ Counted /\ Remembered /\ pc = "do"
      /\ final \in URLs /\ Requested
  BY DEF Running, Ready, Looping, Redirect
<1>1. /\ Len(hops') = Len(hops) + 1
      /\ \A i \in 1 .. Len(hops) : hops'[i] = hops[i]
      /\ hops'[Len(hops) + 1].url = final /\ hops'[Len(hops) + 1].to = to
  <2>1. hops \in Seq(Hop)
    BY <1>0 DEF FetchTypeOK
  <2>2. hops'[Len(hops) + 1] = [url |-> final, to |-> to]
    BY <1>0, <2>1, RedirectType
  <2> QED  BY <1>0, <2>1, <2>2, RedirectType
<1>2. /\ Len(requests') = Len(requests) + 1
      /\ \A i \in 1 .. Len(requests) : requests'[i] = requests[i]
      /\ requests'[Len(requests) + 1].url = current
      /\ requests'[Len(requests) + 1].method = method
  <2>1. current \in URLs /\ method \in Methods /\ requests \in Seq(Request)
    BY <1>0 DEF FetchTypeOK, Ready, Looping
  <2>2. requests'[Len(requests) + 1] = [url |-> current, method |-> method]
    BY <1>0, <2>1, RequestedType
  <2> QED  BY <1>0, <2>1, <2>2, RequestedType
<1>3. Len(hops) \in Nat /\ Len(requests) = Len(hops)
  BY <1>0, LenProperties DEF FetchTypeOK, Counted
<1>4. final = current /\ pc = "do" /\ method \in Methods /\ asked' = asked
  BY <1>0 DEF Ready, Looping, Redirect
<1>5. method' = asked.method
  BY <1>4 DEF Redirect, MethodAfter, Methods, Path
<1>6. \A i \in 1 .. Len(hops') : hops'[i].url = requests'[i].url
  <2> TAKE i \in 1 .. Len(hops')
  <2>1. CASE i \in 1 .. Len(hops)
    BY <1>1, <1>2, <1>3, <2>1 DEF Path
  <2>2. CASE i = Len(hops) + 1
    BY <1>1, <1>2, <1>3, <1>4, <2>2
  <2> QED  BY <1>1, <1>3, <2>1, <2>2
<1>7. \A i \in 1 .. Len(hops') - 1 : hops'[i].to = hops'[i + 1].url
  <2> TAKE i \in 1 .. Len(hops') - 1
  <2>1. CASE i \in 1 .. Len(hops) - 1
    BY <1>1, <1>3, <2>1 DEF Path
  <2>2. CASE i = Len(hops)
    BY <1>1, <1>3, <1>4, <2>2 DEF Path
  <2> QED  BY <1>1, <1>3, <2>1, <2>2
<1>8. hops'[1].url = asked.url
  <2>1. CASE Len(hops) = 0
    BY <1>1, <1>4, <2>1 DEF Path
  <2>2. CASE Len(hops) > 0
    BY <1>1, <1>3, <2>2 DEF Path
  <2> QED  BY <1>3, <2>1, <2>2
<1>9. \A i \in 1 .. Len(requests') : requests'[i].method = asked.method
  <2> TAKE i \in 1 .. Len(requests')
  <2>1. CASE i \in 1 .. Len(requests)
    BY <1>2, <2>1 DEF Path
  <2>2. CASE i = Len(requests) + 1
    BY <1>2, <2>2 DEF Path
  <2> QED  BY <1>2, <1>3, <2>1, <2>2
<1>10. Path'
  <2>1. pc' # "done" => current' = hops'[Len(hops')].to /\ error' = "none"
    BY <1>1, <1>4 DEF Redirect, Return, Path
  <2>2. pc' # "start"
    BY DEF Redirect, Return
  <2> QED  BY <1>1, <1>3, <1>4, <1>5, <1>6, <1>7, <1>8, <1>9, <2>1, <2>2 DEF Path
<1>11. Outcome'
  <2>1. CASE to \in BadURLs
    BY <1>1, <1>3, <1>4, <2>1 DEF Redirect, Return, Outcome
  <2>2. CASE to \notin BadURLs /\ OverLimit(hops')
    BY <1>0, <1>1, <1>3, <1>4, <2>2, LimitsAssumption
       DEF Redirect, Return, Outcome, OverLimit, Counted
  <2>3. CASE to \notin BadURLs /\ ~OverLimit(hops')
    BY <2>3 DEF Redirect, Outcome
  <2> QED  BY <2>1, <2>2, <2>3
<1> QED  BY <1>10, <1>11

(* A request that ends the fetch leaves the path as it is. *)
LEMMA LastRequest ==
    ASSUME Running, Path, pc = "do", Requested, pc' = "done", error' \notin
           {"invalid-url", "redirect-loop", "too-many-redirects"},
           UNCHANGED <<asked, current, method, seen, final, hops>>
    PROVE  Path' /\ Outcome'
<1>0. FetchTypeOK /\ Ready /\ Counted
  BY DEF Running
<1>1. /\ Len(requests') = Len(requests) + 1
      /\ \A i \in 1 .. Len(requests) : requests'[i] = requests[i]
      /\ requests'[Len(requests) + 1].url = current
      /\ requests'[Len(requests) + 1].method = method
  BY <1>0, RequestedType DEF FetchTypeOK, Ready, Looping
<1>2. Len(hops) \in Nat /\ Len(requests) = Len(hops)
  BY <1>0, LenProperties DEF FetchTypeOK, Counted
<1>3. final = current
  BY <1>0 DEF Ready
<1>4. \A i \in 1 .. Len(requests') : requests'[i].method = asked.method
  <2> TAKE i \in 1 .. Len(requests')
  <2>1. CASE i \in 1 .. Len(requests)
    BY <1>1, <2>1 DEF Path
  <2>2. CASE i = Len(requests) + 1
    BY <1>1, <2>2 DEF Path
  <2> QED  BY <1>1, <1>2, <2>1, <2>2
<1>5. Path'
  BY <1>1, <1>2, <1>4 DEF Path
<1>6. Outcome'
  BY <1>1, <1>2, <1>3 DEF Outcome, Path
<1> QED  BY <1>5, <1>6

(* Every step extends the chain, or ends it with a true outcome. *)
LEMMA PathStep ==
    ASSUME Running, Path, Outcome, [Next]_vars
    PROVE  Path' /\ Outcome'
<1>1. CASE Parse
  BY <1>1 DEF Parse, Return, Path, Outcome
<1>2. CASE LoopHead
  <2>1. Path'
    BY <1>2 DEF LoopHead, Return, Path
  <2>2. current \in seen => current \in Asked
    BY <1>2 DEF LoopHead, Running, Remembered
  <2>3. Outcome'
    BY <1>2, <2>2 DEF LoopHead, Return, Path, Outcome, Asked
  <2> QED  BY <2>1, <2>3
<1>3. CASE Wait
  <2>1. final = current
    BY <1>3 DEF Wait, Running, Ready
  <2> QED  BY <1>3, <2>1 DEF Wait, Return, Path, Outcome
<1>4. CASE Fail \/ NoLocation
  BY <1>4, LastRequest DEF Fail, NoLocation, Return
<1>5. ASSUME NEW b \in Bodies, Respond(b) PROVE Path' /\ Outcome'
  <2>1. "invalid-url" \notin ReadBody(b) /\ "redirect-loop" \notin ReadBody(b)
        /\ "too-many-redirects" \notin ReadBody(b)
    BY DEF ReadBody
  <2> QED  BY <1>5, <2>1, LastRequest DEF Respond, Return
<1>6. CASE UNCHANGED vars
  BY <1>6 DEF vars, Path, Outcome, Asked
<1> QED  BY <1>1, <1>2, <1>3, <1>4, <1>5, <1>6, RedirectPath DEF Next

(* The chain and the outcome are true throughout. *)
LEMMA PathInvariant == Spec => [](Running /\ Path /\ Outcome)
<1>1. Init => Path /\ Outcome
  <2> SUFFICES ASSUME Init PROVE Path /\ Outcome
    OBVIOUS
  <2>1. Len(requests) = 0 /\ Len(hops) = 0 /\ pc = "start" /\ final = "unset" /\ error = "none"
        /\ current = asked.url /\ method = asked.method
    BY DEF Init
  <2>2. Path
    BY <2>1 DEF Path
  <2>3. Outcome
    BY <2>1 DEF Outcome
  <2> QED  BY <2>2, <2>3
<1>2. Running /\ Path /\ Outcome /\ [Next]_vars => (Path /\ Outcome)'
  BY PathStep
<1> QED  BY <1>1, <1>2, LoopInvariant, PTL DEF Spec, Running

(* The redirects that a response reports lead from the URL asked for to    *)
(* its final URL, and every one of them was requested.                     *)
THEOREM ChainIsTrue == Spec => []ChainTrue
<1>1. Running /\ Path /\ Outcome => ChainTrue
  <2> SUFFICES ASSUME Running, Path, Outcome, error # "none", final # "unset" PROVE ChainTrue
    BY DEF ChainTrue
  <2>1. Len(hops) \in Nat /\ (hops = <<>> <=> Len(hops) = 0)
    BY EmptySeq, LenProperties DEF Running, FetchTypeOK
  <2>2. pc = "done"
    BY DEF Path
  <2> QED  BY <2>1, <2>2 DEF ChainTrue, Path, Outcome
<1> QED  BY <1>1, PathInvariant, PTL

(* What an outcome says of the last request is so. *)
THEOREM ResultIsTrue == Spec => []ResultTrue
<1>1. Running /\ Path /\ Outcome => ResultTrue
  <2> SUFFICES ASSUME Running, Path, Outcome PROVE ResultTrue
    OBVIOUS
  <2>1. Len(requests) \in Nat /\ (requests = <<>> <=> Len(requests) = 0)
    BY EmptySeq, LenProperties DEF Running, FetchTypeOK
  <2>2. pc # "done" => error = "none"
    BY DEF Path
  <2> QED  BY <2>1, <2>2 DEF ResultTrue, Path, Outcome, Asked
<1> QED  BY <1>1, PathInvariant, PTL

(* A fetch stays within its limits and tells the way it took.             *)
THEOREM WaysAreTrue == Spec => []WayIsTrue
<1>1. FetchTypeOK /\ Bounded /\ ChainTrue => WayIsTrue
  BY DEF WayIsTrue
<1> QED
  BY <1>1, FetchTypeCorrect, RequestsBounded, ChainIsTrue, PTL

-----------------------------------------------------------------------------
(* The tables of prefixes. *)

(* No prefix is listed twice, nor the whole of the global unicast space.   *)
LEMMA V4Nets ==
    /\ Len(V4Prefixes) = 16
    /\ \A i, j \in 1 .. 16 : V4Prefixes[i].net = V4Prefixes[j].net => i = j
    /\ \A i \in 1 .. 16 : V4Prefixes[i].net # "2000::/3"
  BY SMTT(60) DEF V4Prefixes, Prefix

LEMMA V6Nets ==
    /\ Len(V6Prefixes) = 15
    /\ \A i, j \in 1 .. 15 : V6Prefixes[i].net = V6Prefixes[j].net => i = j
    /\ \A i \in 1 .. 15 : V6Prefixes[i].net # "2000::/3"
  BY SMTT(60) DEF V6Prefixes, Prefix

(* A prefix within another is listed first.                                *)
LEMMA V4Inner ==
    ASSUME NEW i \in 1 .. 16, NEW j \in 1 .. 16,
           <<V4Prefixes[i].net, V4Prefixes[j].net>> \in Within
    PROVE  i = 15 /\ j = 16
  BY SMTT(60) DEF V4Prefixes, Prefix, Within

LEMMA V6Inner ==
    ASSUME NEW i \in 1 .. 15, NEW j \in 1 .. 15,
           <<V6Prefixes[i].net, V6Prefixes[j].net>> \in Within
    PROVE  i \in {1, 2} /\ j = 3
  BY SMTT(60) DEF V6Prefixes, Prefix, Within

(* The bits of the prefixes that nest, and of all.                         *)
LEMMA V4Bits ==
    /\ V4Prefixes[15].bits = 32 /\ V4Prefixes[16].bits = 4
    /\ \A i \in 1 .. 16 : V4Prefixes[i].bits \in Nat
  BY SMTT(60) DEF V4Prefixes, Prefix

LEMMA V6Bits ==
    /\ V6Prefixes[1].bits = 128 /\ V6Prefixes[2].bits = 128 /\ V6Prefixes[3].bits = 96
    /\ \A i \in 1 .. 15 : V6Prefixes[i].bits \in Nat
  BY SMTT(60) DEF V6Prefixes, Prefix

(* Two prefixes that hold an address are one within the other.             *)
LEMMA NetsNest ==
    ASSUME NEW a \in Addresses,
           NEW m \in a.nets \ {"2000::/3"}, NEW n \in a.nets \ {"2000::/3"}, m # n
    PROVE  <<m, n>> \in Within \/ <<n, m>> \in Within
  BY AddressesAssumption

(* Of two entries that hold an address the first is the more specific, and *)
(* no entry before it holds the address.                                   *)
LEMMA FirstIsNarrower ==
    ASSUME NEW a \in Addresses, NEW i \in Holding(a), NEW j \in Holding(a), i < j
    PROVE  /\ Table(a)[j].bits < Table(a)[i].bits
           /\ \A k \in Holding(a) : i <= k
<1> DEFINE P(x, y) == <<Table(a)[x].net, Table(a)[y].net>> \in Within
<1>1. \A x \in Holding(a) : x \in 1 .. Len(Table(a)) /\ Table(a)[x].net \in a.nets
  BY DEF Holding
<1>2. CASE a.form # "v6"
  <2>1. Table(a) = V4Prefixes
    BY <1>2 DEF Table
  <2>2. \A x \in Holding(a) : x \in 1 .. 16 /\ Table(a)[x].net \in a.nets \ {"2000::/3"}
    BY <1>1, <2>1, V4Nets
  <2>3. ASSUME NEW x \in Holding(a), NEW y \in Holding(a), x < y PROVE x = 15 /\ y = 16
    <3>1. Table(a)[x].net # Table(a)[y].net
      BY <2>1, <2>2, <2>3, V4Nets
    <3>2. P(x, y) \/ P(y, x)
      <4> DEFINE m == Table(a)[x].net
                 n == Table(a)[y].net
      <4>1. m \in a.nets \ {"2000::/3"} /\ n \in a.nets \ {"2000::/3"} /\ m # n
        BY <2>2, <3>1
      <4>2. <<m, n>> \in Within \/ <<n, m>> \in Within
        <5> HIDE DEF m, n
        <5> QED  BY <4>1, NetsNest
      <4> QED  BY <4>2
    <3>3. CASE P(x, y)
      BY <2>1, <2>2, <3>3, V4Inner
    <3>4. CASE P(y, x)
      <4>1. x \in 1 .. 16 /\ y \in 1 .. 16
        BY <2>2
      <4>2. y = 15 /\ x = 16
        BY <2>1, <3>4, <4>1, V4Inner
      <4> QED  BY <2>3, <4>2
    <3> QED  BY <3>2, <3>3, <3>4
  <2>4. \A k \in Holding(a) : i <= k
    <3>1. i \in 1 .. 16 /\ \A k \in Holding(a) : k \in 1 .. 16
      BY <2>2
    <3>2. \A k \in Holding(a) : ~(k < i)
      BY <2>3, <3>1
    <3> QED  BY <3>1, <3>2
  <2> QED  BY <2>1, <2>3, <2>4, V4Bits
<1>3. CASE a.form = "v6"
  <2>1. Table(a) = V6Prefixes
    BY <1>3 DEF Table
  <2>2. \A x \in Holding(a) : x \in 1 .. 15 /\ Table(a)[x].net \in a.nets \ {"2000::/3"}
    BY <1>1, <2>1, V6Nets
  <2>3. ASSUME NEW x \in Holding(a), NEW y \in Holding(a), x < y PROVE x \in {1, 2} /\ y = 3
    <3>1. Table(a)[x].net # Table(a)[y].net
      BY <2>1, <2>2, <2>3, V6Nets
    <3>2. P(x, y) \/ P(y, x)
      <4> DEFINE m == Table(a)[x].net
                 n == Table(a)[y].net
      <4>1. m \in a.nets \ {"2000::/3"} /\ n \in a.nets \ {"2000::/3"} /\ m # n
        BY <2>2, <3>1
      <4>2. <<m, n>> \in Within \/ <<n, m>> \in Within
        <5> HIDE DEF m, n
        <5> QED  BY <4>1, NetsNest
      <4> QED  BY <4>2
    <3>3. CASE P(x, y)
      BY <2>1, <2>2, <3>3, V6Inner
    <3>4. CASE P(y, x)
      <4>1. x \in 1 .. 15 /\ y \in 1 .. 15
        BY <2>2
      <4>2. y \in {1, 2} /\ x = 3
        BY <2>1, <3>4, <4>1, V6Inner
      <4> QED  BY <2>3, <4>2
    <3> QED  BY <3>2, <3>3, <3>4
  <2>4. \A k \in Holding(a) : i <= k
    <3>1. i \in 1 .. 15 /\ \A k \in Holding(a) : k \in 1 .. 15
      BY <2>2
    <3>2. \A k \in Holding(a) : ~(k < i)
      BY <2>3, <3>1
    <3> QED  BY <3>1, <3>2
  <2>5. Table(a)[j].bits = 96 /\ Table(a)[i].bits = 128
    BY <2>1, <2>3, V6Bits
  <2> QED  BY <2>4, <2>5
<1> QED  BY <1>2, <1>3

(* The first entry that holds an address is the most specific one, so the  *)
(* dialer lets through what the policy permits, no more and no less.       *)
LEMMA CheckIPIsPolicy ==
    ASSUME NEW a \in Addresses, allowPrivate \in BOOLEAN
    PROVE  CheckIP(a) <=> Permitted(a)
<1> DEFINE holding == {Table(a)[i] : i \in Holding(a)}
           narrow == {e \in holding : \A f \in holding : f.bits <= e.bits}
           class == IF holding = {} THEN OfNone(a) ELSE (CHOOSE e \in narrow : TRUE).class
<1>1. "public" \in WithPrivate /\ "metadata" \notin WithPrivate
  BY DEF WithPrivate
<1>2. ASSUME ~a.metadata PROVE Classify(a) = class
  <2>1. CASE Holding(a) = {}
    BY <1>2, <2>1 DEF Classify
  <2>2. CASE Holding(a) # {}
    <3> DEFINE m == Min(Holding(a))
    <3>0. \A x \in Holding(a) : x \in Int /\ Table(a)[x].bits \in Nat
      <4> TAKE x \in Holding(a)
      <4>1. x \in 1 .. Len(Table(a))
        BY DEF Holding
      <4>2. CASE a.form = "v6"
        <5>1. Table(a) = V6Prefixes
          BY <4>2 DEF Table
        <5>2. x \in 1 .. 15
          BY <4>1, <5>1, V6Nets
        <5> QED  BY <5>1, <5>2, V6Bits
      <4>3. CASE a.form # "v6"
        <5>1. Table(a) = V4Prefixes
          BY <4>3 DEF Table
        <5>2. x \in 1 .. 16
          BY <4>1, <5>1, V4Nets
        <5> QED  BY <5>1, <5>2, V4Bits
      <4> QED  BY <4>2, <4>3
    <3>1. \E x \in Holding(a) : \A k \in Holding(a) : x <= k
      <4>1. PICK x \in Holding(a) : TRUE
        BY <2>2
      <4>2. CASE \E y \in Holding(a) : y < x
        BY <4>1, <4>2, FirstIsNarrower
      <4>3. CASE ~ \E y \in Holding(a) : y < x
        BY <3>0, <4>1, <4>3
      <4> QED  BY <4>2, <4>3
    <3>2. m \in Holding(a) /\ \A k \in Holding(a) : m <= k
      BY <3>1 DEF Min
    <3> HIDE DEF m
    <3>3. \A k \in Holding(a) : k = m \/ Table(a)[k].bits < Table(a)[m].bits
      <4> TAKE k \in Holding(a)
      <4>1. k = m \/ m < k
        BY <3>0, <3>2
      <4> QED  BY <3>2, <4>1, FirstIsNarrower
    <3>4. narrow = {Table(a)[m]}
      BY <3>0, <3>2, <3>3
    <3>5. (CHOOSE e \in narrow : TRUE) = Table(a)[m]
      <4> HIDE DEF narrow
      <4> QED  BY <3>4
    <3>6. holding # {}
      BY <3>2
    <3>7. class = Table(a)[m].class
      BY <3>5, <3>6
    <3> QED  BY <1>2, <2>2, <3>7 DEF Classify, m
  <2> QED  BY <2>1, <2>2
<1>3. CASE a.metadata
  BY <1>1, <1>3 DEF CheckIP, Permitted, Classify
<1>4. CASE ~a.metadata
  <2>1. Permitted(a) <=> ~a.zone /\ (class = "public" \/ (allowPrivate /\ class \in WithPrivate))
    BY <1>4 DEF Permitted
  <2>2. CheckIP(a) <=> ~a.zone /\ class \in IF allowPrivate THEN WithPrivate ELSE {"public"}
    BY <1>2, <1>4 DEF CheckIP
  <2> HIDE DEF class
  <2> QED  BY <1>1, <2>1, <2>2
<1> QED  BY <1>3, <1>4

-----------------------------------------------------------------------------
(* The fetch below the dialer. *)

(* Every step of a guarded fetch is a step of a fetch, or leaves it alone. *)
LEMMA GuardedStep == [GuardedNext]_<<vars, guard>> => [Next]_vars
<1> SUFFICES ASSUME GuardedNext PROVE Next \/ UNCHANGED vars
  BY DEF vars
<1>1. CASE (Parse \/ LoopHead \/ Wait) /\ UNCHANGED guard
  BY <1>1 DEF Next
<1>2. CASE Reuse \/ CheckHost \/ Resolve \/ Check \/ Dial
  <2>1. UNCHANGED <<vars, allowPrivate, pool>>
    BY <1>2 DEF Reuse, CheckHost, Resolve, Check, Dial
  <2> QED  BY <2>1
<1>3. CASE Exchange
  BY <1>3 DEF Exchange, Next
<1>4. CASE NoExchange
  BY <1>4 DEF NoExchange, Next
<1> QED  BY <1>1, <1>2, <1>3, <1>4 DEF GuardedNext

(* As GuardedFetch is made of the actions of Fetch, what is proved of a    *)
(* fetch carries over.                                                     *)
LEMMA GuardedIsFetch == GuardedSpec => Spec
<1>1. GuardedInit => Init
  BY DEF GuardedInit
<1> QED  BY <1>1, GuardedStep, PTL DEF GuardedSpec, Spec

(* So what is proved of a fetch holds over the dialer.                     *)
THEOREM GuardedFetchIsTrue == GuardedSpec => [](WayIsTrue /\ ResultTrue /\ BodyWhole)
<1>1. Spec => [](WayIsTrue /\ ResultTrue /\ BodyWhole)
  BY WaysAreTrue, ResultIsTrue, BodiesAreWhole, PTL
<1> QED  BY <1>1, GuardedIsFetch, PTL

-----------------------------------------------------------------------------
(* The policy. *)

Stages == {"none", "resolve", "check", "dial", "connected", "blocked", "failed"}

\* The dialer works for a request; it looks at an address it has.
Dialer ==
    /\ allowPrivate \in BOOLEAN
    /\ conn \in [at : Stages, ips : Seq(Addresses), i : Nat]
    /\ conn.at # "none" => pc = "do"
    /\ conn.at = "none" => conn = NoConn
    /\ conn.i \in 1 .. Len(conn.ips) + 1
    /\ conn.at \in {"check", "dial", "connected"} => conn.i \in 1 .. Len(conn.ips)
    /\ pool \subseteq [host : {Host[u] : u \in URLs}, ip : Addresses]

\* The addresses before the current one have passed, when dialing all have.
Passed ==
    /\ conn.at = "check" => \A j \in 1 .. conn.i - 1 : CheckIP(conn.ips[j])
    /\ conn.at \in {"dial", "connected"} => \A j \in 1 .. Len(conn.ips) : CheckIP(conn.ips[j])
    /\ \A c \in pool : CheckIP(c.ip)
    /\ conn.at = "blocked" =>
           \/ \E j \in 1 .. Len(conn.ips) : ~CheckIP(conn.ips[j])
           \/ ~allowPrivate /\ Here \in LocalNames

(* One address makes a sequence of addresses. *)
LEMMA OneAddress ==
    ASSUME NEW a \in Addresses
    PROVE  <<a>> \in Seq(Addresses) /\ Len(<<a>>) = 1 /\ <<a>>[1] = a
  OBVIOUS

(* A dialer that goes on keeps its addresses.                              *)
LEMMA GoesOn ==
    ASSUME conn \in [at : Stages, ips : Seq(Addresses), i : Nat],
           NEW at \in Stages, NEW i \in Nat, conn' = [conn EXCEPT !.at = at, !.i = i]
    PROVE  /\ conn' \in [at : Stages, ips : Seq(Addresses), i : Nat]
           /\ conn'.at = at /\ conn'.ips = conn.ips /\ conn'.i = i
<1>1. conn'.at = at /\ conn'.ips = conn.ips /\ conn'.i = i
  OBVIOUS
<1>2. conn' \in [at : Stages, ips : Seq(Addresses), i : Nat]
  OBVIOUS
<1> QED  BY <1>1, <1>2

(* Where the dialer is sent it starts at the first address.                *)
LEMMA SentTo ==
    ASSUME conn \in [at : Stages, ips : Seq(Addresses), i : Nat], NEW at \in Stages, To(at)
    PROVE  /\ conn' \in [at : Stages, ips : Seq(Addresses), i : Nat]
           /\ conn'.at = at /\ conn'.ips = conn.ips /\ conn'.i = 1
<1>1. conn' = [conn EXCEPT !.at = at, !.i = 1]
  BY DEF To
<1> QED  BY <1>1, GoesOn

(* Every step keeps the dialer in order and within the policy. *)
LEMMA PolicyStep ==
    ASSUME Ready, Dialer, Passed, [GuardedNext]_<<vars, guard>>
    PROVE  Dialer' /\ Passed'
<1> USE DEF Dialer, Passed
<1>0. Len(conn.ips) \in Nat /\ \A j \in 1 .. Len(conn.ips) : conn.ips[j] \in Addresses
  BY LenProperties, ElementOfSeq
<1>1. CASE (Parse \/ LoopHead \/ Wait) /\ UNCHANGED guard
  <2>1. pc # "do" /\ conn = NoConn
    BY <1>1 DEF Parse, LoopHead, Wait
  <2>2. UNCHANGED <<allowPrivate, conn, pool>>
    BY <1>1 DEF guard
  <2>3. conn.at = "none"
    BY <2>1 DEF NoConn
  <2> QED  BY <2>2, <2>3 DEF CheckIP
<1>2. CASE Reuse
  <2>1. PICK c \in pool : conn' = [at |-> "connected", ips |-> <<c.ip>>, i |-> 1]
    BY <1>2 DEF Reuse
  <2>2. pc' = "do" /\ UNCHANGED <<allowPrivate, pool, current>>
    BY <1>2 DEF Reuse, Dialing, vars
  <2>3. c.ip \in Addresses /\ CheckIP(c.ip)
    OBVIOUS
  <2>4. Dialer'
    BY <2>1, <2>2, <2>3, OneAddress DEF Stages
  <2>5. Passed'
    BY <2>1, <2>2, <2>3, OneAddress DEF CheckIP
  <2> QED  BY <2>4, <2>5
<1>3. CASE CheckHost
  <2>1. pc' = "do" /\ UNCHANGED <<allowPrivate, pool, current>> /\ conn = NoConn
    BY <1>3 DEF CheckHost, Dialing, vars
  <2>2. CASE Here \in DOMAIN Literals
    <3> DEFINE a == Literals[Here]
    <3>1. a \in Addresses
      BY <2>2, NamesAssumption
    <3>2. conn' = [at |-> IF CheckIP(a) THEN "check" ELSE "blocked", ips |-> <<a>>, i |-> 1]
      BY <1>3, <2>2 DEF CheckHost
    <3> HIDE DEF a
    <3>3. Dialer'
      BY <2>1, <3>1, <3>2, OneAddress DEF Stages
    <3>4. Passed'
      BY <2>1, <3>1, <3>2, OneAddress DEF CheckIP
    <3> QED  BY <3>3, <3>4
  <2>3. CASE Here \notin DOMAIN Literals
    <3> DEFINE at == IF ~allowPrivate /\ Here \in LocalNames THEN "blocked" ELSE "resolve"
    <3>1. To(at) /\ at \in Stages
      BY <1>3, <2>3 DEF CheckHost, Stages
    <3> HIDE DEF at
    <3>2. /\ conn' \in [at : Stages, ips : Seq(Addresses), i : Nat]
          /\ conn'.at = at /\ conn'.ips = conn.ips /\ conn'.i = 1
      BY <3>1, SentTo
    <3> USE DEF at
    <3>3. Dialer'
      BY <1>0, <2>1, <3>2
    <3>4. Passed'
      BY <2>1, <3>2 DEF CheckIP, Here
    <3> QED  BY <3>3, <3>4
  <2> QED  BY <2>2, <2>3
<1>4. CASE Resolve
  <2>1. pc' = "do" /\ UNCHANGED <<allowPrivate, pool, current>>
    BY <1>4 DEF Resolve, Dialing, vars
  <2>2. ASSUME NEW ips \in Answers \ {<<>>}, conn' = [at |-> "check", ips |-> ips, i |-> 1]
        PROVE  Dialer' /\ Passed'
    <3>1. ips \in Seq(Addresses) /\ Len(ips) \in Nat /\ Len(ips) # 0
      BY NamesAssumption, LenProperties, EmptySeq
    <3>2. /\ conn' \in [at : Stages, ips : Seq(Addresses), i : Nat]
          /\ conn'.at = "check" /\ conn'.i = 1 /\ conn'.ips = ips
      BY <2>2, <3>1 DEF Stages
    <3>3. Dialer'
      BY <2>1, <3>1, <3>2
    <3>4. Passed'
      BY <2>1, <3>2 DEF CheckIP
    <3> QED  BY <3>3, <3>4
  <2>3. ASSUME To("failed") PROVE Dialer' /\ Passed'
    <3>1. /\ conn' \in [at : Stages, ips : Seq(Addresses), i : Nat]
          /\ conn'.at = "failed" /\ conn'.ips = conn.ips /\ conn'.i = 1
      BY <2>3, SentTo DEF Stages
    <3>2. Dialer'
      BY <1>0, <2>1, <3>1
    <3>3. Passed'
      BY <2>1, <3>1 DEF CheckIP
    <3> QED  BY <3>2, <3>3
  <2> QED  BY <1>4, <2>2, <2>3 DEF Resolve
<1>5. CASE Check
  <2>1. pc' = "do" /\ UNCHANGED <<allowPrivate, pool, current>> /\ conn.at = "check"
    BY <1>5 DEF Check, Dialing, vars
  <2>2. CASE Checked
    <3>1. /\ conn' \in [at : Stages, ips : Seq(Addresses), i : Nat]
          /\ conn'.at = "dial" /\ conn'.ips = conn.ips /\ conn'.i = 1
      <4>1. To("dial")
        BY <1>5, <2>2 DEF Check
      <4> QED  BY <4>1, SentTo DEF Stages
    <3>2. \A j \in 1 .. Len(conn.ips) : CheckIP(conn.ips[j])
      BY <1>0, <2>1, <2>2 DEF Checked
    <3>3. Dialer'
      <4>1. 1 \in 1 .. Len(conn.ips)
        BY <1>0, <2>1
      <4> QED  BY <1>0, <2>1, <3>1, <4>1
    <3>4. Passed'
      BY <2>1, <3>1, <3>2 DEF CheckIP
    <3> QED  BY <3>3, <3>4
  <2>3. CASE ~Checked /\ CheckIP(conn.ips[conn.i])
    <3>1. /\ conn'.at = "check" /\ conn'.ips = conn.ips /\ conn'.i = conn.i + 1
          /\ conn' = [conn EXCEPT !.i = @ + 1]
      BY <1>5, <2>1, <2>3 DEF Check
    <3>2. conn.i + 1 \in 1 .. Len(conn.ips)
      BY <1>0, <2>1, <2>3 DEF Checked
    <3>3. \A j \in 1 .. conn.i : CheckIP(conn.ips[j])
      BY <1>0, <2>1, <2>3
    <3>4. Dialer'
      BY <1>0, <2>1, <3>1, <3>2 DEF Stages
    <3>5. Passed'
      <4>1. \A j \in 1 .. conn'.i - 1 : CheckIP(conn.ips[j])
        BY <2>1, <3>1, <3>3
      <4> QED  BY <2>1, <3>1, <4>1 DEF CheckIP
    <3> QED  BY <3>4, <3>5
  <2>4. CASE ~Checked /\ ~CheckIP(conn.ips[conn.i])
    <3>1. /\ conn' \in [at : Stages, ips : Seq(Addresses), i : Nat]
          /\ conn'.at = "blocked" /\ conn'.ips = conn.ips /\ conn'.i = 1
      <4>1. To("blocked")
        BY <1>5, <2>4 DEF Check
      <4> QED  BY <4>1, SentTo DEF Stages
    <3>2. Dialer'
      BY <1>0, <2>1, <3>1
    <3>3. Passed'
      BY <2>1, <2>4, <3>1 DEF CheckIP
    <3> QED  BY <3>2, <3>3
  <2> QED  BY <2>2, <2>3, <2>4
<1>6. CASE Dial
  <2>1. pc' = "do" /\ UNCHANGED <<allowPrivate, pool, current>> /\ conn.at = "dial"
    BY <1>6 DEF Dial, Dialing, vars
  <2>2. /\ conn' \in [at : Stages, ips : Seq(Addresses), i : Nat]
        /\ conn'.ips = conn.ips /\ conn'.at \in {"connected", "failed", "dial"}
        /\ conn'.i \in 1 .. Len(conn.ips)
    <3>1. CASE To("failed")
      <4>1. 1 \in 1 .. Len(conn.ips)
        BY <1>0, <2>1
      <4> QED  BY <3>1, <4>1, SentTo DEF Stages
    <3>2. ASSUME NEW at \in {"connected", "failed", "dial"}, NEW i \in 1 .. Len(conn.ips),
                 conn' = [conn EXCEPT !.at = at, !.i = i]
          PROVE  /\ conn' \in [at : Stages, ips : Seq(Addresses), i : Nat]
                 /\ conn'.ips = conn.ips /\ conn'.at = at /\ conn'.i = i
      <4>1. at \in Stages /\ i \in Nat
        BY <1>0 DEF Stages
      <4> QED  BY <3>2, <4>1, GoesOn
    <3>3. CASE conn' = [conn EXCEPT !.at = "connected"] \/ conn' = DialNext
      <4>1. /\ [conn EXCEPT !.at = "connected"] = [conn EXCEPT !.at = "connected", !.i = conn.i]
            /\ [conn EXCEPT !.at = "failed"] = [conn EXCEPT !.at = "failed", !.i = conn.i]
            /\ [conn EXCEPT !.i = @ + 1] = [conn EXCEPT !.at = "dial", !.i = conn.i + 1]
        BY <2>1
      <4>2. conn.i \in 1 .. Len(conn.ips)
            /\ (conn.i # Len(conn.ips) => conn.i + 1 \in 1 .. Len(conn.ips))
        BY <1>0, <2>1
      <4>3. \E at \in {"connected", "failed", "dial"}, i \in 1 .. Len(conn.ips) :
               conn' = [conn EXCEPT !.at = at, !.i = i]
        BY <3>3, <4>1, <4>2 DEF DialNext
      <4> QED  BY <3>2, <4>3
    <3> QED  BY <1>6, <3>1, <3>3 DEF Dial
  <2>4. Dialer'
    BY <1>0, <2>1, <2>2
  <2>5. Passed'
    BY <2>1, <2>2 DEF CheckIP
  <2> QED  BY <2>4, <2>5
<1>7. CASE Exchange
  <2>1. conn' = NoConn /\ UNCHANGED allowPrivate /\ pc = "do" /\ conn.at = "connected"
    BY <1>7 DEF Exchange, Dialing
  <2>2. NoConn \in [at : Stages, ips : Seq(Addresses), i : Nat]
    BY EmptySeq DEF NoConn, Stages
  <2>3. conn'.at = "none" /\ conn'.i = 1 /\ Len(conn'.ips) = 0
    BY <2>1 DEF NoConn
  <2>4. conn.ips[conn.i] \in Addresses /\ CheckIP(conn.ips[conn.i])
    BY <1>0, <2>1
  <2>5. Here \in {Host[u] : u \in URLs}
    BY <2>1 DEF Here, Ready, Looping
  <2>6. pool' = pool \/ pool' = pool \cup {[host |-> Here, ip |-> conn.ips[conn.i]]}
    BY <1>7 DEF Exchange
  <2>7. Dialer'
    BY <2>1, <2>2, <2>3, <2>4, <2>5, <2>6
  <2>8. \A c \in pool' : CheckIP(c.ip)
    BY <2>4, <2>6
  <2>9. Passed'
    BY <2>1, <2>3, <2>8 DEF CheckIP
  <2> QED  BY <2>7, <2>9
<1>8. CASE NoExchange
  <2>1. conn' = NoConn /\ UNCHANGED <<allowPrivate, pool>>
    BY <1>8 DEF NoExchange
  <2>2. NoConn \in [at : Stages, ips : Seq(Addresses), i : Nat]
    BY EmptySeq DEF NoConn, Stages
  <2>3. conn'.at = "none" /\ conn'.i = 1 /\ Len(conn'.ips) = 0
    BY <2>1 DEF NoConn
  <2>4. Dialer'
    BY <2>1, <2>2, <2>3
  <2>5. Passed'
    BY <2>1, <2>3 DEF CheckIP
  <2> QED  BY <2>4, <2>5
<1>9. CASE UNCHANGED <<vars, guard>>
  <2>1. UNCHANGED <<allowPrivate, conn, pool, pc, current>>
    BY <1>9 DEF vars, guard
  <2> QED  BY <2>1 DEF CheckIP, Here
<1> QED
  BY <1>1, <1>2, <1>3, <1>4, <1>5, <1>6, <1>7, <1>8, <1>9 DEF GuardedNext

(* No address outside the policy is connected to or kept, whatever         *)
(* addresses there are and name servers answer, and only what the policy   *)
(* forbids is blocked.                                                     *)
THEOREM PolicyIsKept == GuardedSpec => []PolicyKept
<1>1. GuardedInit => Dialer /\ Passed
  <2> SUFFICES ASSUME GuardedInit PROVE Dialer /\ Passed
    OBVIOUS
  <2>1. NoConn \in [at : Stages, ips : Seq(Addresses), i : Nat]
        /\ NoConn.at = "none" /\ NoConn.i = 1 /\ Len(NoConn.ips) = 0
    BY EmptySeq DEF NoConn, Stages
  <2> QED  BY <2>1 DEF GuardedInit, Dialer, Passed
<1>2. Ready /\ Dialer /\ Passed /\ [GuardedNext]_<<vars, guard>> => (Dialer /\ Passed)'
  BY PolicyStep
<1>3. Dialer /\ Passed => PolicyKept
  <2> SUFFICES ASSUME Dialer, Passed PROVE PolicyKept
    OBVIOUS
  <2>1. /\ conn.ips \in Seq(Addresses) /\ allowPrivate \in BOOLEAN
        /\ pool \subseteq [host : {Host[u] : u \in URLs}, ip : Addresses]
    BY DEF Dialer
  <2>2. /\ ToSet(conn.ips) = {conn.ips[j] : j \in 1 .. Len(conn.ips)}
        /\ \A j \in 1 .. Len(conn.ips) : conn.ips[j] \in Addresses
    BY <2>1, LenProperties, ElementOfSeq DEF ToSet
  <2>3. \A j \in 1 .. Len(conn.ips) : CheckIP(conn.ips[j]) <=> Permitted(conn.ips[j])
    BY <2>1, <2>2, CheckIPIsPolicy
  <2>4. \A c \in pool : CheckIP(c.ip) <=> Permitted(c.ip)
    BY <2>1, CheckIPIsPolicy
  <2>5. GuardTypeOK
    BY <2>1, <2>2 DEF Dialer, GuardTypeOK, Stages
  <2>6. OnlyPermitted
    BY <2>2, <2>3, <2>4 DEF Passed, OnlyPermitted
  <2>7. BlockedForCause
    BY <2>2, <2>3 DEF Passed, BlockedForCause
  <2> QED  BY <2>5, <2>6, <2>7 DEF PolicyKept
<1>4. GuardedSpec => []Ready
  BY TypesReady, GuardedIsFetch, PTL
<1> QED  BY <1>1, <1>2, <1>3, <1>4, PTL DEF GuardedSpec
===============================================================================
