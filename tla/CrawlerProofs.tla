--------------------------- MODULE CrawlerProofs ---------------------------
(***************************************************************************)
(* Proofs of the safety properties of LevelCrawl, for every site, every    *)
(* number of URLs and all limits; and that the worker pool implements      *)
(* LevelCrawl, for every set of workers, so that these properties hold of  *)
(* the concurrent crawl.                                                   *)
(***************************************************************************)
EXTENDS Crawler, TLAPS, FiniteSetTheorems

-----------------------------------------------------------------------------
(* The pages a level may leave, and the slice of a sorted list.            *)

(* There are finitely many URLs, so every set of them has a size.          *)
LEMMA URLsFinite == IsFiniteSet(URLs) /\ \A S \in SUBSET URLs : IsFiniteSet(S)
<1>1. N \in Nat
  BY URLAssumption
<1>2. IsFiniteSet(URLs)
  BY <1>1, FS_Interval DEF URLs
<1> QED  BY <1>2, FS_Subset

(* A page made by fetchPage has the type of a page, and the URL and depth  *)
(* it was made for.                                                        *)
LEMMA OutcomePages ==
    ASSUME TypeOK, NEW u \in URLs, NEW p \in Outcome(u)
    PROVE  p \in Pages /\ p.url = u /\ p.depth = depth
<1> site \in SiteType /\ depth \in Nat
  BY DEF TypeOK
<1> site.links[u] \in SUBSET InScope /\ site.final[u] \in URLs
  BY DEF SiteType
<1>1. CASE p = Fetched(u)
  BY <1>1 DEF Fetched, Pages, Outcomes
<1>2. CASE p = NotFetched(u)
  BY <1>2 DEF NotFetched, Pages, Outcomes
<1>3. CASE p \in CutOffs(u)
  <2>1. PICK f \in URLs : p = CutOff(u, f)
    BY <1>3 DEF CutOffs
  <2> QED  BY <2>1 DEF CutOff, Pages, Outcomes
<1> QED  BY <1>1, <1>2, <1>3 DEF Outcome

(* What FetchLevel may pass to EndLevel: one page for each URL of the      *)
(* level.                                                                  *)
LevelPages(ps) ==
    /\ ps \subseteq UNION {Outcome(u) : u \in level}
    /\ \A u \in level : \E p \in ps : p.url = u
    /\ \A p, q \in ps : p.url = q.url => p = q

(* The pages of a level are pages, for URLs of the level, of its depth.    *)
LEMMA LevelPagesType ==
    ASSUME TypeOK, NEW ps, LevelPages(ps)
    PROVE  /\ ps \subseteq Pages
           /\ {p.url : p \in ps} = level
           /\ \A p \in ps : p.depth = depth /\ p \in Outcome(p.url)
<1>1. \A p \in ps : \E u \in level : p \in Outcome(u)
  BY DEF LevelPages
<1>2. level \subseteq URLs
  BY DEF TypeOK
<1>3. \A p \in ps : p \in Pages /\ p.depth = depth /\ p.url \in level /\ p \in Outcome(p.url)
  BY <1>1, <1>2, OutcomePages
<1> QED  BY <1>3 DEF LevelPages

-----------------------------------------------------------------------------
(* A slice S[:n] of a sorted list has min(n, len(S)) elements.             *)

Rank(S, u) == Cardinality({v \in S : v < u})

(* The rank of an element is below the length, and grows with the element. *)
LEMMA RankGrows ==
    ASSUME NEW S \in SUBSET URLs
    PROVE  /\ \A u \in S : Rank(S, u) \in 0 .. Cardinality(S) - 1
           /\ \A u, w \in S : u < w => Rank(S, u) < Rank(S, w)
<1>1. IsFiniteSet(S) /\ \A T \in SUBSET S : IsFiniteSet(T) /\ Cardinality(T) \in Nat
  BY URLsFinite, FS_Subset, FS_CardinalityType
<1>2. \A u \in S : u \in Int
  BY URLAssumption DEF URLs
<1>3. \A T \in SUBSET S : \A U \in SUBSET T : U # T => Cardinality(U) < Cardinality(T)
  BY <1>1, FS_Subset
<1>4. ASSUME NEW u \in S PROVE Rank(S, u) \in 0 .. Cardinality(S) - 1
  <2>1. {v \in S : v < u} \in SUBSET S /\ {v \in S : v < u} # S
    BY <1>2
  <2> QED  BY <1>1, <1>3, <2>1 DEF Rank
<1>5. ASSUME NEW u \in S, NEW w \in S, u < w PROVE Rank(S, u) < Rank(S, w)
  <2>1. {v \in S : v < u} \in SUBSET {v \in S : v < w}
    BY <1>2, <1>5
  <2>2. {v \in S : v < u} # {v \in S : v < w}
    BY <1>2, <1>5
  <2> QED  BY <1>3, <2>1, <2>2 DEF Rank
<1> QED  BY <1>4, <1>5

(* The length of the slice. *)
LEMMA LowestSize ==
    ASSUME NEW S \in SUBSET URLs, NEW n \in Nat
    PROVE  /\ Lowest(S, n) \subseteq S
           /\ Cardinality(S) <= n => Lowest(S, n) = S
           /\ Cardinality(S) >= n => Cardinality(Lowest(S, n)) = n
<1> DEFINE L == Lowest(S, n)
           r == [u \in S |-> Rank(S, u)]
           k == Cardinality(S)
           s == [u \in L |-> Rank(S, u)]
<1>1. L = {u \in S : Rank(S, u) < n}
  BY DEF Lowest, Rank
<1>2. IsFiniteSet(S) /\ k \in Nat /\ IsFiniteSet(L) /\ Cardinality(L) \in Nat
  BY <1>1, URLsFinite, FS_Subset, FS_CardinalityType
<1>3. \A u \in S : u \in Int /\ Rank(S, u) \in 0 .. k - 1
  BY URLAssumption, RankGrows DEF URLs
<1>4. k <= n => L = S
  BY <1>1, <1>2, <1>3
<1>5. ASSUME k >= n PROVE Cardinality(L) = n
  <2>1. r \in Injection(S, 0 .. k - 1)
    <3>1. \A u, w \in S : r[u] = r[w] => u = w
      BY <1>3, RankGrows
    <3> QED  BY <1>3, <3>1 DEF Injection, IsInjective
  <2>2. IsFiniteSet(0 .. k - 1) /\ Cardinality(0 .. k - 1) = k
    <3>1. k \in Nat /\ k - 1 \in Int
      BY <1>2
    <3> HIDE DEF k
    <3> QED  BY <3>1, FS_Interval
  <2>3. r \in Surjection(S, 0 .. k - 1)
    BY <2>1, <2>2, FS_Injection
  <2>4. \A i \in 0 .. k - 1 : \E u \in S : r[u] = i
    BY <2>3 DEF Surjection
  <2>5. s \in Surjection(L, 0 .. n - 1)
    <3>1. s \in [L -> 0 .. n - 1]
      BY <1>1, <1>3
    <3>2. ASSUME NEW i \in 0 .. n - 1 PROVE \E u \in L : s[u] = i
      <4>1. PICK u \in S : r[u] = i
        BY <1>2, <1>5, <2>4
      <4> QED  BY <1>1, <4>1
    <3> QED  BY <3>1, <3>2 DEF Surjection
  <2>6. s \in Injection(L, 0 .. n - 1)
    <3>1. s \in [L -> 0 .. n - 1]
      BY <1>1, <1>3
    <3>2. \A u, w \in L : s[u] = s[w] => u = w
      BY <1>1, <1>3, RankGrows
    <3> QED  BY <3>1, <3>2 DEF Injection, IsInjective
  <2>7. IsFiniteSet(0 .. n - 1) /\ Cardinality(0 .. n - 1) = n
    BY FS_Interval
  <2> QED  BY <1>2, <2>5, <2>6, <2>7, FS_Injection
<1> QED  BY <1>1, <1>4, <1>5

-----------------------------------------------------------------------------
(* Type correctness. *)

(* Skipping keeps the types of the three skip records.                     *)
LEMMA SkipType ==
    ASSUME TypeOK, NEW S \in SUBSET URLs, NEW r \in Reasons, SkipAll(S, r)
    PROVE  /\ skipped' \in [URLs -> Reasons \cup {"none"}]
           /\ count' \in [Reasons -> Nat]
           /\ recorded' \subseteq URLs
<1>1. Cardinality(S) \in Nat
  BY URLsFinite, FS_CardinalityType
<1>2. skipped' \in [URLs -> Reasons \cup {"none"}]
  BY DEF SkipAll, TypeOK
<1>3. count' \in [Reasons -> Nat]
  BY <1>1 DEF SkipAll, TypeOK
<1>4. recorded' \subseteq URLs
  BY DEF SkipAll, TypeOK, Lowest
<1> QED  BY <1>2, <1>3, <1>4

(* Asking for a policy yields a fetched one.                               *)
LEMMA PolicyType ==
    ASSUME TypeOK, NEW u \in URLs
    PROVE  /\ Origin[u] \in Origins
           /\ PolicyFor(u) \in {"served", "refused"}
BY URLAssumption DEF TypeOK, PolicyFor, FetchPolicy

(* The type invariant holds at the start ...                               *)
LEMMA TypeInit == Init => TypeOK
BY SiteAssumption DEF Init, TypeOK, Contexts, Phases, StopReasons, Reasons

(* ... and every step keeps it.                                            *)
LEMMA TypeStep == TypeOK /\ [Next]_frontier => TypeOK'
<1> SUFFICES ASSUME TypeOK, [Next]_frontier PROVE TypeOK'
  OBVIOUS
<1> USE DEF TypeOK
<1>1. CASE EndContext
  BY <1>1 DEF EndContext, coordinator, result
<1>2. CASE FetchRobots
  BY <1>2, URLAssumption DEF FetchRobots, FetchPolicy, result, Phases
<1>3. CASE StartCrawl
  <2>1. Start \in URLs
    BY URLAssumption
  <2> QED  BY <1>3, <2>1, SkipType DEF StartCrawl, NoSkip, Phases, StopReasons, Reasons
<1>4. CASE Finish
  BY <1>4 DEF Finish, result, Phases
<1>5. CASE NoBudget
  BY <1>5, SkipType DEF NoBudget, Phases, StopReasons, Reasons
<1>6. CASE Truncate
  BY <1>6, SkipType DEF Truncate, Phases, StopReasons, Reasons, Lowest
<1>7. CASE BeginLevel
  BY <1>7 DEF BeginLevel, result, Phases
<1>8. CASE \E u \in URLs : Admit(u)
  <2> SUFFICES ASSUME NEW u \in URLs, Admit(u) PROVE TypeOK'
    BY <1>8
  <2>1. PolicyFor(u) \in {"served", "refused"} /\ {u} \in SUBSET URLs
    BY PolicyType
  <2>2. CASE DropSeen(u)
    BY <2>2 DEF DropSeen, Taken, NoSkip
  <2>3. CASE TooDeep(u)
    BY <2>1, <2>3, SkipType DEF TooDeep, Taken, Reasons
  <2>4. CASE Disallowed(u)
    BY <2>1, <2>4, SkipType DEF Disallowed, Asked, Taken, Reasons
  <2>5. CASE Trapped(u)
    BY <2>1, <2>5, SkipType DEF Trapped, Asked, Taken, Reasons
  <2>6. CASE QueueFull(u)
    BY <2>1, <2>6, SkipType DEF QueueFull, Asked, Taken, Reasons
  <2>7. CASE Enqueue(u)
    BY <2>1, <2>7 DEF Enqueue, Asked, Taken, NoSkip
  <2> QED  BY <2>2, <2>3, <2>4, <2>5, <2>6, <2>7 DEF Admit
<1>9. CASE NextLevel
  BY <1>9 DEF NextLevel, result, Phases
<1>10. CASE FetchLevel
  <2>1. PICK ps : LevelPages(ps) /\ EndLevel(ps)
    BY <1>10 DEF FetchLevel, LevelPages
  <2>2. ps \subseteq Pages
    BY <2>1, LevelPagesType
  <2>3. {p.final : p \in ps} \ {None} \subseteq URLs
    BY <2>2 DEF Pages
  <2>4. Candidates(ps, depth + 1) \subseteq URLs
    BY <2>2, URLAssumption DEF Candidates, Pages
  <2> QED  BY <2>1, <2>2, <2>3, <2>4 DEF EndLevel, NoSkip, ContextStop, Phases, StopReasons
<1>11. CASE UNCHANGED frontier
  BY <1>11 DEF frontier, coordinator, result
<1> QED
  BY <1>1, <1>2, <1>3, <1>4, <1>5, <1>6, <1>7, <1>8, <1>9, <1>10, <1>11 DEF Next, Coordinate

(* Every variable has its type in every reachable state. *)
THEOREM TypeCorrect == Spec => []TypeOK
BY TypeInit, TypeStep, PTL DEF Spec

-----------------------------------------------------------------------------
(* Which variables are in use in which phase, and what seen covers. *)

Shape ==
    /\ phase \in {"robots", "start"} =>
          /\ level = {} /\ cand = {} /\ next = {} /\ pages = {} /\ seen = {}
          /\ admitted = {} /\ Skipped = {} /\ depth = 0 /\ stop = "completed"
    /\ phase = "start" => policy[Origin[Start]] # "none"
    /\ phase \in {"level", "fetch", "done"} => cand = {} /\ next = {}
    /\ phase \in {"admit", "done"} => level = {}
    /\ phase = "admit" => depth > 0

Covers == Requested \cup Pending \cup Skipped \subseteq seen

(* A skip adds its URLs to those that are skipped and takes none back. *)
LEMMA SkipAdds ==
    ASSUME TypeOK, NEW S \in SUBSET URLs, NEW r \in Reasons, SkipAll(S, r)
    PROVE  Skipped' = Skipped \cup S
BY DEF SkipAll, Skipped, Reasons, TypeOK

(* The phases and the emptiness of what they do not use. *)
LEMMA ShapeStep == TypeOK /\ Shape /\ [Next]_frontier => Shape'
<1> SUFFICES ASSUME TypeOK, Shape, [Next]_frontier PROVE Shape'
  OBVIOUS
<1> USE DEF Shape
<1>1. CASE EndContext
  BY <1>1 DEF EndContext, coordinator, result, Skipped
<1>2. CASE FetchRobots
  <2>1. Origin[Start] \in Origins
    BY URLAssumption
  <2>2. policy'[Origin[Start]] # "none"
    BY <1>2, <2>1 DEF FetchRobots, FetchPolicy, TypeOK
  <2> QED  BY <1>2, <2>2 DEF FetchRobots, result, Skipped
<1>3. CASE StartCrawl
  BY <1>3 DEF StartCrawl
<1>4. CASE Finish
  BY <1>4 DEF Finish, result
<1>5. CASE NoBudget
  BY <1>5 DEF NoBudget
<1>6. CASE Truncate
  BY <1>6 DEF Truncate
<1>7. CASE BeginLevel
  BY <1>7 DEF BeginLevel, result
<1>8. CASE \E u \in URLs : Admit(u)
  <2>1. PICK u \in URLs : Taken(u)
    BY <1>8 DEF Admit, DropSeen, TooDeep, Disallowed, Trapped, QueueFull, Enqueue, Asked
  <2> QED  BY <2>1 DEF Taken
<1>9. CASE NextLevel
  BY <1>9 DEF NextLevel, result
<1>10. CASE FetchLevel
  <2>1. PICK ps : EndLevel(ps)
    BY <1>10 DEF FetchLevel
  <2> QED  BY <2>1 DEF EndLevel, TypeOK
<1>11. CASE UNCHANGED frontier
  BY <1>11 DEF frontier, coordinator, result, Skipped
<1> QED
  BY <1>1, <1>2, <1>3, <1>4, <1>5, <1>6, <1>7, <1>8, <1>9, <1>10, <1>11 DEF Next, Coordinate

(* The seen set covers the pages, the queue and the skips, and these stay  *)
(* apart.                                                                  *)
LEMMA OnceStep ==
    TypeOK /\ Shape /\ Covers /\ FetchedOnce /\ [Next]_frontier => Covers' /\ FetchedOnce'
<1> SUFFICES ASSUME TypeOK, Shape, Covers, FetchedOnce, [Next]_frontier
             PROVE  Covers' /\ FetchedOnce'
  OBVIOUS
<1> USE DEF Covers, FetchedOnce, Requested, Pending
<1>1. CASE EndContext
  BY <1>1 DEF EndContext, coordinator, result, Skipped
<1>2. CASE FetchRobots
  BY <1>2 DEF FetchRobots, result, Skipped
<1>3. CASE StartCrawl
  <2>1. Start \in URLs /\ "robots-disallowed" \in Reasons
    BY URLAssumption DEF Reasons
  <2>2. NoSkip => Skipped' = Skipped
    BY DEF NoSkip, Skipped
  <2> QED  BY <1>3, <2>1, <2>2, SkipAdds DEF StartCrawl, Shape
<1>4. CASE Finish
  BY <1>4 DEF Finish, result, Skipped
<1>5. CASE NoBudget
  <2>1. Skipped' = Skipped \cup level
    BY <1>5, SkipAdds DEF NoBudget, Reasons, TypeOK
  <2> QED  BY <1>5, <2>1 DEF NoBudget, Shape
<1>6. CASE Truncate
  <2>1. Skipped' = Skipped \cup (level \ level')
    BY <1>6, SkipAdds DEF Truncate, Reasons, TypeOK
  <2>2. level' \subseteq level
    BY <1>6 DEF Truncate, Lowest
  <2> QED  BY <1>6, <2>1, <2>2 DEF Truncate, Shape
<1>7. CASE BeginLevel
  BY <1>7 DEF BeginLevel, result, Skipped
<1>8. CASE \E u \in URLs : Admit(u)
  <2> SUFFICES ASSUME NEW u \in URLs, Admit(u) PROVE Covers' /\ FetchedOnce'
    BY <1>8
  <2>1. CASE DropSeen(u)
    BY <2>1 DEF DropSeen, Taken, NoSkip, Skipped
  <2>2. CASE TooDeep(u)
    <3>1. Skipped' = Skipped \cup {u}
      BY <2>2, SkipAdds DEF TooDeep, Reasons
    <3> QED  BY <2>2, <3>1 DEF TooDeep, Taken
  <2>3. CASE Disallowed(u)
    <3>1. Skipped' = Skipped \cup {u}
      BY <2>3, SkipAdds DEF Disallowed, Reasons
    <3> QED  BY <2>3, <3>1 DEF Disallowed, Asked, Taken
  <2>4. CASE Trapped(u)
    <3>1. Skipped' = Skipped \cup {u}
      BY <2>4, SkipAdds DEF Trapped, Reasons
    <3> QED  BY <2>4, <3>1 DEF Trapped, Asked, Taken
  <2>5. CASE QueueFull(u)
    <3>1. Skipped' = Skipped \cup {u}
      BY <2>5, SkipAdds DEF QueueFull, Reasons
    <3> QED  BY <2>5, <3>1 DEF QueueFull, Asked, Taken
  <2>6. CASE Enqueue(u)
    <3>1. Skipped' = Skipped
      BY <2>6 DEF Enqueue, NoSkip, Skipped
    <3> QED  BY <2>6, <3>1 DEF Enqueue, Asked, Taken
  <2> QED  BY <2>1, <2>2, <2>3, <2>4, <2>5, <2>6 DEF Admit
<1>9. CASE NextLevel
  BY <1>9 DEF NextLevel, result, Skipped, Shape
<1>10. CASE FetchLevel
  <2>1. PICK ps : LevelPages(ps) /\ EndLevel(ps)
    BY <1>10 DEF FetchLevel, LevelPages
  <2>2. {p.url : p \in ps} = level
    BY <2>1, LevelPagesType
  <2>3. Skipped' = Skipped /\ level' = {} /\ next' = next /\ pages' = pages \cup ps
    BY <2>1 DEF EndLevel, NoSkip, Skipped
  <2>4. seen \subseteq seen'
    BY <2>1 DEF EndLevel
  <2>5. Requested' = Requested \cup level /\ Pending' = next
    BY <2>2, <2>3
  <2>6. next = {}
    BY <2>1 DEF EndLevel, Shape
  <2>7. \A p, q \in pages' : p.url = q.url => p = q
    BY <2>1, <2>2, <2>3 DEF LevelPages
  <2> HIDE DEF Requested, Pending
  <2> QED  BY <2>3, <2>4, <2>5, <2>6, <2>7 DEF Pending
<1>11. CASE UNCHANGED frontier
  BY <1>11 DEF frontier, coordinator, result, Skipped
<1> QED
  BY <1>1, <1>2, <1>3, <1>4, <1>5, <1>6, <1>7, <1>8, <1>9, <1>10, <1>11 DEF Next, Coordinate

(* A URL is requested at most once, and not skipped as well. *)
THEOREM RequestedOnce == Spec => []FetchedOnce
<1>1. Init => Shape /\ Covers /\ FetchedOnce
  BY DEF Init, Shape, Covers, FetchedOnce, Requested, Pending, Skipped
<1> QED  BY <1>1, TypeInit, TypeStep, ShapeStep, OnceStep, PTL DEF Spec

-----------------------------------------------------------------------------
(* robots.txt *)

\* A cached policy is the site's: only reachable files were served.
PolicyTrue == \A o \in Origins : policy[o] = "served" => o \notin site.down

\* The links a level is formed from lie in scope.
CandInScope == cand \subseteq InScope

(* Every step keeps the pages and the queue to what robots.txt allows.     *)
LEMMA RobotsStep ==
    TypeOK /\ Shape /\ PolicyTrue /\ CandInScope /\ RobotsRespected /\ [Next]_frontier
      => PolicyTrue' /\ CandInScope' /\ RobotsRespected'
<1> SUFFICES ASSUME TypeOK, Shape, PolicyTrue, CandInScope, RobotsRespected, [Next]_frontier
             PROVE  PolicyTrue' /\ CandInScope' /\ RobotsRespected'
  OBVIOUS
<1> USE DEF PolicyTrue, CandInScope, RobotsRespected, Requested, Pending, Permits
<1>1. CASE EndContext
  BY <1>1 DEF EndContext, coordinator, result
<1>2. CASE FetchRobots
  BY <1>2 DEF FetchRobots, FetchPolicy, result, Shape, TypeOK
<1>3. CASE StartCrawl
  <2>1. Start \in InScope /\ Start \in URLs /\ Origin[Start] \in Origins
    BY URLAssumption
  <2>2. CASE Allowed(Start)
    <3>1. level' = {Start} /\ Permits(policy[Origin[Start]], Start)
      BY <1>3, <2>1, <2>2 DEF StartCrawl, Shape, Allowed, PolicyFor
    <3> QED  BY <1>3, <2>1, <3>1 DEF StartCrawl, Shape, Permits
  <2>3. CASE ~Allowed(Start)
    BY <1>3, <2>3 DEF StartCrawl, Shape
  <2> QED  BY <2>2, <2>3
<1>4. CASE Finish
  BY <1>4 DEF Finish, result
<1>5. CASE NoBudget
  BY <1>5 DEF NoBudget
<1>6. CASE Truncate
  BY <1>6 DEF Truncate, Lowest
<1>7. CASE BeginLevel
  BY <1>7 DEF BeginLevel, result
<1>8. CASE \E u \in URLs : Admit(u)
  <2> SUFFICES ASSUME NEW u \in URLs, Admit(u)
               PROVE  PolicyTrue' /\ CandInScope' /\ RobotsRespected'
    BY <1>8
  <2>1. CASE DropSeen(u)
    BY <2>1 DEF DropSeen, Taken
  <2>2. CASE TooDeep(u)
    BY <2>2 DEF TooDeep, Taken
  <2>3. CASE Asked(u)
    <3>1. Origin[u] \in Origins
      BY PolicyType
    <3>2. PolicyTrue'
      BY <2>3, <3>1 DEF Asked, Taken, PolicyFor, FetchPolicy, TypeOK
    <3>3. \A o \in Origins : policy[o] # "none" => policy'[o] = policy[o]
      BY <2>3, <3>1 DEF Asked, PolicyFor, TypeOK
    <3>4. \A v \in Requested \cup Pending : Origin[v] \in Origins
      BY URLAssumption DEF TypeOK, Pages
    <3>5. CASE next' = next
      BY <2>3, <3>2, <3>3, <3>4, <3>5 DEF Asked, Taken
    <3>6. CASE Enqueue(u)
      <4>1. Permits(policy'[Origin[u]], u)
        BY <3>1, <3>6 DEF Enqueue, Asked, TypeOK, Allowed
      <4>2. u \in InScope /\ (policy'[Origin[u]] = "served" => Origin[u] \notin site'.down)
        BY <2>3, <3>1, <3>2 DEF Asked, Taken
      <4>3. Requested' \cup Pending' = Requested \cup Pending \cup {u} /\ site' = site
        BY <3>6 DEF Enqueue, Asked, Taken
      <4>4. \A v \in Requested \cup Pending :
                policy'[Origin[v]] = policy[Origin[v]] /\ policy[Origin[v]] # "none"
        BY <3>3, <3>4
      <4>5. CandInScope'
        BY <2>3 DEF Asked, Taken
      <4> QED  BY <3>2, <4>1, <4>2, <4>3, <4>4, <4>5
    <3> QED  BY <2>3, <3>5, <3>6 DEF Admit, DropSeen, TooDeep, Disallowed, Trapped, QueueFull, Asked, Taken
  <2> QED  BY <2>1, <2>2, <2>3 DEF Admit, Disallowed, Trapped, QueueFull, Enqueue
<1>9. CASE NextLevel
  BY <1>9 DEF NextLevel, result
<1>10. CASE FetchLevel
  <2>1. PICK ps : LevelPages(ps) /\ EndLevel(ps)
    BY <1>10 DEF FetchLevel, LevelPages
  <2>2. {p.url : p \in ps} = level /\ ps \subseteq Pages
    BY <2>1, LevelPagesType
  <2>3. Requested' = Requested \cup level /\ Pending' = next
    BY <2>1, <2>2 DEF EndLevel
  <2>4. CandInScope'
    BY <2>1, <2>2 DEF EndLevel, Candidates, Pages
  <2>5. policy' = policy /\ site' = site
    BY <2>1 DEF EndLevel
  <2>6. Requested' \cup Pending' \subseteq Requested \cup Pending
    BY <2>3
  <2> HIDE DEF Requested, Pending
  <2> QED  BY <2>4, <2>5, <2>6
<1>11. CASE UNCHANGED frontier
  BY <1>11 DEF frontier, coordinator, result
<1> QED
  BY <1>1, <1>2, <1>3, <1>4, <1>5, <1>6, <1>7, <1>8, <1>9, <1>10, <1>11 DEF Next, Coordinate

(* Whatever is requested, or queued to be, a robots.txt of its origin that *)
(* was fetched before allows it.                                           *)
THEOREM RobotsAreRespected == Spec => []RobotsRespected
<1>1. Init => Shape /\ PolicyTrue /\ CandInScope /\ RobotsRespected
  BY DEF Init, Shape, PolicyTrue, CandInScope, RobotsRespected, Requested, Pending, Skipped
<1> QED  BY <1>1, TypeInit, TypeStep, ShapeStep, RobotsStep, PTL DEF Spec

-----------------------------------------------------------------------------
(* --max-pages *)

(* A level brings one page per URL. *)
LEMMA LevelPagesSize ==
    ASSUME TypeOK, NEW ps, LevelPages(ps)
    PROVE  IsFiniteSet(ps) /\ Cardinality(ps) <= Cardinality(level)
<1> DEFINE f == [p \in ps |-> p.url]
<1>1. {p.url : p \in ps} = level
  BY LevelPagesType
<1>2. f \in Injection(ps, level)
  BY <1>1 DEF LevelPages, Injection, IsInjective
<1>3. IsFiniteSet(level)
  BY URLsFinite DEF TypeOK
<1> QED  BY <1>2, <1>3, FS_Injection

PagesFinite == IsFiniteSet(pages)

(* Every step keeps the pages and the level within the budget.             *)
LEMMA BudgetStep ==
    TypeOK /\ Shape /\ PagesFinite /\ Budget /\ [Next]_frontier => PagesFinite' /\ Budget'
<1> SUFFICES ASSUME TypeOK, Shape, PagesFinite, Budget, [Next]_frontier
             PROVE  PagesFinite' /\ Budget'
  OBVIOUS
<1> USE DEF PagesFinite, Budget
<1>0. /\ Cardinality(pages) \in Nat /\ Remaining \in Int
      /\ MaxPages \in Nat /\ Cardinality(level) \in Nat
  BY LimitAssumption, URLsFinite, FS_CardinalityType DEF TypeOK, Remaining
<1>1. CASE EndContext
  BY <1>1 DEF EndContext, coordinator, result
<1>2. CASE FetchRobots
  BY <1>2 DEF FetchRobots, result
<1>3. CASE StartCrawl
  BY <1>3 DEF StartCrawl
<1>4. CASE Finish
  BY <1>4 DEF Finish, result
<1>5. CASE NoBudget
  BY <1>5 DEF NoBudget
<1>6. CASE Truncate
  <2>1. Cardinality(level') = Remaining
    BY <1>0, <1>6, LowestSize DEF Truncate, TypeOK
  <2> QED  BY <1>0, <1>6, <2>1 DEF Truncate, Remaining
<1>7. CASE BeginLevel
  BY <1>0, <1>7 DEF BeginLevel, result, Remaining
<1>8. CASE \E u \in URLs : Admit(u)
  BY <1>8 DEF Admit, DropSeen, TooDeep, Disallowed, Trapped, QueueFull, Enqueue, Asked, Taken
<1>9. CASE NextLevel
  BY <1>9 DEF NextLevel, result
<1>10. CASE FetchLevel
  <2>1. PICK ps : LevelPages(ps) /\ EndLevel(ps)
    BY <1>10 DEF FetchLevel, LevelPages
  <2>2. IsFiniteSet(ps) /\ Cardinality(ps) \in Nat /\ Cardinality(ps) <= Cardinality(level)
    BY <2>1, LevelPagesSize, FS_CardinalityType
  <2>3. IsFiniteSet(pages \cap ps) /\ Cardinality(pages \cap ps) \in Nat
    BY FS_Intersection, FS_CardinalityType
  <2>4. /\ IsFiniteSet(pages \cup ps)
        /\ Cardinality(pages \cup ps) <= Cardinality(pages) + Cardinality(ps)
    BY <1>0, <2>2, <2>3, FS_Union
  <2>5. Cardinality(pages \cup ps) \in Nat
    BY <2>4, FS_CardinalityType
  <2>6. phase = "fetch" /\ phase' # "fetch" /\ pages' = pages \cup ps
    BY <2>1 DEF EndLevel
  <2> QED  BY <1>0, <2>2, <2>4, <2>5, <2>6
<1>11. CASE UNCHANGED frontier
  BY <1>11 DEF frontier, coordinator, result
<1> QED
  BY <1>1, <1>2, <1>3, <1>4, <1>5, <1>6, <1>7, <1>8, <1>9, <1>10, <1>11 DEF Next, Coordinate

(* The crawl never fetches more pages than --max-pages allows. *)
THEOREM PagesBounded == Spec => []Budget
<1>1. Init => Shape /\ PagesFinite /\ Budget
  BY LimitAssumption, FS_EmptySet DEF Init, Shape, PagesFinite, Budget, Skipped
<1> QED  BY <1>1, TypeInit, TypeStep, ShapeStep, BudgetStep, PTL DEF Spec

-----------------------------------------------------------------------------
(* The trap guard *)

\* What the guard counted includes all that is requested or queued.
Guarded == (Requested \cup Pending) \ (Traps \cap {Start}) \subseteq admitted

Variants(t) == {v \in admitted : t \in Counted[v]}

VariantsBounded == \A t \in Counters : Cardinality(Variants(t)) <= Limit[t]

(* A URL that the guard admits leaves every template within its limit. *)
LEMMA AdmitBounded ==
    ASSUME TypeOK, VariantsBounded, NEW u \in URLs, GuardAdmits(u),
           admitted' = admitted \cup {u}
    PROVE  VariantsBounded'
<1> SUFFICES ASSUME NEW t \in Counters
             PROVE  Cardinality({v \in admitted' : t \in Counted[v]}) <= Limit[t]
  BY DEF VariantsBounded, Variants
<1>1. /\ IsFiniteSet(Variants(t)) /\ Cardinality(Variants(t)) \in Nat
      /\ Cardinality(Variants(t)) <= Limit[t] /\ Limit[t] \in Nat
  <2>1. Variants(t) \in SUBSET URLs
    BY DEF Variants, TypeOK
  <2> QED  BY <2>1, URLsFinite, FS_CardinalityType, LimitAssumption DEF VariantsBounded
<1>2. CASE u \in admitted \/ t \notin Counted[u]
  <2>1. {v \in admitted' : t \in Counted[v]} = Variants(t)
    BY <1>2 DEF Variants
  <2> QED  BY <1>1, <2>1
<1>3. CASE u \notin admitted /\ t \in Counted[u]
  <2>1. {v \in admitted' : t \in Counted[v]} = Variants(t) \cup {u} /\ u \notin Variants(t)
    BY <1>3 DEF Variants
  <2>2. Cardinality(Variants(t)) < Limit[t]
    BY <1>3 DEF GuardAdmits, Variants
  <2>3. Cardinality(Variants(t) \cup {u}) = Cardinality(Variants(t)) + 1
    BY <1>1, <2>1, FS_AddElement
  <2>4. Cardinality(Variants(t)) + 1 <= Limit[t]
    BY <1>1, <2>2
  <2> QED  BY <2>1, <2>3, <2>4
<1> QED  BY <1>2, <1>3

(* Every step keeps the admitted URLs of a template within its limit, and  *)
(* what is queued or fetched among the admitted.                           *)
LEMMA GuardStep ==
    TypeOK /\ Shape /\ Guarded /\ VariantsBounded /\ [Next]_frontier
      => Guarded' /\ VariantsBounded'
<1> SUFFICES ASSUME TypeOK, Shape, Guarded, VariantsBounded, [Next]_frontier
             PROVE  Guarded' /\ VariantsBounded'
  OBVIOUS
<1> USE DEF Guarded, Requested, Pending
<1>0. admitted' = admitted => VariantsBounded'
  BY DEF VariantsBounded, Variants
<1>1. CASE EndContext
  BY <1>0, <1>1 DEF EndContext, coordinator, result
<1>2. CASE FetchRobots
  BY <1>0, <1>2 DEF FetchRobots, result
<1>3. CASE StartCrawl
  <2>1. /\ Start \in URLs
        /\ \A t \in Counted[Start] : 0 < Limit[t]
    BY URLAssumption, LimitAssumption
  <2>2. admitted = {} /\ pages = {} /\ next = {} /\ level = {}
    BY <1>3 DEF StartCrawl, Shape
  <2>3. GuardAdmits(Start) <=> Start \notin Traps
    <3>1. \A t \in Counted[Start] : Cardinality({v \in admitted : t \in Counted[v]}) = 0
      BY <2>2, FS_EmptySet
    <3> QED  BY <2>1, <2>2, <3>1 DEF GuardAdmits
  <2>4. VariantsBounded'
    BY <1>0, <1>3, <2>1, AdmitBounded DEF StartCrawl
  <2>5. Guarded'
    BY <1>3, <2>2, <2>3 DEF StartCrawl
  <2> QED  BY <2>4, <2>5
<1>4. CASE Finish
  BY <1>0, <1>4 DEF Finish, result
<1>5. CASE NoBudget
  BY <1>0, <1>5 DEF NoBudget
<1>6. CASE Truncate
  BY <1>0, <1>6 DEF Truncate, Lowest
<1>7. CASE BeginLevel
  BY <1>0, <1>7 DEF BeginLevel, result
<1>8. CASE \E u \in URLs : Admit(u)
  <2> SUFFICES ASSUME NEW u \in URLs, Admit(u) PROVE Guarded' /\ VariantsBounded'
    BY <1>8
  <2>1. pages' = pages /\ level' = level
    BY DEF Admit, DropSeen, TooDeep, Disallowed, Trapped, QueueFull, Enqueue, Asked, Taken
  <2>2. CASE next' = next /\ admitted' = admitted
    BY <1>0, <2>1, <2>2
  <2>3. CASE QueueFull(u)
    BY <2>1, <2>3, AdmitBounded DEF QueueFull
  <2>4. CASE Enqueue(u)
    BY <2>1, <2>4, AdmitBounded DEF Enqueue
  <2> QED  BY <2>2, <2>3, <2>4 DEF Admit, DropSeen, TooDeep, Disallowed, Trapped
<1>9. CASE NextLevel
  BY <1>0, <1>9 DEF NextLevel, result
<1>10. CASE FetchLevel
  <2>1. PICK ps : LevelPages(ps) /\ EndLevel(ps)
    BY <1>10 DEF FetchLevel, LevelPages
  <2>2. {p.url : p \in ps} = level
    BY <2>1, LevelPagesType
  <2>3. admitted' = admitted /\ Requested' = Requested \cup level /\ Pending' = next
    BY <2>1, <2>2 DEF EndLevel
  <2> HIDE DEF Requested
  <2> QED  BY <1>0, <2>3
<1>11. CASE UNCHANGED frontier
  BY <1>0, <1>11 DEF frontier, coordinator, result
<1> QED
  BY <1>1, <1>2, <1>3, <1>4, <1>5, <1>6, <1>7, <1>8, <1>9, <1>10, <1>11 DEF Next, Coordinate

(* No template is requested more often than the trap guard's limit. *)
THEOREM PatternsBounded == Spec => []PatternBudget
<1>1. Init => Shape /\ Guarded /\ VariantsBounded
  <2>1. Init => \A t \in Counters : Variants(t) = {}
    BY DEF Init, Variants
  <2> QED
    BY <2>1, LimitAssumption, FS_EmptySet, SMTT(30)
    DEF Init, Shape, Guarded, VariantsBounded, Skipped, Requested, Pending
<1>2. TypeOK /\ Guarded /\ VariantsBounded => PatternBudget
  <2> SUFFICES ASSUME TypeOK, Guarded, VariantsBounded, NEW t \in Counters
               PROVE  Cardinality({u \in (Requested \cup Pending) \ (Traps \cap {Start}) :
                                      t \in Counted[u]}) <= Limit[t]
    BY DEF PatternBudget
  <2> DEFINE U == {u \in (Requested \cup Pending) \ (Traps \cap {Start}) : t \in Counted[u]}
  <2>1. U \subseteq Variants(t) /\ Variants(t) \in SUBSET URLs
    BY DEF Guarded, Variants, TypeOK
  <2>2. IsFiniteSet(Variants(t)) /\ Cardinality(Variants(t)) \in Nat
    BY <2>1, URLsFinite, FS_CardinalityType
  <2>3. IsFiniteSet(U) /\ Cardinality(U) <= Cardinality(Variants(t))
    BY <2>1, <2>2, FS_Subset
  <2>4. Cardinality(U) \in Nat /\ Limit[t] \in Nat
    BY <2>3, FS_CardinalityType, LimitAssumption
  <2>5. Cardinality(Variants(t)) <= Limit[t]
    BY DEF VariantsBounded
  <2> QED  BY <2>2, <2>3, <2>4, <2>5
<1> QED  BY <1>1, <1>2, TypeInit, TypeStep, ShapeStep, GuardStep, PTL DEF Spec

-----------------------------------------------------------------------------
(* The skips *)

(* One call of skip or skipAll, for URLs that were not skipped before,     *)
(* keeps the counts and the list right.                                    *)
LEMMA SkipCounts ==
    ASSUME TypeOK, SkipsCounted, NEW S \in SUBSET URLs, NEW r \in Reasons,
           S \cap Skipped = {}, SkipAll(S, r)
    PROVE  SkipsCounted'
<1> DEFINE Of(q) == {u \in URLs : skipped[u] = q}
           m == MaxRecords - Cardinality(recorded)
<1>1. /\ \A T \in SUBSET URLs : IsFiniteSet(T) /\ Cardinality(T) \in Nat
      /\ MaxRecords \in Nat
      /\ Skipped \in SUBSET URLs /\ recorded \in SUBSET URLs
  BY URLsFinite, FS_CardinalityType, LimitAssumption DEF TypeOK, Skipped
<1>2. \A T, U \in SUBSET URLs :
          T \cap U = {} => Cardinality(T \cup U) = Cardinality(T) + Cardinality(U)
  <2> SUFFICES ASSUME NEW T \in SUBSET URLs, NEW U \in SUBSET URLs, T \cap U = {}
               PROVE  Cardinality(T \cup U) = Cardinality(T) + Cardinality(U)
    OBVIOUS
  <2>1. Cardinality(T \cup U) = Cardinality(T) + Cardinality(U) - Cardinality(T \cap U)
    BY <1>1, FS_Union
  <2>2. Cardinality(T \cap U) = 0
    BY FS_EmptySet
  <2> QED  BY <1>1, <2>1, <2>2
<1>3. Skipped' = Skipped \cup S
  BY SkipAdds
<1>4. ASSUME NEW q \in Reasons
      PROVE  count'[q] = Cardinality({u \in URLs : skipped'[u] = q})
  <2>1. skipped' = [u \in URLs |-> IF u \in S THEN r ELSE skipped[u]]
    BY DEF SkipAll
  <2>2. q # "none" /\ \A u \in S : skipped[u] = "none"
    BY DEF Skipped, Reasons
  <2>3. CASE q = r
    <3>1. {u \in URLs : skipped'[u] = q} = Of(r) \cup S /\ Of(r) \cap S = {}
      BY <2>1, <2>2, <2>3
    <3>2. count'[r] = Cardinality(Of(r)) + Cardinality(S)
      BY DEF SkipAll, SkipsCounted, TypeOK
    <3>3. Of(r) \in SUBSET URLs
      OBVIOUS
    <3> QED  BY <1>2, <2>3, <3>1, <3>2, <3>3
  <2>4. CASE q # r
    <3>1. {u \in URLs : skipped'[u] = q} = Of(q)
      BY <2>1, <2>2, <2>4
    <3>2. count'[q] = Cardinality(Of(q))
      BY <2>4 DEF SkipAll, SkipsCounted, TypeOK
    <3> QED  BY <3>1, <3>2
  <2> QED  BY <2>3, <2>4
<1>5. recorded' = recorded \cup Lowest(S, m)
  BY DEF SkipAll
<1>6. Lowest(S, m) \subseteq S
  BY DEF Lowest
<1>7. Cardinality(Skipped') = Cardinality(Skipped) + Cardinality(S)
  BY <1>1, <1>2, <1>3
<1>8. recorded \subseteq Skipped
  BY DEF SkipsCounted
<1>9. Cardinality(recorded \cup Lowest(S, m)) = Cardinality(recorded) + Cardinality(Lowest(S, m))
  BY <1>1, <1>2, <1>6, <1>8
<1>10. recorded' \subseteq Skipped'
  BY <1>3, <1>5, <1>6, <1>8
<1>11. CASE Cardinality(Skipped) <= MaxRecords
  <2>1. recorded = Skipped /\ m \in Nat
    BY <1>1, <1>11 DEF SkipsCounted
  <2>2. CASE Cardinality(S) <= m
    <3>1. Lowest(S, m) = S
      BY <2>1, <2>2, LowestSize
    <3>2. recorded' = Skipped'
      BY <1>3, <1>5, <2>1, <3>1
    <3>3. Cardinality(Skipped') <= MaxRecords
      BY <1>1, <1>7, <2>1, <2>2
    <3> QED  BY <1>4, <3>2, <3>3 DEF SkipsCounted
  <2>3. CASE Cardinality(S) > m
    <3>1. Cardinality(Lowest(S, m)) = m
      BY <1>1, <2>1, <2>3, LowestSize
    <3>2. Cardinality(recorded') = MaxRecords
      BY <1>1, <1>5, <1>9, <2>1, <3>1
    <3>3. Cardinality(Skipped') > MaxRecords
      BY <1>1, <1>7, <2>1, <2>3
    <3>4. Cardinality(Skipped') \in Nat
      BY <1>1, <1>7
    <3>5. ~(Cardinality(Skipped') <= MaxRecords)
      BY <1>1, <3>3, <3>4
    <3> QED  BY <1>4, <1>10, <3>2, <3>5 DEF SkipsCounted
  <2> QED  BY <1>1, <2>1, <2>2, <2>3
<1>12. CASE Cardinality(Skipped) > MaxRecords
  <2>1. Cardinality(recorded) = MaxRecords /\ m = 0
    BY <1>1, <1>12 DEF SkipsCounted
  <2>2. Cardinality(Lowest(S, 0)) = 0
    BY <1>1, LowestSize
  <2>3. Cardinality(recorded') = MaxRecords
    BY <1>1, <1>5, <1>9, <2>1, <2>2
  <2>4. Cardinality(Skipped') > MaxRecords /\ Cardinality(Skipped') \in Nat
    BY <1>1, <1>7, <1>12
  <2>5. ~(Cardinality(Skipped') <= MaxRecords)
    BY <1>1, <2>4
  <2> QED  BY <1>4, <1>10, <2>3, <2>5 DEF SkipsCounted
<1> QED  BY <1>1, <1>11, <1>12

(* Every step keeps the counters equal to the number of URLs skipped.      *)
LEMMA SkipsStep ==
    TypeOK /\ Shape /\ Covers /\ FetchedOnce /\ SkipsCounted /\ [Next]_frontier
      => SkipsCounted'
<1> SUFFICES ASSUME TypeOK, Shape, Covers, FetchedOnce, SkipsCounted, [Next]_frontier
             PROVE  SkipsCounted'
  OBVIOUS
<1>0. NoSkip => SkipsCounted'
  BY DEF NoSkip, SkipsCounted, Skipped
<1>1. CASE UNCHANGED result
  BY <1>0, <1>1 DEF result, NoSkip
<1>2. CASE StartCrawl
  <2>1. {Start} \in SUBSET URLs /\ Skipped = {}
    BY <1>2, URLAssumption DEF StartCrawl, Shape
  <2> QED  BY <1>0, <1>2, <2>1, SkipCounts DEF StartCrawl, Reasons
<1>3. level \in SUBSET URLs /\ level \cap Skipped = {}
  BY DEF TypeOK, FetchedOnce, Pending
<1>4. CASE NoBudget
  BY <1>3, <1>4, SkipCounts DEF NoBudget, Reasons
<1>5. CASE Truncate
  BY <1>3, <1>5, SkipCounts DEF Truncate, Reasons
<1>6. CASE \E u \in URLs : Admit(u)
  <2> SUFFICES ASSUME NEW u \in URLs, Admit(u) PROVE SkipsCounted'
    BY <1>6
  <2>1. CASE NoSkip
    BY <1>0, <2>1
  <2>2. CASE u \notin seen /\ \E r \in Reasons : SkipAll({u}, r)
    <3>1. {u} \cap Skipped = {}
      BY <2>2 DEF Covers
    <3> QED  BY <2>2, <3>1, SkipCounts
  <2> QED
    BY <2>1, <2>2
    DEF Admit, DropSeen, TooDeep, Disallowed, Trapped, QueueFull, Enqueue, Asked, Reasons
<1>7. CASE FetchLevel
  BY <1>0, <1>7 DEF FetchLevel, EndLevel
<1> QED
  BY <1>1, <1>2, <1>4, <1>5, <1>6, <1>7
  DEF Next, Coordinate, EndContext, FetchRobots, Finish, BeginLevel, NextLevel, frontier

(* Every URL that is skipped is counted once, and listed up to the limit.  *)
THEOREM SkipsAreCounted == Spec => []SkipsCounted
<1>1. Init => Shape /\ Covers /\ FetchedOnce /\ SkipsCounted
  <2> SUFFICES ASSUME Init PROVE Shape /\ Covers /\ FetchedOnce /\ SkipsCounted
    OBVIOUS
  <2>1. Skipped = {} /\ \A r \in Reasons : {u \in URLs : skipped[u] = r} = {}
    BY DEF Init, Skipped, Reasons
  <2>2. Cardinality({}) = 0 /\ MaxRecords \in Nat
    BY FS_EmptySet, LimitAssumption
  <2> QED
    BY <2>1, <2>2 DEF Init, Shape, Covers, FetchedOnce, Requested, Pending, SkipsCounted
<1> QED  BY <1>1, TypeInit, TypeStep, ShapeStep, OnceStep, SkipsStep, PTL DEF Spec

-----------------------------------------------------------------------------
(* Nothing is lost *)

\* While the crawl runs, and when it has completed, every link it found and
\* the sitemap's URLs were looked at or are about to be.
Followed ==
    /\ (phase # "done" \/ stop = "completed") =>
          /\ \A p \in pages : p.links \subseteq seen \cup cand
          /\ depth > 0 => Seeds \cap InScope \subseteq seen \cup cand
    /\ phase = "level" /\ depth = 0 => level # {}
    /\ phase = "done" /\ stop = "completed" => depth > 0

(* No step loses a URL that was seen.                                      *)
LEMMA AccountedStep ==
    TypeOK /\ Shape /\ Accounted /\ [Next]_frontier => Accounted'
<1> SUFFICES ASSUME TypeOK, Shape, Accounted, [Next]_frontier PROVE Accounted'
  OBVIOUS
<1> USE DEF Accounted, Requested, Pending, Finals
<1>0. NoSkip => Skipped' = Skipped
  BY DEF NoSkip, Skipped
<1>1. CASE UNCHANGED result /\ UNCHANGED <<seen, level, next>>
  BY <1>0, <1>1 DEF result, NoSkip
<1>2. CASE StartCrawl
  <2>1. {Start} \in SUBSET URLs /\ seen = {}
    BY <1>2, URLAssumption DEF StartCrawl, Shape
  <2>2. SkipAll({Start}, "robots-disallowed") => Skipped' = Skipped \cup {Start}
    BY <2>1, SkipAdds DEF Reasons
  <2> QED  BY <1>2, <2>1, <2>2 DEF StartCrawl
<1>3. CASE NoBudget
  <2>1. Skipped' = Skipped \cup level
    BY <1>3, SkipAdds DEF NoBudget, Reasons, TypeOK
  <2> QED  BY <1>3, <2>1 DEF NoBudget
<1>4. CASE Truncate
  <2>1. Skipped' = Skipped \cup (level \ level')
    BY <1>4, SkipAdds DEF Truncate, Reasons, TypeOK
  <2> QED  BY <1>4, <2>1 DEF Truncate
<1>5. CASE \E u \in URLs : Admit(u)
  <2> SUFFICES ASSUME NEW u \in URLs, Admit(u) PROVE Accounted'
    BY <1>5
  <2>1. pages' = pages /\ level' = level
    BY DEF Admit, DropSeen, TooDeep, Disallowed, Trapped, QueueFull, Enqueue, Asked, Taken
  <2>2. CASE DropSeen(u)
    BY <1>0, <2>1, <2>2 DEF DropSeen
  <2>3. CASE Enqueue(u)
    BY <1>0, <2>1, <2>3 DEF Enqueue, Asked
  <2>4. CASE seen' = seen \cup {u} /\ next' = next /\ \E r \in Reasons : SkipAll({u}, r)
    <3>1. Skipped' = Skipped \cup {u}
      BY <2>4, SkipAdds
    <3> QED  BY <2>1, <2>4, <3>1
  <2> QED
    BY <2>2, <2>3, <2>4 DEF Admit, TooDeep, Disallowed, Trapped, QueueFull, Asked, Reasons
<1>6. CASE NextLevel
  BY <1>0, <1>6 DEF NextLevel, result, NoSkip, Shape
<1>7. CASE FetchLevel
  <2>1. PICK ps : LevelPages(ps) /\ EndLevel(ps)
    BY <1>7 DEF FetchLevel, LevelPages
  <2>2. {p.url : p \in ps} = level
    BY <2>1, LevelPagesType
  <2>3. Requested' = Requested \cup level /\ Finals' = Finals \cup {p.final : p \in ps}
    BY <2>1, <2>2 DEF EndLevel
  <2>4. Pending' = next /\ Skipped' = Skipped /\ seen' \subseteq seen \cup {p.final : p \in ps}
    BY <1>0, <2>1 DEF EndLevel
  <2>5. seen \subseteq Requested \cup level \cup next \cup Skipped \cup Finals
    OBVIOUS
  <2> HIDE DEF Requested, Pending, Finals
  <2> QED  BY <2>3, <2>4, <2>5
<1> QED
  BY <1>1, <1>2, <1>3, <1>4, <1>5, <1>6, <1>7
  DEF Next, Coordinate, EndContext, FetchRobots, Finish, BeginLevel, frontier, coordinator

(* Every link of a page is seen, or is a candidate still to be looked at.  *)
LEMMA FollowedStep ==
    TypeOK /\ Shape /\ Followed /\ [Next]_frontier => Followed'
<1> SUFFICES ASSUME TypeOK, Shape, Followed, [Next]_frontier PROVE Followed'
  OBVIOUS
<1> USE DEF Followed
<1>0. depth \in Nat
  BY DEF TypeOK
<1>1. CASE EndContext
  BY <1>1 DEF EndContext, coordinator, result
<1>2. CASE FetchRobots
  BY <1>2 DEF FetchRobots, result, Shape
<1>3. CASE StartCrawl
  BY <1>3 DEF StartCrawl, Shape
<1>4. CASE Finish
  BY <1>0, <1>4 DEF Finish, result
<1>5. CASE NoBudget
  BY <1>5 DEF NoBudget
<1>6. CASE Truncate
  BY <1>6 DEF Truncate
<1>7. CASE BeginLevel
  BY <1>7 DEF BeginLevel, result
<1>8. CASE \E u \in URLs : Admit(u)
  <2>1. PICK u \in URLs : Taken(u) /\ (u \in seen \/ u \in seen') /\ seen \subseteq seen'
    BY <1>8 DEF Admit, DropSeen, TooDeep, Disallowed, Trapped, QueueFull, Enqueue, Asked
  <2>2. seen \cup cand \subseteq seen' \cup cand'
    BY <2>1 DEF Taken
  <2> QED  BY <2>1, <2>2 DEF Taken
<1>9. CASE NextLevel
  <2>1. depth # 0
    BY <1>9 DEF NextLevel, Shape
  <2> QED  BY <1>9, <2>1 DEF NextLevel, result
<1>10. CASE FetchLevel
  <2>1. PICK ps : LevelPages(ps) /\ EndLevel(ps)
    BY <1>10 DEF FetchLevel, LevelPages
  <2>2. CASE ctx = "live"
    <3>1. cand = {}
      BY <2>1 DEF EndLevel, Shape
    <3>2. UNION {p.links : p \in ps} \subseteq cand' /\ seen \subseteq seen'
      BY <2>1, <2>2 DEF EndLevel, Candidates
    <3>3. \A p \in pages' : p.links \subseteq seen' \cup cand'
      BY <2>1, <3>1, <3>2 DEF EndLevel
    <3>4. depth = 0 => Seeds \cap InScope \subseteq cand'
      BY <2>1, <2>2 DEF EndLevel, Candidates
    <3>5. phase' = "admit"
      BY <2>1, <2>2 DEF EndLevel
    <3>6. depth > 0 => Seeds \cap InScope \subseteq seen'
      BY <2>1, <3>1, <3>2 DEF EndLevel
    <3> QED  BY <1>0, <3>3, <3>4, <3>5, <3>6
  <2>3. CASE ctx # "live"
    BY <2>1, <2>3 DEF EndLevel, ContextStop
  <2> QED  BY <2>2, <2>3
<1>11. CASE UNCHANGED frontier
  BY <1>11 DEF frontier, coordinator, result
<1> QED
  BY <1>1, <1>2, <1>3, <1>4, <1>5, <1>6, <1>7, <1>8, <1>9, <1>10, <1>11 DEF Next, Coordinate

(* Whatever the crawl has seen it fetched, queued or skipped, or it was    *)
(* where a redirect ended.                                                 *)
THEOREM NothingLost == Spec => []Accounted
<1>1. Init => Shape /\ Accounted
  BY DEF Init, Shape, Accounted, Skipped
<1> QED  BY <1>1, TypeInit, TypeStep, ShapeStep, AccountedStep, PTL DEF Spec

(* A crawl that says it completed looked at everything it found. *)
THEOREM CompletedIsComplete == Spec => []Complete
<1>1. Init => Shape /\ Accounted /\ Followed
  BY DEF Init, Shape, Accounted, Followed, Skipped
<1>2. Shape /\ Accounted /\ Followed => Complete
  BY DEF Shape, Accounted, Followed, Complete, Pending
<1> QED
  BY <1>1, <1>2, TypeInit, TypeStep, ShapeStep, AccountedStep, FollowedStep, PTL DEF Spec

-----------------------------------------------------------------------------
(* The stop reason *)

Stops ==
    /\ phase # "done" => /\ \A p \in pages : p.outcome \in {"ok", "failed"}
                         /\ stop \in {"completed", "max-pages"}
    /\ phase = "done" /\ (\E p \in pages : p.outcome \in {"canceled", "timeout"})
          => stop \in {"max-duration", "interrupted"}
    /\ phase = "done" => \A p \in pages :
          /\ p.outcome = "timeout" => stop = "max-duration" /\ p.final # None
          /\ p.outcome = "canceled" /\ p.final # None => stop = "interrupted"
    /\ count["max-pages"] > 0 => stop # "completed"
    /\ stop = "max-pages" => count["max-pages"] > 0
    /\ stop \in {"max-duration", "interrupted"} => ctx # "live"

(* Every step keeps the stop reason in line with the skips, the pages and  *)
(* the context.                                                            *)
LEMMA StopsStep ==
    TypeOK /\ Shape /\ PagesFinite /\ Stops /\ [Next]_frontier => Stops'
<1> SUFFICES ASSUME TypeOK, Shape, PagesFinite, Stops, [Next]_frontier PROVE Stops'
  OBVIOUS
<1> USE DEF Stops
<1>0. /\ count \in [Reasons -> Nat] /\ Reasons = Reasons \cup {"max-pages"}
      /\ \A S \in SUBSET URLs : Cardinality(S) \in Nat /\ (Cardinality(S) = 0 => S = {})
      /\ level \in SUBSET URLs
  BY URLsFinite, FS_CardinalityType, FS_EmptySet DEF TypeOK, Reasons
<1>1. CASE EndContext
  BY <1>1 DEF EndContext, coordinator, result, Contexts
<1>2. CASE FetchRobots
  BY <1>2 DEF FetchRobots, result
<1>3. CASE StartCrawl
  <2>1. CASE NoSkip /\ UNCHANGED stop
    BY <1>3, <2>1 DEF StartCrawl, NoSkip, Shape
  <2>2. CASE SkipAll({Start}, "robots-disallowed") /\ stop' = "start-disallowed"
    BY <1>3, <2>2 DEF StartCrawl, SkipAll, Shape
  <2> QED  BY <1>3, <2>1, <2>2 DEF StartCrawl
<1>4. CASE Finish
  BY <1>4 DEF Finish, result
<1>5. CASE NoBudget
  <2>1. Cardinality(level) > 0
    BY <1>0, <1>5 DEF NoBudget
  <2>2. count'["max-pages"] > 0
    BY <1>0, <1>5, <2>1 DEF NoBudget, SkipAll
  <2> QED  BY <1>5, <2>2 DEF NoBudget
<1>6. CASE Truncate
  <2> DEFINE S == level \ Lowest(level, Remaining)
  <2>1. Remaining \in Nat
    BY <1>6, LimitAssumption, FS_CardinalityType DEF Truncate, Remaining, PagesFinite
  <2>2. Cardinality(Lowest(level, Remaining)) = Remaining
    BY <1>0, <1>6, <2>1, LowestSize DEF Truncate
  <2>3. S # {} /\ S \in SUBSET URLs
    <3>1. Lowest(level, Remaining) # level
      BY <1>6, <2>1, <2>2 DEF Truncate
    <3>2. Lowest(level, Remaining) \subseteq level
      BY DEF Lowest
    <3> QED  BY <1>0, <3>1, <3>2
  <2>4. Cardinality(S) > 0
    BY <1>0, <2>3
  <2>5. count'["max-pages"] > 0
    BY <1>0, <1>6, <2>4 DEF Truncate, SkipAll
  <2> QED  BY <1>6, <2>5 DEF Truncate
<1>7. CASE BeginLevel
  BY <1>7 DEF BeginLevel, result
<1>8. CASE \E u \in URLs : Admit(u)
  <2>1. PICK u \in URLs : Taken(u) /\ count'["max-pages"] = count["max-pages"]
    BY <1>0, <1>8
    DEF Admit, DropSeen, TooDeep, Disallowed, Trapped, QueueFull, Enqueue, Asked,
        SkipAll, NoSkip
  <2> QED  BY <2>1 DEF Taken
<1>9. CASE NextLevel
  BY <1>9 DEF NextLevel, result
<1>10. CASE FetchLevel
  <2>1. PICK ps : LevelPages(ps) /\ EndLevel(ps)
    BY <1>10 DEF FetchLevel, LevelPages
  <2>2. CASE ctx = "live"
    <3>1. \A p \in ps : p.outcome \in {"ok", "failed"}
      BY <2>1, <2>2, LevelPagesType DEF Outcome, Fetched
    <3> QED  BY <2>1, <2>2, <3>1 DEF EndLevel, NoSkip
  <2>3. CASE ctx # "live"
    <3>1. ASSUME NEW p \in ps
          PROVE  /\ p.outcome = "timeout" => ctx = "deadline" /\ p.final # None
                 /\ p.outcome = "canceled" /\ p.final # None => ctx # "deadline"
      <4>1. PICK u \in level : p \in Outcome(u)
        BY <2>1, LevelPagesType
      <4>2. CASE p = Fetched(u)
        BY <4>2 DEF Fetched
      <4>3. CASE p = NotFetched(u)
        BY <4>3 DEF NotFetched
      <4>4. CASE p \in CutOffs(u)
        <5>1. PICK f \in {u, site.final[u]} : p = CutOff(u, f)
          BY <4>4 DEF CutOffs
        <5>2. f \in URLs
          BY <1>0 DEF TypeOK, SiteType
        <5> QED  BY <5>1, <5>2, URLAssumption DEF CutOff, URLs, None
      <4> QED  BY <4>1, <4>2, <4>3, <4>4 DEF Outcome
    <3>2. pages' = pages \cup ps /\ stop' = ContextStop /\ phase = "fetch"
      BY <2>1, <2>3 DEF EndLevel
    <3>3. \A p \in pages' :
             /\ p.outcome = "timeout" => stop' = "max-duration" /\ p.final # None
             /\ p.outcome = "canceled" /\ p.final # None => stop' = "interrupted"
      BY <3>1, <3>2 DEF ContextStop
    <3> QED  BY <2>1, <2>3, <3>2, <3>3 DEF EndLevel, NoSkip, ContextStop
  <2> QED  BY <2>2, <2>3
<1>11. CASE UNCHANGED frontier
  BY <1>11 DEF frontier, coordinator, result
<1> QED
  BY <1>1, <1>2, <1>3, <1>4, <1>5, <1>6, <1>7, <1>8, <1>9, <1>10, <1>11 DEF Next, Coordinate

(* The stop reason tells what cut the crawl short. *)
THEOREM StopReasonExplains == Spec => []StopExplains
<1>1. Init => Shape /\ PagesFinite /\ Budget /\ Stops
  BY LimitAssumption, FS_EmptySet
  DEF Init, Shape, PagesFinite, Budget, Stops, Skipped, Reasons
<1>2. Stops => StopExplains
  BY DEF Stops, StopExplains
<1> QED
  BY <1>1, <1>2, TypeInit, TypeStep, ShapeStep, BudgetStep, StopsStep, PTL DEF Spec

-----------------------------------------------------------------------------
(* Depth *)

\* Where a URL at depth d may come from.
Source(u, d) ==
    \/ d = 1 /\ u \in Seeds
    \/ \E q \in pages : q.depth = d - 1 /\ u \in q.links

Depths ==
    /\ \A p \in pages : p.depth <= depth /\ (phase # "done" => p.depth < depth)
    /\ \A p \in pages : p.depth > 0 => Source(p.url, p.depth)
    /\ depth > 0 => \A u \in cand \cup Pending : Source(u, depth)
    /\ \A u \in Pending, q \in pages : u \in q.links => depth <= q.depth + 1
    /\ \A q \in pages : phase # "done" /\ q.depth + 1 < depth => q.links \subseteq seen
    /\ \A p, q \in pages : p.url \in q.links => p.depth <= q.depth + 1

(* Every step keeps the depth of a page its distance from the start.       *)
LEMMA DepthsStep ==
    TypeOK /\ Shape /\ Followed /\ Depths /\ [Next]_frontier => Depths'
<1> SUFFICES ASSUME TypeOK, Shape, Followed, Depths, [Next]_frontier PROVE Depths'
  OBVIOUS
<1> USE DEF Depths, Source, Pending
<1>0. depth \in Nat /\ \A p \in pages : p.depth \in Nat
  BY DEF TypeOK, Pages
<1>1. CASE EndContext
  BY <1>1 DEF EndContext, coordinator, result
<1>2. CASE FetchRobots
  BY <1>2 DEF FetchRobots, result
<1>3. CASE StartCrawl
  BY <1>3 DEF StartCrawl, Shape
<1>4. CASE Finish
  BY <1>4 DEF Finish, result
<1>5. CASE NoBudget
  BY <1>5 DEF NoBudget
<1>6. CASE Truncate
  BY <1>6 DEF Truncate, Lowest
<1>7. CASE BeginLevel
  BY <1>7 DEF BeginLevel, result
<1>8. CASE \E u \in URLs : Admit(u)
  <2>1. PICK u \in URLs : Admit(u)
    BY <1>8
  <2>2. Taken(u) /\ seen \subseteq seen' /\ pages' = pages /\ depth' = depth
    BY <2>1
    DEF Admit, DropSeen, TooDeep, Disallowed, Trapped, QueueFull, Enqueue, Asked, Taken
  <2>3. CASE next' = next
    BY <2>2, <2>3 DEF Taken
  <2>4. CASE Enqueue(u)
    <3>1. u \notin seen /\ u \in cand /\ next' = next \cup {u} /\ level' = level
          /\ phase = "admit" /\ phase' = "admit" /\ cand' \subseteq cand
      BY <2>4 DEF Enqueue, Asked, Taken
    <3>2. \A q \in pages : u \in q.links => depth <= q.depth + 1
      BY <1>0, <3>1
    <3>3. \A v \in Pending' : v \in Pending \/ v = u
      BY <3>1
    <3> QED  BY <2>2, <3>1, <3>2, <3>3
  <2> QED
    BY <2>1, <2>3, <2>4 DEF Admit, DropSeen, TooDeep, Disallowed, Trapped, QueueFull
<1>9. CASE NextLevel
  BY <1>9 DEF NextLevel, result
<1>10. CASE FetchLevel
  <2>1. PICK ps : LevelPages(ps) /\ EndLevel(ps)
    BY <1>10 DEF FetchLevel, LevelPages
  <2>2. /\ ps \subseteq Pages /\ {p.url : p \in ps} = level
        /\ \A p \in ps : p.depth = depth /\ p.url \in level
    BY <2>1, LevelPagesType
  <2>3. /\ phase = "fetch" /\ pages' = pages \cup ps /\ Pending' = {}
        /\ next = {} /\ cand = {} /\ level \subseteq Pending
    BY <2>1 DEF EndLevel, Shape
  <2>4. \A u, d : Source(u, d) => Source(u, d)'
    BY <2>3
  <2>5. \A p \in pages' : p.depth > 0 => Source(p.url, p.depth)'
    BY <1>0, <2>2, <2>3, <2>4
  <2>6. \A p, q \in pages' : p.url \in q.links => p.depth <= q.depth + 1
    BY <1>0, <2>2, <2>3
  <2>7. CASE ctx # "live"
    <3>1. depth' = depth /\ phase' = "done" /\ cand' = {}
      BY <2>1, <2>3, <2>7 DEF EndLevel
    <3>2. \A p \in pages' : p.depth <= depth
      BY <1>0, <2>2, <2>3
    <3> QED  BY <2>3, <2>5, <2>6, <3>1, <3>2
  <2>8. CASE ctx = "live"
    <3>1. /\ depth' = depth + 1 /\ phase' = "admit" /\ seen \subseteq seen'
          /\ cand' = Candidates(ps, depth + 1)
      BY <2>1, <2>8 DEF EndLevel
    <3>2. \A p \in pages' : p.depth < depth + 1 /\ p.depth \in Nat
      BY <1>0, <2>2, <2>3
    <3>3. ASSUME NEW u \in cand', NEW d \in Nat, d = depth + 1 PROVE Source(u, d)'
      <4>1. CASE d = 1 /\ u \in Seeds
        BY <4>1
      <4>2. CASE \E p \in ps : u \in p.links
        BY <1>0, <2>2, <2>3, <3>3, <4>2
      <4> QED  BY <3>1, <3>3, <4>1, <4>2 DEF Candidates
    <3>6. \A u \in cand' \cup Pending' : Source(u, depth)'
      BY <1>0, <2>3, <3>1, <3>3
    <3>4. \A q \in pages : q.links \subseteq seen
      BY <2>3 DEF Followed
    <3>5. \A q \in pages' : q.depth + 1 < depth + 1 => q.links \subseteq seen'
      BY <1>0, <2>2, <2>3, <3>1, <3>4
    <3> HIDE DEF Source
    <3> QED  BY <1>0, <2>3, <2>5, <2>6, <3>1, <3>2, <3>5, <3>6
  <2> QED  BY <2>7, <2>8
<1>11. CASE UNCHANGED frontier
  BY <1>11 DEF frontier, coordinator, result
<1> QED
  BY <1>1, <1>2, <1>3, <1>4, <1>5, <1>6, <1>7, <1>8, <1>9, <1>10, <1>11 DEF Next, Coordinate

(* The depth of a page is its distance from the start over fetched pages.  *)
THEOREM DepthsAreDistances == Spec => []DepthIsDistance
<1>1. Init => Shape /\ Followed /\ Depths
  BY DEF Init, Shape, Followed, Depths, Pending, Skipped
<1>2. Depths => DepthIsDistance
  BY DEF Depths, Source, DepthIsDistance
<1> QED
  BY <1>1, <1>2, TypeInit, TypeStep, ShapeStep, FollowedStep, DepthsStep, PTL DEF Spec

(* No limit is passed at any step of a crawl, and its counters agree.     *)
THEOREM LimitsHold == Spec => []WithinLimits
<1>1. TypeOK /\ Budget /\ PatternBudget /\ SkipsCounted => WithinLimits
  BY DEF WithinLimits
<1> QED
  BY <1>1, TypeCorrect, PagesBounded, PatternsBounded, SkipsAreCounted, PTL

(* Every URL found is dealt with once, or is said to end a redirect.       *)
THEOREM EachURLIsHandledOnce == Spec => []EachURLOnce
<1>1. FetchedOnce /\ Accounted /\ Complete => EachURLOnce
  BY DEF EachURLOnce
<1> QED
  BY <1>1, RequestedOnce, NothingLost, CompletedIsComplete, PTL

-----------------------------------------------------------------------------
(***************************************************************************)
(* The worker pool.                                                        *)
(***************************************************************************)
PoolInv == TypeOK /\ PoolTypeOK /\ WorkPartition /\ SlotsAreOutcomes

(* The pool starts empty. *)
LEMMA PoolInit == CrawlerInit => PoolInv
BY TypeInit
DEF CrawlerInit, PoolInv, PoolTypeOK, WorkPartition, SlotsAreOutcomes, Held, Init, Idle

(* The coordinator acts only while the pool is empty. *)
LEMMA CoordinatorStep ==
    PoolInv /\ Coordinator => PoolTypeOK' /\ WorkPartition' /\ SlotsAreOutcomes'
<1> SUFFICES ASSUME PoolInv, Coordinator
             PROVE  PoolTypeOK' /\ WorkPartition' /\ SlotsAreOutcomes'
  OBVIOUS
<1>1. phase # "fetch"
  BY DEF Coordinator, Coordinate, FetchRobots, StartCrawl, Finish, NoBudget, Truncate,
         BeginLevel, NextLevel, Admit, DropSeen, TooDeep, Disallowed, Trapped, QueueFull,
         Enqueue, Asked, Taken
<1>2. todo = {} /\ Held = {} /\ slots = {}
  BY <1>1 DEF PoolInv, WorkPartition
<1>3. worker' = worker /\ slots' = {} /\ Held' = {}
  BY <1>2 DEF Coordinator, Held
<1>4. level' \subseteq URLs
  BY TypeStep DEF PoolInv, Coordinator, Next, TypeOK
<1>5. todo' = IF phase' = "fetch" THEN level' ELSE {}
  BY <1>2 DEF Coordinator
<1> QED
  BY <1>3, <1>4, <1>5 DEF PoolInv, PoolTypeOK, WorkPartition, SlotsAreOutcomes

(* A page that a worker delivers is one the level may have for its URL, so *)
(* the URL moves from the worker to its slot.                              *)
LEMMA DeliverStep ==
    ASSUME PoolInv, NEW w \in Workers, worker[w] # Idle,
           NEW p \in Outcome(worker[w].url), Deliver(w, p)
    PROVE  PoolTypeOK' /\ WorkPartition' /\ SlotsAreOutcomes'
<1> DEFINE u == worker[w].url
<1>1. worker[w] \in Job /\ u \in URLs /\ w \in Held
  BY DEF PoolInv, PoolTypeOK, Job, Held
<1>2. p \in Pages /\ p.url = u
  BY <1>1, OutcomePages DEF PoolInv
<1>3. /\ worker' = [worker EXCEPT ![w] = Idle] /\ slots' = slots \cup {p}
      /\ todo' = todo /\ UNCHANGED frontier
  BY DEF Deliver
<1>4. /\ Held' = Held \ {w}
      /\ \A v \in Held' : worker'[v] = worker[v]
  BY <1>1, <1>3 DEF Held, PoolInv, PoolTypeOK
<1>5. PoolTypeOK'
  BY <1>1, <1>2, <1>3 DEF PoolInv, PoolTypeOK
<1>6. SlotsAreOutcomes'
  BY <1>2, <1>3
  DEF PoolInv, SlotsAreOutcomes, Outcome, Fetched, NotFetched, CutOffs, CutOff,
      frontier, coordinator
<1>7. {q.url : q \in slots'} = {q.url : q \in slots} \cup {u}
  BY <1>2, <1>3
<1>8. phase = "fetch" /\ phase' = phase /\ level' = level
  BY <1>1, <1>3 DEF PoolInv, WorkPartition, frontier, coordinator
<1>9. {worker[v].url : v \in Held} = {worker'[v].url : v \in Held'} \cup {u}
  BY <1>1, <1>4
<1>10. /\ \A v \in Held : worker[v].url \notin todo \cup {q.url : q \in slots}
       /\ \A v, x \in Held : worker[v].url = worker[x].url => v = x
       /\ todo \cap {q.url : q \in slots} = {}
       /\ \A q, r \in slots : q.url = r.url => q = r
       /\ level = todo \cup {worker[v].url : v \in Held} \cup {q.url : q \in slots}
  BY <1>8 DEF PoolInv, WorkPartition
<1>11. \A v \in Held' : v # w /\ worker'[v].url = worker[v].url /\ v \in Held
  BY <1>4
<1>12. /\ \A v \in Held' : worker'[v].url \notin todo' \cup {q.url : q \in slots'}
       /\ \A v, x \in Held' : worker'[v].url = worker'[x].url => v = x
       /\ todo' \cap {q.url : q \in slots'} = {}
  BY <1>1, <1>3, <1>7, <1>10, <1>11
<1>13. \A q, r \in slots' : q.url = r.url => q = r
  BY <1>1, <1>2, <1>3, <1>10
<1>14. level' = todo' \cup {worker'[v].url : v \in Held'} \cup {q.url : q \in slots'}
  BY <1>3, <1>7, <1>8, <1>9, <1>10
<1>15. WorkPartition'
  BY <1>8, <1>12, <1>13, <1>14 DEF WorkPartition
<1> QED  BY <1>5, <1>6, <1>15

(* A job that a worker receives moves from the channel to the worker. *)
LEMMA SendStep ==
    ASSUME PoolInv, NEW w \in Workers, Send(w)
    PROVE  PoolTypeOK' /\ WorkPartition' /\ SlotsAreOutcomes'
<1>1. PICK u \in todo :
          /\ todo' = todo \ {u}
          /\ worker' = [worker EXCEPT ![w] = [at |-> "received", url |-> u]]
  BY DEF Send
<1>2. u \in URLs /\ worker[w] = Idle /\ UNCHANGED <<frontier, slots>> /\ phase = "fetch"
  BY DEF Send, PoolInv, PoolTypeOK
<1>3. [at |-> "received", url |-> u] \in Job /\ [at |-> "received", url |-> u] # Idle
  BY <1>2 DEF Job, Idle
<1>4. PoolTypeOK'
  BY <1>1, <1>2, <1>3 DEF PoolInv, PoolTypeOK
<1>5. SlotsAreOutcomes'
  BY <1>2
  DEF PoolInv, SlotsAreOutcomes, Outcome, Fetched, NotFetched, CutOffs, CutOff,
      frontier, coordinator
<1>6. /\ Held' = Held \cup {w} /\ w \notin Held
      /\ \A v \in Held : worker'[v] = worker[v]
      /\ worker'[w].url = u
  BY <1>1, <1>2, <1>3 DEF Held, PoolInv, PoolTypeOK
<1>7. {worker'[v].url : v \in Held'} = {worker[v].url : v \in Held} \cup {u}
  BY <1>6
<1>8. WorkPartition'
  BY <1>1, <1>2, <1>6, <1>7 DEF PoolInv, WorkPartition, frontier, coordinator
<1> QED  BY <1>4, <1>5, <1>8

(* Starting the request changes no place. *)
LEMMA RequestStep ==
    ASSUME PoolInv, NEW w \in Workers, Request(w)
    PROVE  PoolTypeOK' /\ WorkPartition' /\ SlotsAreOutcomes'
<1>1. /\ worker[w].at = "received" /\ worker' = [worker EXCEPT ![w].at = "fetching"]
      /\ UNCHANGED <<frontier, todo, slots>>
  BY DEF Request
<1>2. worker[w] \in Job
  BY <1>1 DEF PoolInv, PoolTypeOK, Idle, Job
<1>3. worker'[w] \in Job /\ worker'[w].url = worker[w].url /\ worker'[w] # Idle
  BY <1>1, <1>2 DEF PoolInv, PoolTypeOK, Job, Idle
<1>4. \A v \in Workers : v # w => worker'[v] = worker[v]
  BY <1>1 DEF PoolInv, PoolTypeOK
<1>5. worker[w] # Idle
  BY <1>1 DEF Idle
<1>6. Held' = Held /\ \A v \in Held : worker'[v].url = worker[v].url
  BY <1>3, <1>4, <1>5 DEF Held
<1>7. PoolTypeOK'
  BY <1>1, <1>2, <1>3, <1>4 DEF PoolInv, PoolTypeOK
<1>8. SlotsAreOutcomes'
  BY <1>1
  DEF PoolInv, SlotsAreOutcomes, Outcome, Fetched, NotFetched, CutOffs, CutOff,
      frontier, coordinator
<1>9. {worker'[v].url : v \in Held'} = {worker[v].url : v \in Held}
  BY <1>6
<1>10. WorkPartition'
  BY <1>1, <1>6, <1>9 DEF PoolInv, WorkPartition, frontier, coordinator
<1> QED  BY <1>7, <1>8, <1>10

(* The coordinator that has waited for the pool passes on one page for     *)
(* each URL of the level: a FetchLevel step.                               *)
LEMMA JoinIsFetchLevel == PoolInv /\ Join => FetchLevel
<1> SUFFICES ASSUME PoolInv, Join PROVE FetchLevel
  OBVIOUS
<1>1. todo = {} /\ Held = {} /\ EndLevel(slots) /\ phase = "fetch"
  BY DEF Join, Held, EndLevel
<1>2. level = {p.url : p \in slots}
  BY <1>1 DEF PoolInv, WorkPartition
<1>3. slots \subseteq UNION {Outcome(u) : u \in level}
  BY <1>2 DEF PoolInv, SlotsAreOutcomes
<1>4. /\ \A u \in level : \E p \in slots : p.url = u
      /\ \A p, q \in slots : p.url = q.url => p = q
  BY <1>2 DEF PoolInv, WorkPartition
<1> QED  BY <1>1, <1>3, <1>4 DEF FetchLevel

(* Every step of the crawl with workers is a step of LevelCrawl or leaves  *)
(* the coordinator's state alone.                                          *)
LEMMA StepIsLevelStep == PoolInv /\ [CrawlerNext]_vars => [Next]_frontier
<1> SUFFICES ASSUME PoolInv, [CrawlerNext]_vars PROVE [Next]_frontier
  OBVIOUS
<1>1. CASE Coordinator
  BY <1>1 DEF Coordinator, Next
<1>2. CASE Join
  BY <1>2, JoinIsFetchLevel DEF Next
<1>3. CASE Halt
  BY <1>3 DEF Halt, Next
<1>4. CASE \E w \in Workers : Work(w)
  BY <1>4 DEF Work, Send, Refuse, Request, Answer, Interrupt, Deliver
<1>5. CASE UNCHANGED vars
  BY <1>5 DEF vars
<1> QED  BY <1>1, <1>2, <1>3, <1>4, <1>5 DEF CrawlerNext

(* Every step of the coordinator, a worker or the context keeps the        *)
(* invariant of the pool.                                                  *)
LEMMA PoolStep == PoolInv /\ [CrawlerNext]_vars => PoolInv'
<1> SUFFICES ASSUME PoolInv, [CrawlerNext]_vars PROVE PoolInv'
  OBVIOUS
<1>1. TypeOK'
  BY StepIsLevelStep, TypeStep DEF PoolInv
<1>2. CASE Coordinator
  BY <1>1, <1>2, CoordinatorStep DEF PoolInv
<1>3. CASE Join
  <2>1. todo' = {} /\ worker' = worker /\ slots' = {} /\ Held = {} /\ phase' # "fetch"
    BY <1>3 DEF Join, EndLevel, Held
  <2>2. Held' = {}
    BY <2>1 DEF Held
  <2> QED
    BY <1>1, <2>1, <2>2 DEF PoolInv, PoolTypeOK, WorkPartition, SlotsAreOutcomes
<1>4. CASE Halt
  <2>1. /\ UNCHANGED <<todo, worker, slots, phase, level, depth, site>>
        /\ ctx = "live" /\ ctx' # "live"
    BY <1>4 DEF Halt, EndContext, pool, coordinator
  <2>2. SlotsAreOutcomes'
    BY <2>1 DEF PoolInv, SlotsAreOutcomes, Outcome, Fetched
  <2>3. Held' = Held
    BY <2>1 DEF Held
  <2> QED  BY <1>1, <2>1, <2>2, <2>3 DEF PoolInv, PoolTypeOK, WorkPartition
<1>5. CASE \E w \in Workers : Work(w)
  <2> SUFFICES ASSUME NEW w \in Workers, Work(w) PROVE PoolInv'
    BY <1>5
  <2>1. CASE Send(w)
    BY <1>1, <2>1, SendStep DEF PoolInv
  <2>2. CASE Request(w)
    BY <1>1, <2>2, RequestStep DEF PoolInv
  <2>3. CASE Refuse(w) \/ Answer(w) \/ Interrupt(w)
    <3>1. worker[w] # Idle
      BY <2>3 DEF Refuse, Answer, Interrupt, Idle
    <3>2. \E p \in Outcome(worker[w].url) : Deliver(w, p)
      BY <2>3 DEF Refuse, Answer, Interrupt, Outcome
    <3> QED  BY <1>1, <3>1, <3>2, DeliverStep DEF PoolInv
  <2> QED  BY <2>1, <2>2, <2>3 DEF Work
<1>6. CASE UNCHANGED vars
  <2>1. Held' = Held /\ UNCHANGED <<todo, worker, slots, phase, level, depth, site, ctx>>
    BY <1>6 DEF vars, pool, frontier, coordinator, Held
  <2>2. SlotsAreOutcomes'
    BY <2>1
    DEF PoolInv, SlotsAreOutcomes, Outcome, Fetched, NotFetched, CutOffs, CutOff
  <2> QED  BY <1>1, <2>1, <2>2 DEF PoolInv, PoolTypeOK, WorkPartition
<1> QED  BY <1>2, <1>3, <1>4, <1>5, <1>6 DEF CrawlerNext

(* The types of the pool's state. *)
THEOREM PoolTypeCorrect == CrawlerSpec => []PoolTypeOK
<1>1. PoolInv => PoolTypeOK
  BY DEF PoolInv
<1> QED  BY <1>1, PoolInit, PoolStep, PTL DEF CrawlerSpec

(* No URL of a level is handed to two workers, lost or fetched twice. *)
THEOREM WorkIsPartitioned == CrawlerSpec => []WorkPartition
<1>1. PoolInv => WorkPartition
  BY DEF PoolInv
<1> QED  BY <1>1, PoolInit, PoolStep, PTL DEF CrawlerSpec

(* A slot holds what the level may have for its URL, whoever fetched it. *)
THEOREM SlotsHoldOutcomes == CrawlerSpec => []SlotsAreOutcomes
<1>1. PoolInv => SlotsAreOutcomes
  BY DEF PoolInv
<1> QED  BY <1>1, PoolInit, PoolStep, PTL DEF CrawlerSpec

(* The concurrent crawl implements LevelCrawl. *)
THEOREM Refinement == CrawlerSpec => RefinesLevelCrawl
<1>1. CrawlerInit => Init
  BY DEF CrawlerInit
<1> QED
  BY <1>1, PoolInit, PoolStep, StepIsLevelStep, PTL DEF CrawlerSpec, RefinesLevelCrawl, Spec

(* The properties of LevelCrawl hold of the concurrent crawl. *)
THEOREM CrawlerSafety ==
    CrawlerSpec => [](/\ WithinLimits /\ EachURLOnce /\ RobotsRespected
                      /\ DepthIsDistance /\ StopExplains)
BY Refinement, LimitsHold, EachURLIsHandledOnce, RobotsAreRespected,
   DepthsAreDistances, StopReasonExplains, PTL DEF RefinesLevelCrawl

(* Once the context has ended no worker starts a request and the crawl     *)
(* does not go on to another level.                                        *)
THEOREM EndIsRespected == CrawlerSpec => NothingNewAfterEnd
<1>1. PoolInv /\ [CrawlerNext]_vars =>
        [ctx # "live" =>
            /\ {w \in Workers : worker'[w].at = "fetching"}
                  \subseteq {w \in Workers : worker[w].at = "fetching"}
            /\ depth' = depth]_vars
  <2> SUFFICES ASSUME PoolInv, CrawlerNext, ctx # "live"
               PROVE  /\ \A w \in Workers : worker'[w].at = "fetching" => worker[w].at = "fetching"
                      /\ depth' = depth
    OBVIOUS
  <2>1. CASE Coordinator
    BY <2>1
    DEF Coordinator, Coordinate, FetchRobots, StartCrawl, Finish, NoBudget, Truncate,
        BeginLevel, NextLevel, Admit, DropSeen, TooDeep, Disallowed, Trapped, QueueFull,
        Enqueue, Asked, Taken
  <2>2. CASE Join
    BY <2>2 DEF Join, EndLevel
  <2>3. CASE Halt
    BY <2>3 DEF Halt, EndContext
  <2>4. CASE \E w \in Workers : Work(w)
    <3> SUFFICES ASSUME NEW w \in Workers, Work(w), NEW v \in Workers
                 PROVE  /\ worker'[v].at = "fetching" => worker[v].at = "fetching"
                        /\ depth' = depth
      BY <2>4
    <3>1. depth' = depth /\ \E x \in {Idle} \cup {[at |-> "received", url |-> u] : u \in URLs} :
                               worker' = [worker EXCEPT ![w] = x]
      BY DEF Work, Send, Refuse, Request, Answer, Interrupt, Deliver, frontier, coordinator,
             PoolInv, PoolTypeOK
    <3>2. worker \in [Workers -> Job \cup {Idle}]
      BY DEF PoolInv, PoolTypeOK
    <3> QED  BY <3>1, <3>2 DEF Idle
  <2> QED  BY <2>1, <2>2, <2>3, <2>4 DEF CrawlerNext
<1> QED  BY <1>1, PoolInit, PoolStep, PTL DEF CrawlerSpec, NothingNewAfterEnd

(* Every job of a level is done once, by whichever workers there are.     *)
THEOREM PoolIsSound == CrawlerSpec => []PoolSound
<1>1. PoolTypeOK /\ WorkPartition /\ SlotsAreOutcomes => PoolSound
  BY DEF PoolSound
<1> QED
  BY <1>1, PoolTypeCorrect, WorkIsPartitioned, SlotsHoldOutcomes, PTL
=============================================================================
