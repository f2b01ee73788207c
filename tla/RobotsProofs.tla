---------------------------- MODULE RobotsProofs ----------------------------
(***************************************************************************)
(* Proofs about one robots.txt, for any files, agents, limits and paths:   *)
(* the groups of an agent are merged as they should be, what is dropped is *)
(* told, and the matcher, hence every verdict, is right.                   *)
(***************************************************************************)
EXTENDS Robots, TLAPS, FiniteSetTheorems, SequenceTheorems, WellFoundedInduction

-----------------------------------------------------------------------------
(* The inductive invariant. *)
RuleRecord == [allow : BOOLEAN, pattern : Seq(Symbols), line : Nat]
Group == [agents : SUBSET Values, rules : SUBSET RuleRecord, delay : Int]
ParsedFile == [groups : Seq(Group), warned : 0 .. MaxWarnings, truncated : BOOLEAN,
               count : 0 .. MaxRules, sitemaps : 0 .. MaxSitemaps]

Typed ==
    /\ input.lines \in Seq(FileLine) /\ input.path \in Seq(Symbols)
    /\ phase \in {"fetch", "parse", "ask", "match", "done"}
    /\ outcome \in {"none", "ok", "not-found", "unavailable", "blocked"}
    /\ lines \in Seq(FileLine) /\ lineNo \in 0 .. Len(lines)
    /\ robots \in ParsedFile /\ agentRun \in BOOLEAN
    /\ asking \in Seq(Names)
    /\ verdict \in [Names -> {"none", "allow", "deny"}]

\* The request's end decides the outcome, and the body is cut.
FileHolds ==
    /\ outcome = IF phase = "fetch" THEN "none" ELSE OutcomeOf(input.status)
    /\ phase \in {"parse", "ask", "match"} => outcome = "ok"
    /\ phase \in {"ask", "match"} => asking # <<>>
    /\ outcome = "ok" => lines = Given
    /\ outcome # "ok" => robots = Nothing /\ lineNo = 0 /\ agentRun = FALSE
    /\ outcome = "ok" /\ phase # "parse" => lineNo = Len(lines)

\* A run of agents that goes on after line n of a file.
Run(f, n) == \E h \in Heads(f) : h <= n /\ \A m \in h .. n : f[m].key \notin EndsRun

\* After n lines, the last group is the one whose agents the next line is under.
GroupsAre(f, n, gs) ==
    /\ gs = <<>> <=> ~Under(f, n)
    /\ gs # <<>> => gs[Len(gs)].agents = Over(f, n)
    /\ Run(f, n) => gs[Len(gs)].rules = {} /\ gs[Len(gs)].delay = NoDelay
    /\ \A g \in DOMAIN gs : \A a \in gs[g].agents : \E h \in Heads(f) : h <= n /\ f[h].agent = a
    /\ \A h \in Heads(f) : h <= n => \E g \in DOMAIN gs : f[h].agent \in gs[g].agents

\* The rules are those of the accepted lines, in a group with their agents.
RulesAre(f, n, gs) ==
    /\ \A g \in DOMAIN gs : \A r \in gs[g].rules :
           /\ r.line \in Accepted(f) /\ r.line <= n /\ r = RuleOf(f[r.line], r.line)
           /\ gs[g].agents = Over(f, r.line)
    /\ \A i \in Accepted(f) : i <= n => \E g \in DOMAIN gs : RuleOf(f[i], i) \in gs[g].rules

\* So are the delays.
DelaysAre(f, n, gs) ==
    /\ \A g \in DOMAIN gs : gs[g].delay # NoDelay =>
           \E i \in Delays(f) : i <= n /\ gs[g].agents = Over(f, i) /\ gs[g].delay = f[i].delay
    /\ \A i \in Delays(f) : i <= n =>
           \E g \in DOMAIN gs : gs[g].delay # NoDelay /\ gs[g].agents = Over(f, i)
Follow(f, n, gs) == GroupsAre(f, n, gs) /\ RulesAre(f, n, gs) /\ DelaysAre(f, n, gs)

\* The valid lines up to n; the count stops at the limit.
ValidTo(f, n) == Cardinality({j \in Valid(f) : j <= n})
CountIs(f, n, count) == count = IF ValidTo(f, n) < MaxRules THEN ValidTo(f, n) ELSE MaxRules

\* No line up to n is lost.
Kept(f, n) == \A i \in 1 .. n : f[i].key \in RuleKeys /\ f[i].pattern # <<>> => i \in Accepted(f)

ParseHolds == outcome = "ok" =>
    /\ Follow(Given, lineNo, robots.groups)
    /\ agentRun = TRUE <=> Run(Given, lineNo)
    /\ CountIs(Given, lineNo, robots.count)
    /\ robots.warned = 0 /\ robots.truncated = FALSE => Whole = Given /\ Kept(Given, lineNo)

\* The best of the rules that were compared.
BestHolds ==
    /\ left \subseteq RulesFor(Agent)
    /\ best = NoRule \/ (best \in RulesFor(Agent) \ left /\ Means(best.pattern, Path))
    /\ \A r \in RulesFor(Agent) \ left : Means(r.pattern, Path) =>
           /\ best # NoRule /\ Bytes(r.pattern) <= Bytes(best.pattern)
           /\ Bytes(r.pattern) = Bytes(best.pattern) /\ r.allow => best.allow

\* The matcher: what it has matched stands in the path, and what stands in
\* the path is still to be found.
Spans(at, g, path, ends) == Stands(at, g, path, Len(g)) /\ at[Len(g)] \in ends
Matched(s, g, path) ==
    /\ \E at \in [0 .. s.p -> 0 .. Len(path)] : Stands(at, g, path, s.p) /\ at[s.p] = s.t
    /\ s.star >= 0 =>
           \E at \in [0 .. s.star -> 0 .. Len(path)] : Stands(at, g, path, s.star) /\ at[s.star] <= s.mark
Open(s, g, path, ends) ==
    \A at \in [0 .. Len(g) -> 0 .. Len(path)] : Spans(at, g, path, ends) =>
        IF s.star < 0 THEN at[s.p] = s.t
        ELSE at[s.star + 1] >= s.mark /\ at[s.p] = at[s.star + 1] + (s.t - s.mark)
Placed(s, g, path) ==
    /\ s \in [p : Nat, t : Nat, star : Int, mark : Nat]
    /\ s.p <= Len(g) /\ s.t <= Len(path) /\ s.mark <= Len(path) /\ -1 <= s.star /\ s.star < s.p
    /\ s.star >= 0 => g[s.star + 1] = "*" /\ s.mark <= s.t
Ends == IF Anchored THEN {Len(Path)} ELSE 0 .. Len(Path)
ScanHolds == left # {} =>
    Placed(scan, Glob, Path) /\ Matched(scan, Glob, Path) /\ Open(scan, Glob, Path, Ends)

MatchHolds ==
    /\ phase = "match" => Target # RobotsPath /\ BestHolds /\ ScanHolds
    /\ phase # "match" \/ left = {} => scan = Scan0
    /\ phase # "match" => left = {} /\ best = NoRule

EndHolds ==
    /\ phase \in {"fetch", "parse"} => verdict = [a \in Names |-> "none"]
    /\ phase = "done" => BlockIsTold /\ (outcome = "ok" => found = FindingsAtEnd(verdict))

IInv == Typed /\ FileHolds /\ ParseHolds /\ MatchHolds /\ EndHolds /\ VerdictIsRight

-----------------------------------------------------------------------------
(* Lemmas about the matcher. *)
Going(s, g, path, ends) == Placed(s, g, path) /\ Matched(s, g, path) /\ Open(s, g, path, ends)
\* No way to match the whole goes through the place of the matcher.
Stuck(s, g, path, ends) ==
    \A at \in [0 .. Len(g) -> 0 .. Len(path)] : Spans(at, g, path, ends) => at[s.p] # s.t

(* What stands in the path can be continued by one symbol of the pattern. *)
LEMMA Continued ==
    ASSUME NEW g \in Seq(Symbols), NEW path \in Seq(Symbols), NEW n \in Nat, n < Len(g),
           NEW at \in [0 .. n -> 0 .. Len(path)], Stands(at, g, path, n), NEW v \in 0 .. Len(path),
           Takes(g, path, n + 1, at[n], v)
    PROVE  \E b \in [0 .. n + 1 -> 0 .. Len(path)] : Stands(b, g, path, n + 1) /\ b[n + 1] = v
<1> DEFINE b == [i \in 0 .. n + 1 |-> IF i = n + 1 THEN v ELSE at[i]]
<1>1. b \in [0 .. n + 1 -> 0 .. Len(path)]
  OBVIOUS
<1>2. b[0] = 0
  BY DEF Stands
<1>3. \A i \in 1 .. n : b[i] = at[i] /\ b[i - 1] = at[i - 1]
  OBVIOUS
<1>4. b[n + 1] = v /\ b[n] = at[n]
  OBVIOUS
<1> HIDE DEF b
<1>5. ASSUME NEW i \in 1 .. n + 1
      PROVE  Takes(g, path, i, b[i - 1], b[i])
  <2>1. CASE i = n + 1
    <3>1. i - 1 = n
      BY <2>1
    <3> QED  BY <2>1, <3>1, <1>4
  <2>2. CASE i # n + 1
    <3>1. i \in 1 .. n
      BY <2>2
    <3> QED  BY <3>1, <1>3 DEF Stands
  <2> QED  BY <2>1, <2>2
<1> QED  BY <1>1, <1>2, <1>4, <1>5 DEF Stands

(* So the matcher can go on to v. *)
LEMMA GoingOn ==
    ASSUME NEW g \in Seq(Symbols), NEW path \in Seq(Symbols), NEW s,
           Placed(s, g, path), Matched(s, g, path), s.p < Len(g),
           NEW v \in 0 .. Len(path), Takes(g, path, s.p + 1, s.t, v)
    PROVE  \E b \in [0 .. s.p + 1 -> 0 .. Len(path)] : Stands(b, g, path, s.p + 1) /\ b[s.p + 1] = v
<1>1. s.p \in Nat
  BY DEF Placed
<1>2. PICK at \in [0 .. s.p -> 0 .. Len(path)] : Stands(at, g, path, s.p) /\ at[s.p] = s.t
  BY DEF Matched
<1>3. Takes(g, path, s.p + 1, at[s.p], v)
  BY <1>2
<1> QED  BY <1>1, <1>2, <1>3, Continued, SMTT(30)

(* The matcher starts with nothing matched and everything open. *)
LEMMA GoingFromStart ==
    ASSUME NEW g \in Seq(Symbols), NEW path \in Seq(Symbols), NEW ends
    PROVE  Going(Scan0, g, path, ends)
<1>1. Len(g) \in Nat /\ Len(path) \in Nat
  BY LenProperties
<1>2. Placed(Scan0, g, path)
  BY <1>1 DEF Placed, Scan0, Place
<1>3. Matched(Scan0, g, path)
  <2> DEFINE b == [i \in 0 .. 0 |-> 0]
  <2>1. b \in [0 .. 0 -> 0 .. Len(path)] /\ b[0] = 0
    BY <1>1
  <2>2. Stands(b, g, path, 0)
    BY <2>1 DEF Stands
  <2> HIDE DEF b
  <2> QED  BY <2>1, <2>2 DEF Matched, Scan0, Place
<1>4. Open(Scan0, g, path, ends)
  BY DEF Open, Scan0, Place, Spans, Stands
<1> QED  BY <1>2, <1>3, <1>4 DEF Going

(* A star matches nothing at first. *)
LEMMA GoingPastStar ==
    ASSUME NEW g \in Seq(Symbols), NEW path \in Seq(Symbols), NEW ends,
           NEW s, Going(s, g, path, ends), s.p < Len(g), g[s.p + 1] = "*"
    PROVE  Going(Place(s.p + 1, s.t, s.p, s.t), g, path, ends)
<1> DEFINE r == Place(s.p + 1, s.t, s.p, s.t)
<1>1. Len(g) \in Nat /\ Len(path) \in Nat
  BY LenProperties
<1>2. /\ s \in [p : Nat, t : Nat, star : Int, mark : Nat]
      /\ s.p \in Nat /\ s.t \in Nat /\ s.star \in Int /\ s.mark \in Nat
      /\ s.p <= Len(g) /\ s.t <= Len(path) /\ s.mark <= Len(path) /\ -1 <= s.star /\ s.star < s.p
      /\ s.star >= 0 => g[s.star + 1] = "*" /\ s.mark <= s.t
  BY DEF Going, Placed
<1>3. /\ r \in [p : Nat, t : Nat, star : Int, mark : Nat]
      /\ r.p = s.p + 1 /\ r.t = s.t /\ r.star = s.p /\ r.mark = s.t
  BY <1>1, <1>2 DEF Place
<1> HIDE DEF r
<1>4. Placed(r, g, path)
  BY <1>1, <1>2, <1>3 DEF Placed
<1>5. Matched(r, g, path)
  <2>1. s.t \in 0 .. Len(path) /\ Takes(g, path, s.p + 1, s.t, s.t)
    BY <1>1, <1>2 DEF Takes
  <2>2. \E b \in [0 .. s.p + 1 -> 0 .. Len(path)] : Stands(b, g, path, s.p + 1) /\ b[s.p + 1] = s.t
    BY <2>1, GoingOn DEF Going
  <2>3. PICK at \in [0 .. s.p -> 0 .. Len(path)] : Stands(at, g, path, s.p) /\ at[s.p] = s.t
    BY DEF Going, Matched
  <2>4. at[s.p] <= s.t
    BY <1>2, <2>3
  <2> QED  BY <1>3, <2>2, <2>3, <2>4 DEF Matched
<1>6. Open(r, g, path, ends)
  <2> SUFFICES ASSUME NEW at \in [0 .. Len(g) -> 0 .. Len(path)], Spans(at, g, path, ends)
               PROVE  at[s.p + 1] >= s.t /\ at[s.p + 1] = at[s.p + 1] + (s.t - s.t)
    BY <1>1, <1>2, <1>3 DEF Open
  <2>1. at[s.p] >= s.t
    <3>1. CASE s.star < 0
      BY <1>1, <1>2, <3>1 DEF Going, Open
    <3>2. CASE s.star >= 0
      <4>1. at[s.star + 1] >= s.mark /\ at[s.p] = at[s.star + 1] + (s.t - s.mark)
        BY <1>2, <3>2, SMTT(30) DEF Going, Open
      <4>2. s.star + 1 \in 0 .. Len(g)
        BY <1>1, <1>2, <3>2
      <4> QED  BY <1>1, <1>2, <4>1, <4>2
    <3> QED  BY <1>2, <3>1, <3>2
  <2>2. s.p + 1 \in 1 .. Len(g) /\ s.p \in 0 .. Len(g) /\ s.p + 1 \in 0 .. Len(g) /\ (s.p + 1) - 1 = s.p
    BY <1>1, <1>2
  <2>3. at[s.p + 1] >= at[s.p]
    BY <2>2 DEF Spans, Stands, Takes
  <2>4. at[s.p + 1] \in Int /\ at[s.p] \in Int
    BY <1>1, <2>2
  <2> QED  BY <1>2, <2>1, <2>3, <2>4
<1> QED  BY <1>4, <1>5, <1>6 DEF Going, r

(* A symbol matches itself. *)
LEMMA GoingPastSymbol ==
    ASSUME NEW g \in Seq(Symbols), NEW path \in Seq(Symbols), NEW ends,
           NEW s, Going(s, g, path, ends), s.p < Len(g), g[s.p + 1] # "*",
           s.t < Len(path), g[s.p + 1] = path[s.t + 1]
    PROVE  Going(Place(s.p + 1, s.t + 1, s.star, s.mark), g, path, ends)
<1> DEFINE r == Place(s.p + 1, s.t + 1, s.star, s.mark)
<1>1. Len(g) \in Nat /\ Len(path) \in Nat
  BY LenProperties
<1>2. /\ s \in [p : Nat, t : Nat, star : Int, mark : Nat]
      /\ s.p \in Nat /\ s.t \in Nat /\ s.star \in Int /\ s.mark \in Nat
      /\ s.p <= Len(g) /\ s.t <= Len(path) /\ s.mark <= Len(path) /\ -1 <= s.star /\ s.star < s.p
      /\ s.star >= 0 => g[s.star + 1] = "*" /\ s.mark <= s.t
  BY DEF Going, Placed
<1>3. /\ r \in [p : Nat, t : Nat, star : Int, mark : Nat]
      /\ r.p = s.p + 1 /\ r.t = s.t + 1 /\ r.star = s.star /\ r.mark = s.mark
  BY <1>1, <1>2 DEF Place
<1> HIDE DEF r
<1>4. Placed(r, g, path)
  BY <1>1, <1>2, <1>3 DEF Placed
<1>5. Matched(r, g, path)
  <2> DEFINE v == s.t + 1
  <2>1. v \in 0 .. Len(path) /\ Takes(g, path, s.p + 1, s.t, v)
    BY <1>1, <1>2 DEF Takes
  <2> HIDE DEF v
  <2>2. \E b \in [0 .. s.p + 1 -> 0 .. Len(path)] : Stands(b, g, path, s.p + 1) /\ b[s.p + 1] = v
    BY <2>1, GoingOn DEF Going
  <2>3. s.star >= 0 =>
          \E b \in [0 .. s.star -> 0 .. Len(path)] : Stands(b, g, path, s.star) /\ b[s.star] <= s.mark
    BY DEF Going, Matched
  <2> QED  BY <1>3, <2>2, <2>3 DEF Matched, v
<1>6. Open(r, g, path, ends)
  <2> SUFFICES ASSUME NEW at \in [0 .. Len(g) -> 0 .. Len(path)], Spans(at, g, path, ends)
               PROVE  IF s.star < 0 THEN at[s.p + 1] = s.t + 1
                      ELSE /\ at[s.star + 1] >= s.mark
                           /\ at[s.p + 1] = at[s.star + 1] + ((s.t + 1) - s.mark)
    BY <1>3 DEF Open
  <2>1. IF s.star < 0 THEN at[s.p] = s.t
        ELSE at[s.star + 1] >= s.mark /\ at[s.p] = at[s.star + 1] + (s.t - s.mark)
    BY DEF Going, Open
  <2>2. s.p + 1 \in 1 .. Len(g) /\ s.p \in 0 .. Len(g) /\ s.p + 1 \in 0 .. Len(g) /\ (s.p + 1) - 1 = s.p
    BY <1>1, <1>2
  <2>3. at[s.p + 1] = at[s.p] + 1
    BY <2>2 DEF Spans, Stands, Takes
  <2>4. CASE s.star < 0
    BY <2>1, <2>3, <2>4
  <2>5. CASE ~(s.star < 0)
    <3>1. at[s.star + 1] >= s.mark /\ at[s.p] = at[s.star + 1] + (s.t - s.mark)
      BY <2>1, <2>5
    <3>2. s.star + 1 \in 0 .. Len(g)
      BY <1>1, <1>2, <2>5
    <3> DEFINE a == at[s.star + 1]
    <3>3. a \in Int
      BY <1>1, <3>2
    <3>4. at[s.p + 1] = (a + (s.t - s.mark)) + 1
      BY <2>3, <3>1
    <3> HIDE DEF a
    <3>5. (a + (s.t - s.mark)) + 1 = a + ((s.t + 1) - s.mark)
      BY <1>2, <3>3
    <3> QED  BY <2>5, <3>1, <3>4, <3>5 DEF a
  <2> QED  BY <2>4, <2>5
<1> QED  BY <1>4, <1>5, <1>6 DEF Going, r

(* Where the matcher is stuck the star takes one symbol more. *)
LEMMA GoingBack ==
    ASSUME NEW g \in Seq(Symbols), NEW path \in Seq(Symbols), NEW ends,
           NEW s, Going(s, g, path, ends), Stuck(s, g, path, ends),
           s.star >= 0, s.mark < Len(path)
    PROVE  Going(Place(s.star + 1, s.mark + 1, s.star, s.mark + 1), g, path, ends)
<1> DEFINE r == Place(s.star + 1, s.mark + 1, s.star, s.mark + 1)
<1>1. Len(g) \in Nat /\ Len(path) \in Nat
  BY LenProperties
<1>2. /\ s \in [p : Nat, t : Nat, star : Int, mark : Nat]
      /\ s.p \in Nat /\ s.t \in Nat /\ s.star \in Int /\ s.mark \in Nat
      /\ s.p <= Len(g) /\ s.t <= Len(path) /\ s.mark <= Len(path) /\ -1 <= s.star /\ s.star < s.p
      /\ g[s.star + 1] = "*" /\ s.mark <= s.t
  BY DEF Going, Placed
<1>3. /\ r \in [p : Nat, t : Nat, star : Int, mark : Nat]
      /\ r.p = s.star + 1 /\ r.t = s.mark + 1 /\ r.star = s.star /\ r.mark = s.mark + 1
  BY <1>1, <1>2 DEF Place
<1> HIDE DEF r
<1>4. Placed(r, g, path)
  BY <1>1, <1>2, <1>3 DEF Placed
<1>5. Matched(r, g, path)
  <2>1. PICK at \in [0 .. s.star -> 0 .. Len(path)] : Stands(at, g, path, s.star) /\ at[s.star] <= s.mark
    BY DEF Going, Matched
  <2>2. s.star \in Nat /\ s.star < Len(g) /\ s.mark + 1 \in 0 .. Len(path)
    BY <1>1, <1>2
  <2>3. at[s.star] \in Int /\ at[s.star] <= s.mark + 1
    BY <1>1, <1>2, <2>1, <2>2
  <2>4. \E b \in [0 .. s.star + 1 -> 0 .. Len(path)] :
            Stands(b, g, path, s.star + 1) /\ b[s.star + 1] = s.mark + 1
    <3> DEFINE v == s.mark + 1
    <3>1. Takes(g, path, s.star + 1, at[s.star], v)
      BY <1>2, <2>3 DEF Takes
    <3>2. v \in 0 .. Len(path)
      BY <2>2
    <3> HIDE DEF v
    <3>3. \E b \in [0 .. s.star + 1 -> 0 .. Len(path)] : Stands(b, g, path, s.star + 1) /\ b[s.star + 1] = v
      BY <2>1, <2>2, <3>1, <3>2, Continued, SMTT(30)
    <3> QED  BY <3>3 DEF v
  <2> QED  BY <1>3, <2>1, <2>3, <2>4 DEF Matched
<1>6. Open(r, g, path, ends)
  <2> SUFFICES ASSUME NEW at \in [0 .. Len(g) -> 0 .. Len(path)], Spans(at, g, path, ends)
               PROVE  /\ at[s.star + 1] >= s.mark + 1
                      /\ at[s.star + 1] = at[s.star + 1] + ((s.mark + 1) - (s.mark + 1))
    <3>1. ~(r.star < 0)
      BY <1>2, <1>3
    <3> QED  BY <1>3, <3>1 DEF Open
  <2>1. at[s.star + 1] >= s.mark /\ at[s.p] = at[s.star + 1] + (s.t - s.mark)
    BY <1>2, SMTT(30) DEF Going, Open
  <2>2. at[s.p] # s.t
    BY DEF Stuck
  <2>3. at[s.star + 1] \in Int /\ at[s.p] \in Int
    BY <1>1, <1>2
  <2> QED  BY <1>2, <2>1, <2>2, <2>3, SMTT(30)
<1> QED  BY <1>4, <1>5, <1>6 DEF Going, r

(* Where it is stuck and cannot go back, there is no match. *)
LEMMA NoWayBack ==
    ASSUME NEW g \in Seq(Symbols), NEW path \in Seq(Symbols), NEW ends,
           NEW s, Going(s, g, path, ends), Stuck(s, g, path, ends),
           s.star < 0 \/ s.mark >= Len(path),
           NEW at \in [0 .. Len(g) -> 0 .. Len(path)]
    PROVE  ~Spans(at, g, path, ends)
<1> SUFFICES ASSUME Spans(at, g, path, ends) PROVE FALSE
  OBVIOUS
<1>1. Len(g) \in Nat /\ Len(path) \in Nat
  BY LenProperties
<1>2. /\ s.p \in Nat /\ s.t \in Nat /\ s.star \in Int /\ s.mark \in Nat
      /\ s.p <= Len(g) /\ s.t <= Len(path) /\ s.mark <= Len(path) /\ -1 <= s.star /\ s.star < s.p
  BY DEF Going, Placed
<1>3. at[s.p] # s.t
  BY DEF Stuck
<1>4. s.star >= 0 /\ at[s.star + 1] >= s.mark /\ at[s.p] = at[s.star + 1] + (s.t - s.mark)
  <2>1. Open(s, g, path, ends)
    BY DEF Going
  <2>2. IF s.star < 0 THEN at[s.p] = s.t
        ELSE at[s.star + 1] >= s.mark /\ at[s.p] = at[s.star + 1] + (s.t - s.mark)
    BY <2>1 DEF Open
  <2>3. ~(s.star < 0)
    BY <1>3, <2>2
  <2>4. s.star >= 0
    BY <1>2, <2>3
  <2> QED  BY <2>2, <2>3, <2>4
<1>5. at[s.star + 1] \in 0 .. Len(path) /\ at[s.p] \in Int
  BY <1>1, <1>2, <1>4
<1> QED  BY <1>1, <1>2, <1>3, <1>4, <1>5, SMTT(30)

(* At the end of an anchored pattern the path must end too. *)
LEMMA StuckAtEnd ==
    ASSUME NEW g \in Seq(Symbols), NEW path \in Seq(Symbols), NEW s,
           s.p = Len(g), s.t # Len(path)
    PROVE  Stuck(s, g, path, {Len(path)})
BY DEF Stuck, Spans

(* A symbol that is not the next one of the path does not match. *)
LEMMA StuckAtSymbol ==
    ASSUME NEW g \in Seq(Symbols), NEW path \in Seq(Symbols), NEW ends, NEW s,
           s.p \in 0 .. Len(g) - 1, s.t \in 0 .. Len(path), g[s.p + 1] # "*",
           ~(s.t < Len(path) /\ g[s.p + 1] = path[s.t + 1])
    PROVE  Stuck(s, g, path, ends)
<1> SUFFICES ASSUME NEW at \in [0 .. Len(g) -> 0 .. Len(path)], Spans(at, g, path, ends), at[s.p] = s.t
             PROVE  FALSE
  BY DEF Stuck
<1>1. Len(g) \in Nat /\ Len(path) \in Nat
  BY LenProperties
<1>2. s.p + 1 \in 1 .. Len(g) /\ s.p + 1 \in 0 .. Len(g) /\ (s.p + 1) - 1 = s.p
  BY <1>1
<1>3. at[s.p + 1] = s.t + 1 /\ g[s.p + 1] = path[at[s.p + 1]]
  BY <1>2 DEF Spans, Stands, Takes
<1>4. at[s.p + 1] \in 0 .. Len(path)
  BY <1>2
<1> QED  BY <1>1, <1>3, <1>4
-----------------------------------------------------------------------------
(* Lemmas about numbers, patterns and lines. *)

(* A set of numbers that is not empty has a least one. *)
LEMMA LeastExists ==
    ASSUME NEW S, S \subseteq Nat, S # {}
    PROVE  /\ \E x \in S : \A y \in S : x <= y
           /\ Min(S) \in S
<1>1. \E x \in S : \A y \in S : ~(<<y, x>> \in OpToRel(<, Nat))
  BY NatLessThanWellFounded, WFMin
<1>2. PICK x \in S : \A y \in S : ~(<<y, x>> \in OpToRel(<, Nat))
  BY <1>1
<1>3. \A y \in S : x <= y
  <2> SUFFICES ASSUME NEW y \in S PROVE x <= y
    OBVIOUS
  <2>1. ~(y < x)
    BY <1>2 DEF OpToRel
  <2>2. x \in Nat /\ y \in Nat
    OBVIOUS
  <2> QED  BY <2>1, <2>2
<1> QED  BY <1>2, <1>3 DEF Min

(* Normal forms have the length of what they are the form of. *)
LEMMA NormalFormIs ==
    ASSUME NEW s \in Seq(Symbols)
    PROVE  NormalForm(s) \in Seq(Symbols) /\ Len(NormalForm(s)) = Len(s)
<1>1. DOMAIN s = 1 .. Len(s) /\ Len(s) \in Nat /\ \A i \in 1 .. Len(s) : s[i] \in Symbols
  BY LenProperties, ElementOfSeq
<1>2. NormalForm(s) = [i \in 1 .. Len(s) |-> Normal[s[i]]]
  BY <1>1 DEF NormalForm
<1>3. \A i \in 1 .. Len(s) : Normal[s[i]] \in Symbols
  BY <1>1, NormalAssumption
<1> QED  BY <1>1, <1>2, <1>3

(* Lengths in bytes are numbers. *)
LEMMA BytesIs ==
    ASSUME NEW s \in Seq(Symbols)
    PROVE  Bytes(s) \in Nat
<1>1. DOMAIN s = 1 .. Len(s) /\ Len(s) \in Nat
  BY LenProperties
<1>2. IsFiniteSet({i \in DOMAIN s : s[i] \in Escapes})
  <2>1. 1 \in Int /\ Len(s) \in Int
    BY <1>1
  <2>2. IsFiniteSet(DOMAIN s)
    BY <1>1, <2>1, FS_Interval
  <2> QED  BY <2>2, FS_Subset
<1>3. Cardinality({i \in DOMAIN s : s[i] \in Escapes}) \in Nat
  BY <1>2, FS_CardinalityType
<1> QED  BY <1>1, <1>3 DEF Bytes

(* The path that is matched. *)
LEMMA PathIs ==
    ASSUME input.path \in Seq(Symbols)
    PROVE  Target \in Seq(Symbols) /\ Path \in Seq(Symbols) /\ Len(Path) \in Nat
<1>1. <<"/">> \in Seq(Symbols)
  BY FilesAssumption
<1>2. Target \in Seq(Symbols)
  BY <1>1 DEF Target
<1>3. Path \in Seq(Symbols)
  BY <1>2, NormalFormIs DEF Path
<1> QED  BY <1>2, <1>3, LenProperties

(* Of rules that are left, one has the least line. *)
LEMMA LeastRule ==
    ASSUME NEW S, S \subseteq RuleRecord, S # {}
    PROVE  (CHOOSE r \in S : \A s \in S : r.line <= s.line) \in S
<1> DEFINE L == {r.line : r \in S}
<1>1. L \subseteq Nat /\ L # {}
  BY DEF RuleRecord
<1>2. PICK x \in L : \A y \in L : x <= y
  <2> HIDE DEF L
  <2> QED  BY <1>1, LeastExists
<1>3. PICK r \in S : r.line = x
  OBVIOUS
<1>4. \A q \in S : r.line <= q.line
  BY <1>2, <1>3
<1> QED  BY <1>4

(* A pattern without its last symbol is one. *)
LEMMA FrontIs ==
    ASSUME NEW s \in Seq(Symbols), s # <<>>
    PROVE  Front(s) \in Seq(Symbols)
<1>1. Len(s) \in Nat \ {0} /\ \A i \in 1 .. Len(s) : s[i] \in Symbols
  BY EmptySeq, ElementOfSeq
<1>2. 1 \in Int /\ Len(s) - 1 \in Int
  BY <1>1
<1>3. \A i \in 1 .. Len(s) - 1 : s[i] \in Symbols
  BY <1>1
<1> QED  BY <1>2, <1>3, SubSeqProperties DEF Front

(* What is matched of its pattern, and what a match of it is. *)
LEMMA GlobIs ==
    ASSUME Rule \in RuleRecord, Rule.pattern # <<>>
    PROVE  /\ Glob \in Seq(Symbols) /\ Len(Glob) \in Nat
           /\ Means(Rule.pattern, Path) <=>
                  \E at \in [0 .. Len(Glob) -> 0 .. Len(Path)] : Spans(at, Glob, Path, Ends)
<1>1. Rule.pattern \in Seq(Symbols)
  BY DEF RuleRecord
<1>3. Front(Rule.pattern) \in Seq(Symbols)
  BY <1>1, FrontIs
<1>4. Glob \in Seq(Symbols)
  BY <1>1, <1>3 DEF Glob
<1>5. Len(Glob) \in Nat
  BY <1>4, LenProperties
<1>6. Means(Rule.pattern, Path) <=>
        \E at \in [0 .. Len(Glob) -> 0 .. Len(Path)] :
            Stands(at, Glob, Path, Len(Glob)) /\ (Anchored => at[Len(Glob)] = Len(Path))
  BY DEF Means, Glob, Anchored
<1>7. ASSUME NEW at \in [0 .. Len(Glob) -> 0 .. Len(Path)]
      PROVE  at[Len(Glob)] \in Ends <=> (Anchored => at[Len(Glob)] = Len(Path))
  <2>1. at[Len(Glob)] \in 0 .. Len(Path)
    BY <1>5
  <2> QED  BY <2>1 DEF Ends
<1> QED  BY <1>4, <1>5, <1>6, <1>7 DEF Spans

-----------------------------------------------------------------------------
(* Lemmas about the body that is cut. *)

(* The places of the first m lines. *)
LEMMA PartIs ==
    ASSUME NEW body \in Seq(FileLine), NEW m \in 0 .. Len(body)
    PROVE  /\ Part(body, m) \in Seq(FileLine) /\ Len(Part(body, m)) = m
           /\ \A i \in 1 .. m : Part(body, m)[i] = body[i]
           /\ Places(Part(body, m)) = UNION {{i} \X (0 .. Len(body[i].pattern)) : i \in 1 .. m}
<1>1. Len(body) \in Nat /\ \A i \in 1 .. Len(body) : body[i] \in FileLine
  BY LenProperties, ElementOfSeq
<1>2. \A i \in 1 .. m : body[i] \in FileLine
  BY <1>1
<1>3. /\ Part(body, m) \in Seq(FileLine) /\ Len(Part(body, m)) = m
      /\ \A i \in 1 .. m : Part(body, m)[i] = body[i]
  BY <1>1, <1>2, SubSeqProperties DEF Part
<1>4. DOMAIN Part(body, m) = 1 .. m
  BY <1>3, LenProperties
<1> QED  BY <1>3, <1>4 DEF Places

(* A body has a length, and each line adds its own. *)
LEMMA LengthIs ==
    ASSUME NEW body \in Seq(FileLine)
    PROVE  /\ IsFiniteSet(Places(body)) /\ Length(body) \in Nat
           /\ body = <<>> => Length(body) = 0
<1> DEFINE D == DOMAIN body
           part == [i \in D |-> {i} \X (0 .. Len(body[i].pattern))]
           T == {{i} \X (0 .. Len(body[i].pattern)) : i \in D}
<1>1. part \in Surjection(D, T)
  BY DEF Surjection
<1>2. IsFiniteSet(T)
  <2>1. IsFiniteSet(D)
    BY LenProperties, FS_Interval
  <2> HIDE DEF D, T, part
  <2> QED  BY <1>1, <2>1, FS_Surjection
<1>3. \A t \in T : IsFiniteSet(t)
  <2> SUFFICES ASSUME NEW i \in D PROVE IsFiniteSet({i} \X (0 .. Len(body[i].pattern)))
    OBVIOUS
  <2>1. body[i] \in FileLine
    BY LenProperties, ElementOfSeq
  <2>2. 0 \in Int /\ Len(body[i].pattern) \in Int
    BY <2>1, LenProperties DEF FileLine
  <2> DEFINE k == Len(body[i].pattern)
  <2>3. IsFiniteSet(0 .. k)
    <3> HIDE DEF k
    <3>1. 0 \in Int /\ k \in Int
      BY <2>2 DEF k
    <3> QED  BY <3>1, FS_Interval
  <2>4. IsFiniteSet({i})
    BY FS_Singleton
  <2> QED  BY <2>3, <2>4, FS_Product
<1>4. IsFiniteSet(UNION T)
  <2> HIDE DEF T
  <2> QED  BY <1>2, <1>3, FS_UNION
<1>5. body = <<>> => Places(body) = {}
  BY DEF Places
<1> QED  BY <1>4, <1>5, FS_CardinalityType, FS_EmptySet DEF Places, Length

LEMMA NextLine ==
    ASSUME NEW body \in Seq(FileLine), NEW m \in 0 .. Len(body) - 1
    PROVE  Length(Part(body, m + 1)) = Length(Part(body, m)) + Len(body[m + 1].pattern) + 1
<1> DEFINE P == Places(Part(body, m))
           Q == {m + 1} \X (0 .. Len(body[m + 1].pattern))
<1>1. Len(body) \in Nat /\ m \in 0 .. Len(body) /\ m + 1 \in 0 .. Len(body)
  BY LenProperties
<1>2. Len(body[m + 1].pattern) \in Nat
  <2>1. m + 1 \in 1 .. Len(body)
    BY <1>1
  <2>2. body[m + 1] \in FileLine
    BY <2>1, ElementOfSeq
  <2> QED  BY <2>2, LenProperties DEF FileLine
<1>3. P = UNION {{i} \X (0 .. Len(body[i].pattern)) : i \in 1 .. m}
  BY <1>1, PartIs
<1>4. Places(Part(body, m + 1)) = UNION {{i} \X (0 .. Len(body[i].pattern)) : i \in 1 .. m + 1}
  BY <1>1, PartIs
<1>5. 1 .. m + 1 = (1 .. m) \cup {m + 1} /\ m + 1 \notin 1 .. m
  BY <1>1
<1>6. Places(Part(body, m + 1)) = P \cup Q
  BY <1>3, <1>4, <1>5
<1>7. P \cap Q = {}
  BY <1>3, <1>5
<1>8. IsFiniteSet(P) /\ Cardinality(P) \in Nat
  BY <1>1, PartIs, LengthIs, FS_CardinalityType
<1>9. IsFiniteSet(Q) /\ Cardinality(Q) = Len(body[m + 1].pattern) + 1
  <2>1. IsFiniteSet({m + 1}) /\ Cardinality({m + 1}) = 1
    BY FS_Singleton
  <2> DEFINE k == Len(body[m + 1].pattern)
  <2>2. k \in Nat
    BY <1>2
  <2>3. IsFiniteSet(0 .. k) /\ Cardinality(0 .. k) = k + 1
    <3> HIDE DEF k
    <3>1. 0 \in Int /\ k \in Int /\ ~(0 > k)
      BY <2>2
    <3>2. IsFiniteSet(0 .. k) /\ Cardinality(0 .. k) = k - 0 + 1
      BY <3>1, FS_Interval
    <3> QED  BY <2>2, <3>2
  <2>4. IsFiniteSet(Q) /\ Cardinality(Q) = 1 * (Len(body[m + 1].pattern) + 1)
    BY <2>1, <2>3, FS_Product, ZenonT(40)
  <2> QED  BY <1>2, <2>4
<1> HIDE DEF P, Q
<1>10. Cardinality(P \cup Q) = Cardinality(P) + Cardinality(Q)
  <2>1. Cardinality(P \cup Q) = Cardinality(P) + Cardinality(Q) - Cardinality(P \cap Q)
    BY <1>8, <1>9, FS_Union
  <2>2. Cardinality(P \cap Q) = 0
    BY <1>7, FS_EmptySet
  <2>3. Cardinality(Q) \in Nat
    BY <1>9, FS_CardinalityType
  <2> QED  BY <1>8, <2>1, <2>2, <2>3
<1>11. Length(Part(body, m)) = Cardinality(P) /\ Length(Part(body, m + 1)) = Cardinality(P \cup Q)
  BY <1>6 DEF Length, P
<1> QED  BY <1>2, <1>8, <1>9, <1>10, <1>11

LEMMA PartsGrow ==
    ASSUME NEW body \in Seq(FileLine), NEW n \in 0 .. Len(body), NEW m \in 0 .. n
    PROVE  Length(Part(body, m)) <= Length(Part(body, n))
<1>1. Len(body) \in Nat /\ m \in 0 .. Len(body)
  BY LenProperties
<1>2. 1 .. m \subseteq 1 .. n
  BY <1>1
<1>3. Places(Part(body, m)) \subseteq Places(Part(body, n))
  BY <1>1, <1>2, PartIs
<1>4. IsFiniteSet(Places(Part(body, n)))
  BY PartIs, LengthIs
<1> QED  BY <1>3, <1>4, FS_Subset DEF Length
(* A set of numbers up to a limit that holds with each number the smaller  *)
(* ones is counted by its largest.                                         *)
LEMMA CountIsLast ==
    ASSUME NEW N \in Nat, NEW S, S \subseteq 1 .. N, \A i \in S : \A j \in 1 .. i : j \in S
    PROVE  Cardinality(S) \in 0 .. N /\ S = 1 .. Cardinality(S)
<1> DEFINE c == Cardinality(S)
<1>1. IsFiniteSet(1 .. N) /\ Cardinality(1 .. N) = N
  BY FS_Interval
<1>2. IsFiniteSet(S) /\ c <= N /\ c \in Nat
  BY <1>1, FS_Subset, FS_CardinalityType, ZenonT(40)
<1> HIDE DEF c
<1>3. \A k \in Nat : IsFiniteSet(1 .. k) /\ Cardinality(1 .. k) = k
  <2> SUFFICES ASSUME NEW k \in Nat PROVE IsFiniteSet(1 .. k) /\ Cardinality(1 .. k) = k
    OBVIOUS
  <2>1. 1 \in Int /\ k \in Int
    OBVIOUS
  <2> QED  BY <2>1, FS_Interval
<1>4. ASSUME NEW k \in Nat, S \subseteq 1 .. k PROVE c <= k
  <2>1. IsFiniteSet(1 .. k) /\ Cardinality(1 .. k) = k
    BY <1>3
  <2> QED  BY <1>4, <2>1, FS_Subset DEF c
<1>5. ASSUME NEW k \in Nat, 1 .. k \subseteq S PROVE k <= c
  <2>1. Cardinality(1 .. k) = k
    BY <1>3
  <2> QED  BY <1>2, <1>5, <2>1, FS_Subset DEF c
<1>6. S \subseteq 1 .. c
  <2> SUFFICES ASSUME NEW i \in S, i > c PROVE FALSE
    BY <1>2
  <2>1. i \in Nat /\ 1 .. i \subseteq S
    BY <1>2
  <2>2. i <= c
    BY <2>1, <1>5
  <2> QED  BY <1>2, <2>1, <2>2
<1>7. 1 .. c \subseteq S
  <2> SUFFICES ASSUME NEW i \in 1 .. c, i \notin S PROVE FALSE
    OBVIOUS
  <2>1. i - 1 \in Nat /\ i - 1 < c
    BY <1>2
  <2>2. S \subseteq 1 .. i - 1
    <3> SUFFICES ASSUME NEW j \in S PROVE j \in 1 .. i - 1
      OBVIOUS
    <3>1. j \in Nat /\ j >= 1
      OBVIOUS
    <3>2. ~(i <= j)
      BY <1>2, <3>1
    <3> QED  BY <1>2, <3>1, <3>2
  <2>3. c <= i - 1
    <3> DEFINE k == i - 1
    <3>1. k \in Nat /\ S \subseteq 1 .. k
      BY <2>1, <2>2
    <3> HIDE DEF k
    <3>2. c <= k
      BY <3>1, <1>4
    <3> QED  BY <3>2 DEF k
  <2> QED  BY <1>2, <2>1, <2>3
<1>8. c \in 0 .. N
  BY <1>2
<1>9. S = 1 .. c
  BY <1>6, <1>7
<1> QED  BY <1>8, <1>9 DEF c

(* The body that is parsed is a file, and the whole one unless it is long. *)
LEMMA CutIs ==
    ASSUME NEW body \in Seq(FileLine)
    PROVE  Cut(body) \in Seq(FileLine) /\ (Length(body) <= MaxParse => Cut(body) = body)
<1> DEFINE S == {m \in DOMAIN body : Length(Part(body, m)) <= MaxParse}
           n == Cardinality(S)
           fits == MaxParse - Length(Part(body, n))
<1>1. Len(body) \in Nat /\ DOMAIN body = 1 .. Len(body)
  BY LenProperties
<1>2. \A m \in 0 .. Len(body) : Length(Part(body, m)) \in Nat
  BY PartIs, LengthIs
<1>3. \A i \in S : \A j \in 1 .. i : j \in S
  <2> SUFFICES ASSUME NEW i \in S, NEW j \in 1 .. i PROVE j \in S
    OBVIOUS
  <2>1. i \in 0 .. Len(body) /\ j \in 0 .. i /\ j \in 0 .. Len(body) /\ j \in DOMAIN body
    BY <1>1
  <2>2. Length(Part(body, j)) <= Length(Part(body, i))
    BY <2>1, PartsGrow
  <2>3. Length(Part(body, j)) \in Nat /\ Length(Part(body, i)) \in Nat /\ Length(Part(body, i)) <= MaxParse
    BY <1>2, <2>1
  <2> QED  BY <2>1, <2>2, <2>3, LimitsAssumption
<1>4. n \in 0 .. Len(body) /\ S = 1 .. n
  <2>1. S \subseteq 1 .. Len(body)
    BY <1>1
  <2> HIDE DEF S
  <2> QED  BY <1>1, <1>3, <2>1, CountIsLast
<1>5. Cut(body) = IF n = Len(body) \/ fits = 0 THEN Part(body, n)
                  ELSE Append(Part(body, n), [body[n + 1] EXCEPT !.pattern = SubSeq(@, 1, fits - 1)])
  BY DEF Cut
<1>6. \A m \in DOMAIN body : m \in S <=> Length(Part(body, m)) <= MaxParse
  OBVIOUS
<1>7. n \in Nat /\ Length(Part(body, n)) \in Nat /\ fits \in Int
  BY <1>2, <1>4, LimitsAssumption
<1> HIDE DEF S, n
<1>8. Part(body, n) \in Seq(FileLine)
  BY <1>4, PartIs
<1>9. ASSUME ~(n = Len(body) \/ fits = 0)
      PROVE  [body[n + 1] EXCEPT !.pattern = SubSeq(@, 1, fits - 1)] \in FileLine
  <2>1. n + 1 \in DOMAIN body /\ n + 1 \notin S /\ n \in 0 .. Len(body) - 1
    <3>1. n # Len(body)
      BY <1>9
    <3> DEFINE l == Len(body)
    <3>2. n \in 0 .. l /\ n # l /\ l \in Nat /\ n \in Nat
      BY <1>1, <1>4, <1>7, <3>1
    <3> HIDE DEF fits, l
    <3>3. n + 1 \in 1 .. l /\ n \in 0 .. l - 1 /\ n + 1 \notin 1 .. n
      BY <3>2
    <3> QED  BY <1>1, <1>4, <3>3 DEF l
  <2>2. body[n + 1] \in FileLine
    BY <1>1, <2>1, ElementOfSeq
  <2> DEFINE p == body[n + 1].pattern
  <2>3. p \in Seq(Symbols)
    BY <2>2 DEF FileLine
  <2>4. Len(p) \in Nat /\ \A i \in 1 .. Len(p) : p[i] \in Symbols
    BY <2>3, LenProperties, ElementOfSeq
  <2>5. Length(Part(body, n + 1)) = Length(Part(body, n)) + Len(p) + 1
    BY <2>1, NextLine
  <2>6. ~(Length(Part(body, n + 1)) <= MaxParse)
    BY <1>6, <2>1
  <2> DEFINE k == fits - 1
  <2>7. k \in Int /\ k <= Len(p)
    <3> DEFINE a == Length(Part(body, n))
               b == Length(Part(body, n + 1))
    <3>1. b = a + Len(p) + 1 /\ ~(b <= MaxParse) /\ a \in Nat /\ fits = MaxParse - a /\ MaxParse \in Nat
      BY <1>7, <2>5, <2>6, LimitsAssumption
    <3> HIDE DEF a, b, p, fits
    <3> QED  BY <2>4, <3>1
  <2> HIDE DEF p, k
  <2>8. SubSeq(p, 1, k) \in Seq(Symbols)
    <3>1. \A i \in 1 .. k : p[i] \in Symbols
      BY <2>4, <2>7
    <3> QED  BY <2>7, <3>1, SubSeqProperties
  <2>9. [body[n + 1] EXCEPT !.pattern = SubSeq(p, 1, k)] \in FileLine
    BY <2>2, <2>8 DEF FileLine
  <2> QED  BY <2>9 DEF p, k
<1>10. Cut(body) \in Seq(FileLine)
  <2>1. CASE n = Len(body) \/ fits = 0
    BY <1>5, <1>8, <2>1
  <2>2. CASE ~(n = Len(body) \/ fits = 0)
    <3> DEFINE e == [body[n + 1] EXCEPT !.pattern = SubSeq(@, 1, fits - 1)]
    <3>1. e \in FileLine
      BY <1>9, <2>2
    <3>2. Cut(body) = Append(Part(body, n), e)
      BY <1>5, <2>2
    <3> HIDE DEF e, fits
    <3> QED  BY <1>8, <3>1, <3>2, AppendProperties
  <2> QED  BY <2>1, <2>2
<1>11. ASSUME Length(body) <= MaxParse PROVE Cut(body) = body
  <2>1. CASE Len(body) = 0
    <3>1. n = Len(body)
      BY <1>4, <2>1
    <3> QED  BY <1>5, <3>1, SubSeqFull DEF Part
  <2>2. CASE Len(body) # 0
    <3>1. Len(body) \in DOMAIN body
      BY <1>1, <2>2
    <3>2. Part(body, Len(body)) = body
      BY SubSeqFull DEF Part
    <3>3. Len(body) \in S
      BY <1>6, <1>11, <3>1, <3>2
    <3>4. n = Len(body)
      <4>1. Len(body) \in 1 .. n
        BY <1>4, <3>3
      <4> DEFINE l == Len(body)
      <4>2. l \in 1 .. n /\ n \in 0 .. l /\ l \in Nat
        BY <1>1, <1>4, <4>1
      <4> HIDE DEF l
      <4>3. n = l
        BY <4>2
      <4> QED  BY <4>3 DEF l
    <3> QED  BY <1>5, <3>2, <3>4
  <2> QED  BY <2>1, <2>2
<1> QED  BY <1>10, <1>11
-----------------------------------------------------------------------------
(* Lemmas about the agents over a line. *)

(* The lines of the file. *)
LEMMA LinesAre ==
    ASSUME NEW f \in Seq(FileLine)
    PROVE  /\ Len(f) \in Nat /\ DOMAIN f = 1 .. Len(f)
           /\ \A i \in 1 .. Len(f) : f[i] \in FileLine
           /\ Heads(f) \subseteq 1 .. Len(f) /\ Valid(f) \subseteq 1 .. Len(f)
           /\ Accepted(f) \subseteq Valid(f) /\ Delays(f) \subseteq 1 .. Len(f)
<1>1. Len(f) \in Nat /\ DOMAIN f = 1 .. Len(f)
  BY LenProperties
<1>2. \A i \in 1 .. Len(f) : f[i] \in FileLine
  BY ElementOfSeq
<1>3. Heads(f) \subseteq 1 .. Len(f)
  BY <1>1 DEF Heads
<1>4. Valid(f) \subseteq 1 .. Len(f)
  BY <1>1 DEF Valid
<1>5. Accepted(f) \subseteq Valid(f)
  BY DEF Accepted
<1>6. Delays(f) \subseteq 1 .. Len(f)
  BY <1>1 DEF Delays
<1> QED  BY <1>1, <1>2, <1>3, <1>4, <1>5, <1>6

\* The user-agent lines over line i.
Above(f, i) == {x \in Heads(f) : x <= i /\
    \A y \in Heads(f) : x < y /\ y <= i => \A m \in x .. y : f[m].key \notin EndsRun}

LEMMA OverIs ==
    ASSUME NEW f, NEW i
    PROVE  Over(f, i) = {f[h].agent : h \in Above(f, i)}
BY DEF Over, Above

(* Only a user-agent line changes the agents. *)
LEMMA OverSame ==
    ASSUME NEW f \in Seq(FileLine), NEW n \in Nat, n + 1 \notin Heads(f)
    PROVE  Over(f, n + 1) = Over(f, n) /\ (Under(f, n + 1) <=> Under(f, n))
<1>1. Heads(f) \subseteq Nat
  BY LinesAre
<1>2. \A h \in Heads(f) : h <= n + 1 <=> h <= n
  <2> SUFFICES ASSUME NEW h \in Heads(f) PROVE h <= n + 1 <=> h <= n
    OBVIOUS
  <2>1. h \in Nat /\ h # n + 1
    BY <1>1
  <2> QED  BY <2>1
<1>3. Above(f, n + 1) = Above(f, n)
  BY <1>2 DEF Above
<1> QED  BY <1>2, <1>3, OverIs DEF Under

(* A user-agent line joins the run that goes on, *)
LEMMA OverJoins ==
    ASSUME NEW f \in Seq(FileLine), NEW n \in Nat, n + 1 \in Heads(f), Run(f, n)
    PROVE  Over(f, n + 1) = Over(f, n) \cup {f[n + 1].agent}
<1>1. Heads(f) \subseteq Nat
  BY LinesAre
<1>2. PICK h \in Heads(f) : h <= n /\ \A m \in h .. n : f[m].key \notin EndsRun
  BY DEF Run
<1>3. f[n + 1].key \notin EndsRun
  BY DEF Heads, EndsRun, RuleKeys
<1>4. n + 1 \in Above(f, n + 1)
  <2> SUFFICES ASSUME NEW y \in Heads(f), n + 1 < y, y <= n + 1 PROVE FALSE
    BY DEF Above
  <2> QED  BY <1>1
<1>5. ASSUME NEW x \in Above(f, n) PROVE x \in Above(f, n + 1)
  <2>1. x \in Heads(f) /\ x \in Nat /\ x <= n
    BY <1>1 DEF Above
  <2>2. \A y \in Heads(f) : x < y /\ y <= n => \A m \in x .. y : f[m].key \notin EndsRun
    BY DEF Above
  <2>3. \A m \in x .. n + 1 : f[m].key \notin EndsRun
    <3> SUFFICES ASSUME NEW m \in x .. n + 1 PROVE f[m].key \notin EndsRun
      OBVIOUS
    <3>1. CASE m = n + 1
      BY <1>3, <3>1
    <3>2. CASE m # n + 1 /\ m >= h
      <4>1. m \in h .. n
        BY <1>1, <1>2, <2>1, <3>2
      <4> QED  BY <1>2, <4>1
    <3>3. CASE m < h
      <4>1. x < h /\ m \in x .. h
        BY <1>1, <2>1, <3>3
      <4> QED  BY <1>2, <2>2, <4>1
    <3>4. m \in Int /\ h \in Int
      BY <1>1, <2>1
    <3> QED  BY <3>1, <3>2, <3>3, <3>4
  <2>4. \A y \in Heads(f) : x < y /\ y <= n + 1 => \A m \in x .. y : f[m].key \notin EndsRun
    <3> SUFFICES ASSUME NEW y \in Heads(f), x < y, y <= n + 1, NEW m \in x .. y
                 PROVE  f[m].key \notin EndsRun
      OBVIOUS
    <3>1. m \in x .. n + 1
      BY <1>1, <2>1
    <3> QED  BY <2>3, <3>1
  <2> QED  BY <2>1, <2>4 DEF Above
<1>6. ASSUME NEW x \in Above(f, n + 1), x # n + 1 PROVE x \in Above(f, n)
  <2>1. x \in Heads(f) /\ x \in Nat /\ x <= n
    BY <1>1, <1>6 DEF Above
  <2>2. \A y \in Heads(f) : x < y /\ y <= n + 1 => \A m \in x .. y : f[m].key \notin EndsRun
    BY DEF Above
  <2>3. \A y \in Heads(f) : y <= n => y <= n + 1
    BY <1>1
  <2> QED  BY <2>1, <2>2, <2>3 DEF Above
<1>7. Above(f, n + 1) = Above(f, n) \cup {n + 1}
  BY <1>4, <1>5, <1>6
<1> QED  BY <1>7, OverIs

(* or starts one. *)
LEMMA OverStarts ==
    ASSUME NEW f \in Seq(FileLine), NEW n \in Nat, n + 1 \in Heads(f), ~Run(f, n)
    PROVE  Over(f, n + 1) = {f[n + 1].agent}
<1>1. Heads(f) \subseteq Nat
  BY LinesAre
<1>2. n + 1 \in Above(f, n + 1)
  <2> SUFFICES ASSUME NEW y \in Heads(f), n + 1 < y, y <= n + 1 PROVE FALSE
    BY DEF Above
  <2> QED  BY <1>1
<1>3. ASSUME NEW x \in Above(f, n + 1), x # n + 1 PROVE FALSE
  <2>1. x \in Heads(f) /\ x \in Nat /\ x <= n
    BY <1>1, <1>3 DEF Above
  <2>2. \A m \in x .. n + 1 : f[m].key \notin EndsRun
    <3>1. x < n + 1 /\ n + 1 <= n + 1
      BY <2>1
    <3> QED  BY <3>1 DEF Above
  <2>3. \A m \in x .. n : m \in x .. n + 1
    BY <2>1
  <2> QED  BY <2>1, <2>2, <2>3 DEF Run
<1>4. Above(f, n + 1) = {n + 1}
  BY <1>2, <1>3
<1> QED  BY <1>4, OverIs

(* A run goes on over every line but those that end one. *)
LEMMA RunIs ==
    ASSUME NEW f \in Seq(FileLine), NEW n \in 0 .. Len(f) - 1
    PROVE  Run(f, n + 1) <=> n + 1 \in Heads(f) \/ (Run(f, n) /\ f[n + 1].key \notin EndsRun)
<1>1. Heads(f) \subseteq Nat /\ n \in Nat
  BY LinesAre
<1>2. ASSUME n + 1 \in Heads(f) PROVE Run(f, n + 1)
  <2>1. f[n + 1].key \notin EndsRun
    BY <1>2 DEF Heads, EndsRun, RuleKeys
  <2>2. \A m \in n + 1 .. n + 1 : m = n + 1
    BY <1>1
  <2> QED  BY <1>1, <1>2, <2>1, <2>2 DEF Run
<1>3. ASSUME Run(f, n), f[n + 1].key \notin EndsRun PROVE Run(f, n + 1)
  <2>1. PICK h \in Heads(f) : h <= n /\ \A m \in h .. n : f[m].key \notin EndsRun
    BY <1>3 DEF Run
  <2>2. \A m \in h .. n + 1 : m \in h .. n \/ m = n + 1
    BY <1>1, <2>1
  <2>3. h <= n + 1
    BY <1>1, <2>1
  <2> QED  BY <1>3, <2>1, <2>2, <2>3 DEF Run
<1>4. ASSUME Run(f, n + 1), n + 1 \notin Heads(f) PROVE Run(f, n) /\ f[n + 1].key \notin EndsRun
  <2>1. PICK h \in Heads(f) : h <= n + 1 /\ \A m \in h .. n + 1 : f[m].key \notin EndsRun
    BY <1>4 DEF Run
  <2>2. h \in Nat /\ h <= n
    BY <1>1, <1>4, <2>1
  <2>3. n + 1 \in h .. n + 1 /\ \A m \in h .. n : m \in h .. n + 1
    BY <1>1, <2>2
  <2> QED  BY <2>1, <2>2, <2>3 DEF Run
<1> QED  BY <1>2, <1>3, <1>4

(* A valid line is counted, and accepted below the limit. *)
LEMMA ValidIs ==
    ASSUME NEW f \in Seq(FileLine), NEW n \in 0 .. Len(f) - 1
    PROVE  /\ ValidTo(f, n) \in Nat
           /\ ValidTo(f, n + 1) = IF n + 1 \in Valid(f) THEN ValidTo(f, n) + 1 ELSE ValidTo(f, n)
           /\ n + 1 \in Accepted(f) <=> n + 1 \in Valid(f) /\ ValidTo(f, n) < MaxRules
<1> DEFINE S == {j \in Valid(f) : j <= n}
           T == {j \in Valid(f) : j <= n + 1}
<1>1. Valid(f) \subseteq Nat /\ n \in Nat /\ Len(f) \in Nat /\ Valid(f) \subseteq 1 .. Len(f)
  BY LinesAre
<1>2. IsFiniteSet(S)
  <2>1. IsFiniteSet(1 .. Len(f))
    <3>1. 1 \in Int /\ Len(f) \in Int
      BY <1>1
    <3> QED  BY <3>1, FS_Interval
  <2> QED  BY <1>1, <2>1, FS_Subset
<1>3. ValidTo(f, n) = Cardinality(S) /\ Cardinality(S) \in Nat /\ ValidTo(f, n + 1) = Cardinality(T)
  BY <1>2, FS_CardinalityType DEF ValidTo
<1>4. n + 1 \notin S
  BY <1>1
<1>5. T = IF n + 1 \in Valid(f) THEN S \cup {n + 1} ELSE S
  <2>1. \A j \in Valid(f) : j <= n + 1 <=> j <= n \/ j = n + 1
    <3> SUFFICES ASSUME NEW j \in Nat PROVE j <= n + 1 <=> j <= n \/ j = n + 1
      BY <1>1
    <3> QED  BY <1>1
  <2>2. CASE n + 1 \in Valid(f)
    BY <2>1, <2>2
  <2>3. CASE n + 1 \notin Valid(f)
    BY <2>1, <2>3
  <2> QED  BY <2>2, <2>3
<1>6. {j \in Valid(f) : j < n + 1} = S
  <2>1. \A j \in Valid(f) : j < n + 1 <=> j <= n
    <3> SUFFICES ASSUME NEW j \in Nat PROVE j < n + 1 <=> j <= n
      BY <1>1
    <3> QED  BY <1>1
  <2> QED  BY <2>1
<1>7. n + 1 \in Accepted(f) <=> n + 1 \in Valid(f) /\ Cardinality(S) < MaxRules
  BY <1>6 DEF Accepted
<1> HIDE DEF S, T
<1>8. Cardinality(T) = IF n + 1 \in Valid(f) THEN Cardinality(S) + 1 ELSE Cardinality(S)
  BY <1>2, <1>4, <1>5, FS_AddElement
<1> QED  BY <1>3, <1>7, <1>8
-----------------------------------------------------------------------------
(* The groups follow the lines. *)

(* The agents over lines that are parsed, and the lines so far. *)
LEMMA NextIs ==
    ASSUME NEW f \in Seq(FileLine), NEW n \in 0 .. Len(f) - 1
    PROVE  /\ n \in Nat /\ n + 1 \in 1 .. Len(f) /\ f[n + 1] \in FileLine /\ DOMAIN f = 1 .. Len(f)
           /\ \A S \in {Heads(f), Accepted(f), Delays(f)} :
                 S \subseteq Nat /\ \A i \in S : i <= n + 1 <=> i <= n \/ i = n + 1
           /\ n + 1 \in Heads(f) <=> f[n + 1].key = "user-agent"
<1>1. n \in Nat /\ n + 1 \in 1 .. Len(f)
  BY LinesAre
<1>2. \A S \in {Heads(f), Accepted(f), Delays(f)} : S \subseteq Nat
  BY LinesAre
<1>3. \A i \in Nat : i <= n + 1 <=> i <= n \/ i = n + 1
  BY <1>1
<1>4. n + 1 \in Heads(f) <=> f[n + 1].key = "user-agent"
  BY <1>1, LinesAre DEF Heads
<1> QED  BY <1>1, <1>2, <1>3, <1>4, LinesAre

LEMMA FollowFromStart ==
    ASSUME NEW f \in Seq(FileLine)
    PROVE  Follow(f, 0, <<>>)
<1>1. \A i \in Heads(f) \cup Accepted(f) \cup Delays(f) : ~(i <= 0)
  BY LinesAre
<1>2. GroupsAre(f, 0, <<>>)
  BY <1>1 DEF GroupsAre, Under, Run
<1>3. RulesAre(f, 0, <<>>) /\ DelaysAre(f, 0, <<>>)
  BY <1>1 DEF RulesAre, DelaysAre
<1> QED  BY <1>2, <1>3 DEF Follow

(* A line that gives nothing leaves the groups as they are. *)
LEMMA FollowOther ==
    ASSUME NEW f \in Seq(FileLine), NEW n \in 0 .. Len(f) - 1, NEW gs, Follow(f, n, gs),
           n + 1 \notin Heads(f), n + 1 \notin Accepted(f), n + 1 \notin Delays(f)
    PROVE  Follow(f, n + 1, gs)
<1>1. /\ n \in Nat
      /\ \A h \in Heads(f) : h <= n + 1 <=> h <= n
      /\ \A i \in Accepted(f) : i <= n + 1 <=> i <= n
      /\ \A i \in Delays(f) : i <= n + 1 <=> i <= n
  BY NextIs
<1>2. Over(f, n + 1) = Over(f, n) /\ (Under(f, n + 1) <=> Under(f, n))
  BY <1>1, OverSame
<1>3. Run(f, n + 1) => Run(f, n)
  BY RunIs
<1>4. GroupsAre(f, n + 1, gs)
  BY <1>1, <1>2, <1>3 DEF Follow, GroupsAre
<1>5. RulesAre(f, n + 1, gs)
  <2>1. \A g \in DOMAIN gs : \A r \in gs[g].rules : r.line \in Accepted(f) /\ r.line <= n
    BY DEF Follow, RulesAre
  <2>2. \A g \in DOMAIN gs : \A r \in gs[g].rules : r.line <= n + 1
    BY <1>1, <2>1
  <2> QED  BY <1>1, <2>2 DEF Follow, RulesAre
<1>6. DelaysAre(f, n + 1, gs)
  BY <1>1 DEF Follow, DelaysAre
<1> QED  BY <1>4, <1>5, <1>6 DEF Follow

(* Replacing the last group. *)
LEMMA LastIs ==
    ASSUME NEW gs \in Seq(Group), gs # <<>>, NEW e \in Group
    PROVE  /\ [gs EXCEPT ![Len(gs)] = e] \in Seq(Group)
           /\ Len(gs) \in DOMAIN gs /\ DOMAIN gs = 1 .. Len(gs) /\ Len(gs) \in Nat /\ gs[Len(gs)] \in Group
           /\ [gs EXCEPT ![Len(gs)] = e] # <<>>
           /\ DOMAIN [gs EXCEPT ![Len(gs)] = e] = DOMAIN gs
           /\ Len([gs EXCEPT ![Len(gs)] = e]) = Len(gs)
           /\ \A g \in DOMAIN gs : [gs EXCEPT ![Len(gs)] = e][g] = IF g = Len(gs) THEN e ELSE gs[g]
<1>1. Len(gs) \in Nat \ {0} /\ DOMAIN gs = 1 .. Len(gs)
  BY EmptySeq, LenProperties
<1>2. Len(gs) \in 1 .. Len(gs)
  BY <1>1
<1>3. gs[Len(gs)] \in Group
  BY <1>2, ElementOfSeq
<1>4. /\ [gs EXCEPT ![Len(gs)] = e] \in Seq(Group) /\ Len([gs EXCEPT ![Len(gs)] = e]) = Len(gs)
      /\ \A j \in 1 .. Len(gs) : [gs EXCEPT ![Len(gs)] = e][j] = IF j = Len(gs) THEN e ELSE gs[j]
  BY <1>2, ExceptSeq
<1>5. [gs EXCEPT ![Len(gs)] = e] # <<>>
  BY <1>1, <1>4, EmptySeq
<1> QED  BY <1>1, <1>2, <1>3, <1>4, <1>5
(* A line that is accepted gives its rule to the last group. *)
LEMMA FollowRule ==
    ASSUME NEW f \in Seq(FileLine), NEW n \in 0 .. Len(f) - 1, NEW gs \in Seq(Group), gs # <<>>,
           Follow(f, n, gs), NEW e \in Group,
           n + 1 \in Accepted(f), e.agents = gs[Len(gs)].agents, e.delay = gs[Len(gs)].delay,
           e.rules = gs[Len(gs)].rules \cup {RuleOf(f[n + 1], n + 1)}
    PROVE  Follow(f, n + 1, [gs EXCEPT ![Len(gs)] = e])
<1> DEFINE hs == [gs EXCEPT ![Len(gs)] = e]
           l == Len(gs)
<1>1. /\ hs # <<>> /\ Len(hs) = l /\ DOMAIN hs = DOMAIN gs /\ l \in DOMAIN gs
      /\ \A g \in DOMAIN gs : hs[g] = IF g = l THEN e ELSE gs[g]
  BY LastIs
<1> HIDE DEF hs, l
<1>2. e.agents = gs[l].agents /\ e.delay = gs[l].delay /\ e.rules = gs[l].rules \cup {RuleOf(f[n + 1], n + 1)}
  BY DEF l
<1>3. f[n + 1].key \in RuleKeys
  BY DEF Accepted, Valid
<1>4. n + 1 \notin Heads(f) /\ n + 1 \notin Delays(f) /\ ~Run(f, n + 1)
  <2>1. n + 1 \notin Heads(f) /\ n + 1 \notin Delays(f)
    BY <1>3 DEF Heads, Delays, RuleKeys
  <2>2. f[n + 1].key \in EndsRun
    BY <1>3 DEF EndsRun
  <2> QED  BY <2>1, <2>2, RunIs
<1>5. /\ n \in Nat
      /\ \A h \in Heads(f) : h <= n + 1 <=> h <= n
      /\ \A i \in Accepted(f) : i <= n + 1 <=> i <= n \/ i = n + 1
      /\ \A i \in Delays(f) : i <= n + 1 <=> i <= n
  BY <1>4, NextIs
<1>6. Over(f, n + 1) = Over(f, n) /\ (Under(f, n + 1) <=> Under(f, n))
  BY <1>4, <1>5, OverSame
<1>7. gs[l].agents = Over(f, n) /\ gs # <<>>
  BY DEF Follow, GroupsAre, l
<1>8. \A g \in DOMAIN gs : hs[g].agents = gs[g].agents /\ hs[g].delay = gs[g].delay
  BY <1>1, <1>2
<1>9. GroupsAre(f, n + 1, hs)
  <2>1. hs = <<>> <=> ~Under(f, n + 1)
    BY <1>1, <1>6 DEF Follow, GroupsAre
  <2>2. hs[Len(hs)].agents = Over(f, n + 1)
    BY <1>1, <1>2, <1>6, <1>7
  <2>3. \A g \in DOMAIN hs : \A a \in hs[g].agents : \E h \in Heads(f) : h <= n + 1 /\ f[h].agent = a
    BY <1>1, <1>5, <1>8 DEF Follow, GroupsAre
  <2>4. \A h \in Heads(f) : h <= n + 1 => \E g \in DOMAIN hs : f[h].agent \in hs[g].agents
    BY <1>1, <1>5, <1>8 DEF Follow, GroupsAre
  <2> QED  BY <1>4, <2>1, <2>2, <2>3, <2>4 DEF GroupsAre
<1>10. RulesAre(f, n + 1, hs)
  <2>1. ASSUME NEW g \in DOMAIN hs, NEW r \in hs[g].rules
        PROVE  /\ r.line \in Accepted(f) /\ r.line <= n + 1 /\ r = RuleOf(f[r.line], r.line)
               /\ hs[g].agents = Over(f, r.line)
    <3>1. CASE r \in gs[g].rules
      <4>1. /\ r.line \in Accepted(f) /\ r.line <= n /\ r = RuleOf(f[r.line], r.line)
            /\ gs[g].agents = Over(f, r.line)
        BY <1>1, <3>1 DEF Follow, RulesAre
      <4> QED  BY <1>1, <1>5, <1>8, <4>1
    <3>2. CASE g = l /\ r = RuleOf(f[n + 1], n + 1)
      <4>1. r.line = n + 1
        BY <3>2 DEF RuleOf
      <4>2. r.line <= n + 1
        BY <1>5, <4>1
      <4> QED  BY <1>1, <1>2, <1>6, <1>7, <3>2, <4>1, <4>2
    <3> QED  BY <1>1, <1>2, <3>1, <3>2
  <2>2. ASSUME NEW i \in Accepted(f), i <= n + 1
        PROVE  \E g \in DOMAIN hs : RuleOf(f[i], i) \in hs[g].rules
    <3>1. CASE i = n + 1
      <4>1. RuleOf(f[i], i) \in hs[l].rules
        BY <1>1, <1>2, <3>1
      <4> QED  BY <1>1, <4>1
    <3>2. CASE i # n + 1
      <4>1. PICK g \in DOMAIN gs : RuleOf(f[i], i) \in gs[g].rules
        BY <1>5, <2>2, <3>2 DEF Follow, RulesAre
      <4>2. RuleOf(f[i], i) \in hs[g].rules
        BY <1>1, <1>2, <4>1
      <4> QED  BY <1>1, <4>2
    <3> QED  BY <3>1, <3>2
  <2> QED  BY <2>1, <2>2 DEF RulesAre
<1>11. DelaysAre(f, n + 1, hs)
  <2>1. ASSUME NEW g \in DOMAIN hs, hs[g].delay # NoDelay
        PROVE  \E i \in Delays(f) : i <= n + 1 /\ hs[g].agents = Over(f, i) /\ hs[g].delay = f[i].delay
    <3>1. PICK i \in Delays(f) : i <= n /\ gs[g].agents = Over(f, i) /\ gs[g].delay = f[i].delay
      BY <1>1, <1>8, <2>1 DEF Follow, DelaysAre
    <3> QED  BY <1>1, <1>5, <1>8, <3>1
  <2>2. ASSUME NEW i \in Delays(f), i <= n + 1
        PROVE  \E g \in DOMAIN hs : hs[g].delay # NoDelay /\ hs[g].agents = Over(f, i)
    <3>1. PICK g \in DOMAIN gs : gs[g].delay # NoDelay /\ gs[g].agents = Over(f, i)
      BY <1>5, <2>2 DEF Follow, DelaysAre
    <3> QED  BY <1>1, <1>8, <3>1
  <2> QED  BY <2>1, <2>2 DEF DelaysAre
<1> QED  BY <1>9, <1>10, <1>11 DEF Follow, hs, l

(* A delay replaces that of the last group. *)
LEMMA FollowDelay ==
    ASSUME NEW f \in Seq(FileLine), NEW n \in 0 .. Len(f) - 1, NEW gs \in Seq(Group), gs # <<>>,
           Follow(f, n, gs), NEW e \in Group,
           n + 1 \in Delays(f), e.agents = gs[Len(gs)].agents, e.rules = gs[Len(gs)].rules,
           e.delay = f[n + 1].delay
    PROVE  Follow(f, n + 1, [gs EXCEPT ![Len(gs)] = e])
<1> DEFINE hs == [gs EXCEPT ![Len(gs)] = e]
           l == Len(gs)
<1>1. /\ hs # <<>> /\ Len(hs) = l /\ DOMAIN hs = DOMAIN gs /\ l \in DOMAIN gs
      /\ \A g \in DOMAIN gs : hs[g] = IF g = l THEN e ELSE gs[g]
  BY LastIs
<1> HIDE DEF hs, l
<1>2. e.agents = gs[l].agents /\ e.rules = gs[l].rules /\ e.delay = f[n + 1].delay
  BY DEF l
<1>3. f[n + 1].key = "crawl-delay" /\ f[n + 1].delay # NoDelay
  BY DEF Delays
<1>4. n + 1 \notin Heads(f) /\ n + 1 \notin Accepted(f) /\ ~Run(f, n + 1)
  <2>1. n + 1 \notin Heads(f) /\ n + 1 \notin Accepted(f)
    BY <1>3 DEF Heads, Accepted, Valid, RuleKeys
  <2>2. f[n + 1].key \in EndsRun
    BY <1>3 DEF EndsRun
  <2> QED  BY <2>1, <2>2, RunIs
<1>5. /\ n \in Nat
      /\ \A h \in Heads(f) : h <= n + 1 <=> h <= n
      /\ \A i \in Accepted(f) : i <= n + 1 <=> i <= n
      /\ \A i \in Delays(f) : i <= n + 1 <=> i <= n \/ i = n + 1
  BY <1>4, NextIs
<1>6. Over(f, n + 1) = Over(f, n) /\ (Under(f, n + 1) <=> Under(f, n))
  BY <1>4, <1>5, OverSame
<1>7. gs[l].agents = Over(f, n) /\ gs # <<>>
  BY DEF Follow, GroupsAre, l
<1>8. \A g \in DOMAIN gs : hs[g].agents = gs[g].agents /\ hs[g].rules = gs[g].rules
  BY <1>1, <1>2
<1>9. GroupsAre(f, n + 1, hs)
  <2>1. hs = <<>> <=> ~Under(f, n + 1)
    BY <1>1, <1>6 DEF Follow, GroupsAre
  <2>2. hs[Len(hs)].agents = Over(f, n + 1)
    BY <1>1, <1>2, <1>6, <1>7
  <2>3. \A g \in DOMAIN hs : \A a \in hs[g].agents : \E h \in Heads(f) : h <= n + 1 /\ f[h].agent = a
    BY <1>1, <1>5, <1>8 DEF Follow, GroupsAre
  <2>4. \A h \in Heads(f) : h <= n + 1 => \E g \in DOMAIN hs : f[h].agent \in hs[g].agents
    BY <1>1, <1>5, <1>8 DEF Follow, GroupsAre
  <2> QED  BY <1>4, <2>1, <2>2, <2>3, <2>4 DEF GroupsAre
<1>10. RulesAre(f, n + 1, hs)
  <2>1. \A g \in DOMAIN gs : \A r \in gs[g].rules : r.line \in Accepted(f) /\ r.line <= n
    BY DEF Follow, RulesAre
  <2>2. \A g \in DOMAIN gs : \A r \in gs[g].rules : r.line <= n + 1
    BY <1>5, <2>1
  <2> QED  BY <1>1, <1>5, <1>8, <2>2 DEF Follow, RulesAre
<1>11. DelaysAre(f, n + 1, hs)
  <2>1. ASSUME NEW g \in DOMAIN hs, hs[g].delay # NoDelay
        PROVE  \E i \in Delays(f) : i <= n + 1 /\ hs[g].agents = Over(f, i) /\ hs[g].delay = f[i].delay
    <3>1. CASE g = l
      <4>1. hs[g].agents = Over(f, n + 1) /\ hs[g].delay = f[n + 1].delay /\ n + 1 <= n + 1
        BY <1>1, <1>2, <1>5, <1>6, <1>7, <3>1
      <4> QED  BY <4>1
    <3>2. CASE g # l
      <4>1. hs[g] = gs[g]
        BY <1>1, <3>2
      <4>2. PICK i \in Delays(f) : i <= n /\ gs[g].agents = Over(f, i) /\ gs[g].delay = f[i].delay
        BY <1>1, <2>1, <4>1 DEF Follow, DelaysAre
      <4> QED  BY <1>5, <4>1, <4>2
    <3> QED  BY <3>1, <3>2
  <2>2. ASSUME NEW i \in Delays(f), i <= n + 1
        PROVE  \E g \in DOMAIN hs : hs[g].delay # NoDelay /\ hs[g].agents = Over(f, i)
    <3>1. CASE i = n + 1
      <4>1. hs[l].delay # NoDelay /\ hs[l].agents = Over(f, i)
        BY <1>1, <1>2, <1>3, <1>6, <1>7, <3>1
      <4> QED  BY <1>1, <4>1
    <3>2. CASE i # n + 1
      <4>1. PICK g \in DOMAIN gs : gs[g].delay # NoDelay /\ gs[g].agents = Over(f, i)
        BY <1>5, <2>2, <3>2 DEF Follow, DelaysAre
      <4>2. hs[g].delay # NoDelay /\ hs[g].agents = Over(f, i)
        BY <1>1, <1>2, <1>3, <4>1
      <4> QED  BY <1>1, <4>2
    <3> QED  BY <3>1, <3>2
  <2> QED  BY <2>1, <2>2 DEF DelaysAre
<1> QED  BY <1>9, <1>10, <1>11 DEF Follow, hs, l
(* A user-agent line joins the last group while the run goes on. *)
LEMMA FollowAgent ==
    ASSUME NEW f \in Seq(FileLine), NEW n \in 0 .. Len(f) - 1, NEW gs \in Seq(Group), gs # <<>>,
           Follow(f, n, gs), NEW e \in Group,
           n + 1 \in Heads(f), Run(f, n), e.agents = gs[Len(gs)].agents \cup {f[n + 1].agent},
           e.rules = gs[Len(gs)].rules, e.delay = gs[Len(gs)].delay
    PROVE  Follow(f, n + 1, [gs EXCEPT ![Len(gs)] = e])
<1> DEFINE hs == [gs EXCEPT ![Len(gs)] = e]
           l == Len(gs)
<1>1. /\ hs # <<>> /\ Len(hs) = l /\ DOMAIN hs = DOMAIN gs /\ l \in DOMAIN gs
      /\ \A g \in DOMAIN gs : hs[g] = IF g = l THEN e ELSE gs[g]
  BY LastIs
<1>2. gs[l].agents = Over(f, n) /\ gs[l].rules = {} /\ gs[l].delay = NoDelay
  BY DEF Follow, GroupsAre
<1> HIDE DEF hs, l
<1>3. e.agents = gs[l].agents \cup {f[n + 1].agent} /\ e.rules = {} /\ e.delay = NoDelay
  BY <1>2 DEF l
<1>4. f[n + 1].key = "user-agent" /\ n + 1 \notin Accepted(f) /\ n + 1 \notin Delays(f)
  BY DEF Heads, Accepted, Valid, Delays, RuleKeys
<1>5. /\ n \in Nat
      /\ \A h \in Heads(f) : h <= n + 1 <=> h <= n \/ h = n + 1
      /\ \A i \in Accepted(f) : i <= n + 1 <=> i <= n
      /\ \A i \in Delays(f) : i <= n + 1 <=> i <= n
  BY <1>4, NextIs
<1>6. Over(f, n + 1) = Over(f, n) \cup {f[n + 1].agent}
  BY <1>5, OverJoins
<1>7. Under(f, n + 1) /\ n + 1 <= n + 1
  BY <1>5 DEF Under
<1>8. \A g \in DOMAIN gs : hs[g].rules = gs[g].rules /\ hs[g].delay = gs[g].delay
  BY <1>1, <1>2, <1>3
<1>9. GroupsAre(f, n + 1, hs)
  <2>1. hs[Len(hs)].agents = Over(f, n + 1) /\ hs[Len(hs)].rules = {} /\ hs[Len(hs)].delay = NoDelay
    BY <1>1, <1>2, <1>3, <1>6
  <2>2. ASSUME NEW g \in DOMAIN hs, NEW a \in hs[g].agents
        PROVE  \E h \in Heads(f) : h <= n + 1 /\ f[h].agent = a
    <3>1. CASE a \in gs[g].agents
      <4>1. PICK h \in Heads(f) : h <= n /\ f[h].agent = a
        BY <1>1, <3>1 DEF Follow, GroupsAre
      <4> QED  BY <1>5, <4>1
    <3>2. CASE a = f[n + 1].agent
      BY <1>7, <3>2
    <3> QED  BY <1>1, <1>3, <3>1, <3>2
  <2>3. ASSUME NEW h \in Heads(f), h <= n + 1 PROVE \E g \in DOMAIN hs : f[h].agent \in hs[g].agents
    <3>1. CASE h = n + 1
      <4>1. f[h].agent \in hs[l].agents
        BY <1>1, <1>3, <3>1
      <4> QED  BY <1>1, <4>1
    <3>2. CASE h <= n
      <4>1. PICK g \in DOMAIN gs : f[h].agent \in gs[g].agents
        BY <3>2 DEF Follow, GroupsAre
      <4> QED  BY <1>1, <1>3, <4>1
    <3> QED  BY <1>5, <2>3, <3>1, <3>2
  <2> QED  BY <1>1, <1>7, <2>1, <2>2, <2>3 DEF GroupsAre
<1>10. RulesAre(f, n + 1, hs)
  <2>1. ASSUME NEW g \in DOMAIN hs, NEW r \in hs[g].rules
        PROVE  /\ r.line \in Accepted(f) /\ r.line <= n + 1 /\ r = RuleOf(f[r.line], r.line)
               /\ hs[g].agents = Over(f, r.line)
    <3>1. g # l /\ g \in DOMAIN gs /\ r \in gs[g].rules /\ hs[g] = gs[g]
      BY <1>1, <1>3
    <3>2. /\ r.line \in Accepted(f) /\ r.line <= n /\ r = RuleOf(f[r.line], r.line)
          /\ gs[g].agents = Over(f, r.line)
      BY <3>1 DEF Follow, RulesAre
    <3> QED  BY <1>5, <3>1, <3>2
  <2>2. \A i \in Accepted(f) : i <= n + 1 => \E g \in DOMAIN hs : RuleOf(f[i], i) \in hs[g].rules
    BY <1>1, <1>5, <1>8 DEF Follow, RulesAre
  <2> QED  BY <2>1, <2>2 DEF RulesAre
<1>11. DelaysAre(f, n + 1, hs)
  <2>1. ASSUME NEW g \in DOMAIN hs, hs[g].delay # NoDelay
        PROVE  \E i \in Delays(f) : i <= n + 1 /\ hs[g].agents = Over(f, i) /\ hs[g].delay = f[i].delay
    <3>1. g # l /\ g \in DOMAIN gs /\ hs[g] = gs[g]
      BY <1>1, <1>3, <2>1
    <3>2. PICK i \in Delays(f) : i <= n /\ gs[g].agents = Over(f, i) /\ gs[g].delay = f[i].delay
      BY <2>1, <3>1 DEF Follow, DelaysAre
    <3> QED  BY <1>5, <3>1, <3>2
  <2>2. ASSUME NEW i \in Delays(f), i <= n + 1
        PROVE  \E g \in DOMAIN hs : hs[g].delay # NoDelay /\ hs[g].agents = Over(f, i)
    <3>1. PICK g \in DOMAIN gs : gs[g].delay # NoDelay /\ gs[g].agents = Over(f, i)
      BY <1>5, <2>2 DEF Follow, DelaysAre
    <3>2. g # l /\ hs[g] = gs[g]
      BY <1>1, <1>2, <3>1
    <3> QED  BY <1>1, <3>1, <3>2
  <2> QED  BY <2>1, <2>2 DEF DelaysAre
<1> QED  BY <1>9, <1>10, <1>11 DEF Follow, hs, l

(* Otherwise it opens a group. *)
LEMMA FollowOpen ==
    ASSUME NEW f \in Seq(FileLine), NEW n \in 0 .. Len(f) - 1, NEW gs \in Seq(Group),
           Follow(f, n, gs), n + 1 \in Heads(f), ~Run(f, n)
    PROVE  Follow(f, n + 1, Append(gs, [agents |-> {f[n + 1].agent}, rules |-> {}, delay |-> NoDelay]))
<1> DEFINE e == [agents |-> {f[n + 1].agent}, rules |-> {}, delay |-> NoDelay]
           hs == Append(gs, e)
           l == Len(gs) + 1
<1>1. e \in Group
  <2>1. f[n + 1] \in FileLine
    BY NextIs
  <2>2. {f[n + 1].agent} \in SUBSET Values /\ {} \in SUBSET RuleRecord /\ NoDelay \in Int
    BY <2>1 DEF FileLine, NoDelay
  <2> QED  BY <2>2 DEF Group
<1>2. e.agents = {f[n + 1].agent} /\ e.rules = {} /\ e.delay = NoDelay
  OBVIOUS
<1>3. Len(gs) \in Nat /\ DOMAIN gs = 1 .. Len(gs)
  BY LenProperties
<1> HIDE DEF e
<1>4. /\ hs \in Seq(Group) /\ hs # <<>> /\ Len(hs) = l /\ hs[l] = e
      /\ \A g \in DOMAIN gs : hs[g] = gs[g]
  BY <1>1, <1>3, AppendProperties
<1> HIDE DEF hs
<1>5. DOMAIN hs = DOMAIN gs \cup {l} /\ l \notin DOMAIN gs
  <2>1. DOMAIN hs = 1 .. l
    BY <1>4, LenProperties
  <2> QED  BY <1>3, <2>1
<1> HIDE DEF l
<1>6. f[n + 1].key = "user-agent" /\ n + 1 \notin Accepted(f) /\ n + 1 \notin Delays(f)
  BY DEF Heads, Accepted, Valid, Delays, RuleKeys
<1>7. /\ n \in Nat
      /\ \A h \in Heads(f) : h <= n + 1 <=> h <= n \/ h = n + 1
      /\ \A i \in Accepted(f) : i <= n + 1 <=> i <= n
      /\ \A i \in Delays(f) : i <= n + 1 <=> i <= n
  BY <1>6, NextIs
<1>8. Over(f, n + 1) = {f[n + 1].agent}
  BY <1>7, OverStarts
<1>9. Under(f, n + 1) /\ n + 1 <= n + 1
  BY <1>7 DEF Under
<1>10. GroupsAre(f, n + 1, hs)
  <2>1. hs[Len(hs)].agents = Over(f, n + 1) /\ hs[Len(hs)].rules = {} /\ hs[Len(hs)].delay = NoDelay
    BY <1>2, <1>4, <1>8
  <2>2. ASSUME NEW g \in DOMAIN hs, NEW a \in hs[g].agents
        PROVE  \E h \in Heads(f) : h <= n + 1 /\ f[h].agent = a
    <3>1. CASE g = l
      BY <1>2, <1>4, <1>9, <3>1
    <3>2. CASE g \in DOMAIN gs
      <4>1. PICK h \in Heads(f) : h <= n /\ f[h].agent = a
        BY <1>4, <3>2 DEF Follow, GroupsAre
      <4> QED  BY <1>7, <4>1
    <3> QED  BY <1>5, <3>1, <3>2
  <2>3. ASSUME NEW h \in Heads(f), h <= n + 1 PROVE \E g \in DOMAIN hs : f[h].agent \in hs[g].agents
    <3>1. CASE h = n + 1
      BY <1>2, <1>4, <1>5, <3>1
    <3>2. CASE h <= n
      <4>1. PICK g \in DOMAIN gs : f[h].agent \in gs[g].agents
        BY <3>2 DEF Follow, GroupsAre
      <4> QED  BY <1>4, <1>5, <4>1
    <3> QED  BY <1>7, <2>3, <3>1, <3>2
  <2> QED  BY <1>4, <1>9, <2>1, <2>2, <2>3 DEF GroupsAre
<1>11. RulesAre(f, n + 1, hs)
  <2>1. ASSUME NEW g \in DOMAIN hs, NEW r \in hs[g].rules
        PROVE  /\ r.line \in Accepted(f) /\ r.line <= n + 1 /\ r = RuleOf(f[r.line], r.line)
               /\ hs[g].agents = Over(f, r.line)
    <3>1. g \in DOMAIN gs /\ r \in gs[g].rules /\ hs[g] = gs[g]
      BY <1>2, <1>4, <1>5
    <3>2. /\ r.line \in Accepted(f) /\ r.line <= n /\ r = RuleOf(f[r.line], r.line)
          /\ gs[g].agents = Over(f, r.line)
      BY <3>1 DEF Follow, RulesAre
    <3> QED  BY <1>7, <3>1, <3>2
  <2>2. ASSUME NEW i \in Accepted(f), i <= n + 1
        PROVE  \E g \in DOMAIN hs : RuleOf(f[i], i) \in hs[g].rules
    <3>1. PICK g \in DOMAIN gs : RuleOf(f[i], i) \in gs[g].rules
      BY <1>7, <2>2 DEF Follow, RulesAre
    <3> QED  BY <1>4, <1>5, <3>1
  <2> QED  BY <2>1, <2>2 DEF RulesAre
<1>12. DelaysAre(f, n + 1, hs)
  <2>1. ASSUME NEW g \in DOMAIN hs, hs[g].delay # NoDelay
        PROVE  \E i \in Delays(f) : i <= n + 1 /\ hs[g].agents = Over(f, i) /\ hs[g].delay = f[i].delay
    <3>1. g \in DOMAIN gs /\ hs[g] = gs[g]
      BY <1>2, <1>4, <1>5, <2>1
    <3>2. PICK i \in Delays(f) : i <= n /\ gs[g].agents = Over(f, i) /\ gs[g].delay = f[i].delay
      BY <2>1, <3>1 DEF Follow, DelaysAre
    <3> QED  BY <1>7, <3>1, <3>2
  <2>2. ASSUME NEW i \in Delays(f), i <= n + 1
        PROVE  \E g \in DOMAIN hs : hs[g].delay # NoDelay /\ hs[g].agents = Over(f, i)
    <3>1. PICK g \in DOMAIN gs : gs[g].delay # NoDelay /\ gs[g].agents = Over(f, i)
      BY <1>7, <2>2 DEF Follow, DelaysAre
    <3> QED  BY <1>4, <1>5, <3>1
  <2> QED  BY <2>1, <2>2 DEF DelaysAre
<1>13. Follow(f, n + 1, hs)
  BY <1>10, <1>11, <1>12 DEF Follow
<1> QED  BY <1>13 DEF hs, e

(* When all lines are parsed, the groups for an agent are those whose      *)
(* agents count for it.                                                    *)
Counts(f, agents, a) == \E n \in agents : IF Named(f, a) THEN n # "*" /\ Token[n] = a ELSE n = "*"

LEMMA GroupsForIs ==
    ASSUME Given \in Seq(FileLine), Follow(Given, Len(Given), robots.groups), NEW a
    PROVE  GroupsFor(a) = {g \in DOMAIN robots.groups : Counts(Given, robots.groups[g].agents, a)}
<1> DEFINE gs == robots.groups
           f == Given
           named == {g \in DOMAIN gs : Names1(gs[g], a)}
<1>1. \A h \in Heads(f) : h <= Len(f)
  BY LinesAre
<1>2. named # {} <=> Named(f, a)
  <2>1. ASSUME NEW g \in named PROVE Named(f, a)
    <3>1. g \in DOMAIN gs /\ a # "*" /\ \E n \in gs[g].agents : n # "*" /\ Token[n] = a
      BY DEF Names1
    <3>2. PICK n \in gs[g].agents : n # "*" /\ Token[n] = a
      BY <3>1
    <3>3. PICK h \in Heads(f) : f[h].agent = n
      BY <3>1 DEF Follow, GroupsAre
    <3> QED  BY <3>1, <3>2, <3>3 DEF Named
  <2>2. ASSUME Named(f, a) PROVE named # {}
    <3>1. PICK h \in Heads(f) : f[h].agent # "*" /\ Token[f[h].agent] = a
      BY <2>2 DEF Named
    <3>2. PICK g \in DOMAIN gs : f[h].agent \in gs[g].agents
      BY <1>1 DEF Follow, GroupsAre
    <3>3. Names1(gs[g], a)
      BY <2>2, <3>1, <3>2 DEF Names1, Named
    <3> QED  BY <3>3
  <2> QED  BY <2>1, <2>2
<1>3. GroupsFor(a) = IF named # {} THEN named ELSE {g \in DOMAIN gs : "*" \in gs[g].agents}
  BY DEF GroupsFor
<1>4. CASE Named(f, a)
  <2>1. \A g \in DOMAIN gs : Names1(gs[g], a) <=> Counts(f, gs[g].agents, a)
    BY <1>4 DEF Names1, Counts, Named
  <2> QED  BY <1>2, <1>3, <1>4, <2>1
<1>5. CASE ~Named(f, a)
  <2>1. \A g \in DOMAIN gs : "*" \in gs[g].agents <=> Counts(f, gs[g].agents, a)
    BY <1>5 DEF Counts
  <2> QED  BY <1>2, <1>3, <1>5, <2>1
<1> QED  BY <1>4, <1>5

(* So the rules of an agent are those of the lines that count for it. *)
LEMMA RulesForIs ==
    ASSUME Given \in Seq(FileLine), Follow(Given, Len(Given), robots.groups), NEW a
    PROVE  RulesFor(a) = {RuleOf(Given[i], i) : i \in ForAgent(Given, Accepted(Given), a)}
<1> DEFINE gs == robots.groups
           f == Given
<1>1. RulesFor(a) = UNION {gs[g].rules : g \in GroupsFor(a)}
  BY DEF RulesFor, Collect
<1>2. \A i \in Accepted(f) : i <= Len(f)
  BY LinesAre
<1>3. \A i : i \in ForAgent(f, Accepted(f), a) <=> i \in Accepted(f) /\ Counts(f, Over(f, i), a)
  BY DEF ForAgent, Counts
<1>4. ASSUME NEW r \in RulesFor(a)
      PROVE  \E i \in ForAgent(f, Accepted(f), a) : r = RuleOf(f[i], i)
  <2>1. PICK g \in GroupsFor(a) : r \in gs[g].rules
    BY <1>1
  <2>2. g \in DOMAIN gs /\ Counts(f, gs[g].agents, a)
    BY GroupsForIs
  <2>3. r.line \in Accepted(f) /\ r = RuleOf(f[r.line], r.line) /\ gs[g].agents = Over(f, r.line)
    BY <2>1, <2>2 DEF Follow, RulesAre
  <2> QED  BY <1>3, <2>2, <2>3
<1>5. ASSUME NEW i \in ForAgent(f, Accepted(f), a) PROVE RuleOf(f[i], i) \in RulesFor(a)
  <2>1. i \in Accepted(f) /\ Counts(f, Over(f, i), a)
    BY <1>3
  <2>2. PICK g \in DOMAIN gs : RuleOf(f[i], i) \in gs[g].rules
    BY <1>2, <2>1 DEF Follow, RulesAre
  <2>3. RuleOf(f[i], i).line = i
    BY DEF RuleOf
  <2>4. gs[g].agents = Over(f, i)
    BY <2>2, <2>3 DEF Follow, RulesAre
  <2>5. g \in GroupsFor(a)
    BY <2>1, <2>2, <2>4, GroupsForIs
  <2> QED  BY <1>1, <2>2, <2>5
<1> QED  BY <1>4, <1>5

(* And its delay is that of such a line, when there is one. *)
LEMMA DelayForIs ==
    ASSUME Given \in Seq(FileLine), Follow(Given, Len(Given), robots.groups), robots.groups \in Seq(Group), NEW a
    PROVE  LET delays == ForAgent(Given, Delays(Given), a)
           IN IF delays = {} THEN DelayFor(a) = NoDelay
              ELSE DelayFor(a) \in {Given[i].delay : i \in delays}
<1> DEFINE gs == robots.groups
           f == Given
           timed == {i \in GroupsFor(a) : gs[i].delay # NoDelay}
           delays == ForAgent(f, Delays(f), a)
<1>1. DelayFor(a) = IF timed = {} THEN NoDelay ELSE gs[Min(timed)].delay
  BY DEF DelayFor
<1>2. \A i : i \in delays <=> i \in Delays(f) /\ Counts(f, Over(f, i), a)
  BY DEF ForAgent, Counts
<1>3. GroupsFor(a) = {g \in DOMAIN gs : Counts(f, gs[g].agents, a)}
  BY GroupsForIs
<1>4. ASSUME NEW g \in timed PROVE \E i \in delays : gs[g].delay = f[i].delay
  <2>1. g \in DOMAIN gs /\ Counts(f, gs[g].agents, a) /\ gs[g].delay # NoDelay
    BY <1>3
  <2>2. PICK i \in Delays(f) : gs[g].agents = Over(f, i) /\ gs[g].delay = f[i].delay
    BY <2>1 DEF Follow, DelaysAre
  <2> QED  BY <1>2, <2>1, <2>2
<1>5. ASSUME NEW i \in delays PROVE timed # {}
  <2>1. i \in Delays(f) /\ Counts(f, Over(f, i), a) /\ i <= Len(f)
    BY <1>2, LinesAre
  <2>2. PICK g \in DOMAIN gs : gs[g].delay # NoDelay /\ gs[g].agents = Over(f, i)
    BY <2>1 DEF Follow, DelaysAre
  <2> QED  BY <1>3, <2>1, <2>2
<1>6. timed # {} => Min(timed) \in timed
  <2>1. timed \subseteq Nat
    BY <1>3, LenProperties
  <2> HIDE DEF timed
  <2> QED  BY <2>1, LeastExists
<1> HIDE DEF timed, delays
<1>7. CASE delays = {}
  <2>1. timed = {}
    BY <1>4, <1>7
  <2> QED  BY <1>1, <1>7, <2>1 DEF delays
<1>8. CASE delays # {}
  <2>1. PICK i \in delays : gs[Min(timed)].delay = f[i].delay
    BY <1>4, <1>5, <1>6, <1>8
  <2>2. DelayFor(a) = f[i].delay
    BY <1>1, <1>5, <1>8, <2>1
  <2> QED  BY <1>8, <2>2 DEF delays
<1> QED  BY <1>7, <1>8

-----------------------------------------------------------------------------
(* The parser keeps the invariant. *)
LEMMA InLastIs ==
    ASSUME NEW r \in ParsedFile, r.groups # <<>>, NEW g \in Group
    PROVE  /\ InLast(r, g) \in ParsedFile
           /\ InLast(r, g).groups = [r.groups EXCEPT ![Len(r.groups)] = g]
           /\ InLast(r, g).warned = r.warned /\ InLast(r, g).truncated = r.truncated
           /\ InLast(r, g).count = r.count
<1>1. r.groups \in Seq(Group)
  BY DEF ParsedFile
<1>2. [r.groups EXCEPT ![Len(r.groups)] = g] \in Seq(Group)
  BY <1>1, LastIs
<1>3. InLast(r, g) = [r EXCEPT !.groups = [r.groups EXCEPT ![Len(r.groups)] = g]]
  BY DEF InLast
<1> DEFINE gs == [r.groups EXCEPT ![Len(r.groups)] = g]
<1> HIDE DEF gs
<1>4. InLast(r, g) = [r EXCEPT !.groups = gs] /\ gs \in Seq(Group)
  BY <1>2, <1>3 DEF gs
<1> QED  BY <1>4 DEF gs, ParsedFile

(* A warning only counts up. *)
LEMMA WarnedIs ==
    ASSUME robots \in ParsedFile
    PROVE  /\ Warned \in ParsedFile /\ Warned.groups = robots.groups /\ Warned.count = robots.count
           /\ Warned.warned # 0
BY LimitsAssumption, SMTT(30) DEF Warned, ParsedFile

(* The line that is read is one of the file's. *)
LEMMA ReadIs ==
    ASSUME IInv, NEW keys, Read(keys)
    PROVE  /\ outcome = "ok" /\ Given \in Seq(FileLine) /\ lineNo \in 0 .. Len(Given) - 1
           /\ lineNo \in Nat /\ lineNo + 1 \in 1 .. Len(Given)
           /\ Line = Given[lineNo + 1] /\ Line \in FileLine /\ Line.key \in keys
           /\ Line.pattern \in Seq(Symbols)
<1>1. phase = "parse" /\ lineNo < Len(lines) /\ Line.key \in keys /\ outcome = "ok" /\ lines = Given
  BY DEF IInv, FileHolds, Read
<1>2. Given \in Seq(FileLine) /\ lineNo \in 0 .. Len(Given)
  BY <1>1 DEF IInv, Typed
<1>3. lineNo \in 0 .. Len(Given) - 1
  BY <1>1, <1>2, LenProperties
<1>4. lineNo \in Nat /\ lineNo + 1 \in 1 .. Len(Given) /\ Given[lineNo + 1] \in FileLine
  BY <1>2, <1>3, NextIs
<1> QED  BY <1>1, <1>2, <1>3, <1>4 DEF Line, FileLine

(* A step of the parser only has to keep what is parsed. *)
LEMMA ParserSteps ==
    ASSUME IInv, NEW keys, Read(keys), Took, robots' \in ParsedFile, agentRun' \in BOOLEAN,
           Follow(Given, lineNo + 1, robots'.groups), agentRun' = TRUE <=> Run(Given, lineNo + 1),
           CountIs(Given, lineNo + 1, robots'.count),
           robots'.warned = 0 /\ robots'.truncated = FALSE => Whole = Given /\ Kept(Given, lineNo + 1)
    PROVE  IInv'
<1>1. /\ UNCHANGED <<input, phase, outcome, lines, asking, left, scan, best, verdict, found>>
      /\ lineNo' = lineNo + 1 /\ phase = "parse" /\ outcome = "ok" /\ Given' = Given /\ Whole' = Whole
  BY ReadIs DEF Took, Read, matching, Given, Whole
<1>2. lineNo' \in 0 .. Len(lines)
  <2>1. lineNo \in 0 .. Len(lines) /\ lineNo < Len(lines) /\ lines \in Seq(FileLine)
    BY DEF IInv, Typed, Read
  <2>2. Len(lines) \in Nat
    BY <2>1, LenProperties
  <2> QED  BY <1>1, <2>1, <2>2
<1>3. Typed'
  BY <1>1, <1>2 DEF IInv, Typed
<1>4. FileHolds'
  BY <1>1 DEF IInv, FileHolds
<1>5. ParseHolds'
  BY <1>1 DEF ParseHolds
<1>6. MatchHolds'
  BY <1>1 DEF IInv, MatchHolds
<1>7. verdict' = [a \in Names |-> "none"]
  BY <1>1 DEF IInv, EndHolds
<1>8. EndHolds' /\ VerdictIsRight'
  BY <1>1, <1>7 DEF EndHolds, VerdictIsRight
<1> QED  BY <1>3, <1>4, <1>5, <1>6, <1>8 DEF IInv

(* The count follows the accepted lines. *)
LEMMA CountNext ==
    ASSUME NEW f \in Seq(FileLine), NEW n \in 0 .. Len(f) - 1, NEW count, CountIs(f, n, count)
    PROVE  /\ count < MaxRules <=> ValidTo(f, n) < MaxRules
           /\ count \in 0 .. MaxRules
           /\ n + 1 \in Accepted(f) => count + 1 \in 0 .. MaxRules /\ CountIs(f, n + 1, count + 1)
           /\ n + 1 \notin Accepted(f) => CountIs(f, n + 1, count)
<1> DEFINE v == ValidTo(f, n)
           w == ValidTo(f, n + 1)
<1>1. v \in Nat /\ w = IF n + 1 \in Valid(f) THEN v + 1 ELSE v
  BY ValidIs
<1>2. n + 1 \in Accepted(f) <=> n + 1 \in Valid(f) /\ v < MaxRules
  BY ValidIs
<1>3. count = IF v < MaxRules THEN v ELSE MaxRules
  BY DEF CountIs
<1>4. CountIs(f, n + 1, count) <=> count = IF w < MaxRules THEN w ELSE MaxRules
  BY DEF CountIs
<1>5. CountIs(f, n + 1, count + 1) <=> count + 1 = IF w < MaxRules THEN w ELSE MaxRules
  BY DEF CountIs
<1> HIDE DEF v, w
<1>6. count < MaxRules <=> v < MaxRules
  BY <1>1, <1>3, LimitsAssumption
<1>7. count \in 0 .. MaxRules
  BY <1>1, <1>3, LimitsAssumption
<1>8. n + 1 \in Accepted(f) => count + 1 \in 0 .. MaxRules /\ CountIs(f, n + 1, count + 1)
  BY <1>1, <1>2, <1>3, <1>5, LimitsAssumption
<1>9. n + 1 \notin Accepted(f) => CountIs(f, n + 1, count)
  BY <1>1, <1>2, <1>3, <1>4, LimitsAssumption
<1> QED  BY <1>6, <1>7, <1>8, <1>9 DEF v

(* A line that is no rule, or that is accepted, keeps all the rules. *)
LEMMA KeptNext ==
    ASSUME NEW f, NEW n \in Nat, Kept(f, n),
           f[n + 1].key \in RuleKeys /\ f[n + 1].pattern # <<>> => n + 1 \in Accepted(f)
    PROVE  Kept(f, n + 1)
<1>1. \A i \in 1 .. n + 1 : i \in 1 .. n \/ i = n + 1
  OBVIOUS
<1> QED  BY <1>1 DEF Kept

(* A line that is neither a head nor a rule nor a delay. *)
LEMMA OtherSteps ==
    ASSUME IInv, NEW keys, Read(keys), Took, robots' \in ParsedFile, agentRun' \in BOOLEAN,
           lineNo + 1 \notin Heads(Given), lineNo + 1 \notin Accepted(Given),
           lineNo + 1 \notin Delays(Given),
           agentRun' = IF Line.key \in EndsRun THEN FALSE ELSE agentRun,
           robots'.groups = robots.groups, robots'.count = robots.count,
           robots'.warned = 0 /\ robots'.truncated = FALSE =>
               /\ robots.warned = 0 /\ robots.truncated = FALSE
               /\ ~(Line.key \in RuleKeys /\ Line.pattern # <<>>)
    PROVE  IInv'
<1> DEFINE f == Given
           n == lineNo
<1>1. /\ outcome = "ok" /\ f \in Seq(FileLine) /\ n \in 0 .. Len(f) - 1 /\ n \in Nat
      /\ Line = f[n + 1]
  BY ReadIs
<1>2. /\ Follow(f, n, robots.groups)
      /\ agentRun = TRUE <=> Run(f, n)
      /\ CountIs(f, n, robots.count)
      /\ robots.warned = 0 /\ robots.truncated = FALSE => Whole = f /\ Kept(f, n)
  BY <1>1 DEF IInv, ParseHolds
<1>3. agentRun \in BOOLEAN
  BY DEF IInv, Typed
<1> HIDE DEF f, n
<1>4. Follow(f, n + 1, robots'.groups)
  BY <1>1, <1>2, FollowOther DEF f, n
<1>5. agentRun' = TRUE <=> Run(f, n + 1)
  <2>1. Run(f, n + 1) <=> Run(f, n) /\ f[n + 1].key \notin EndsRun
    BY <1>1, RunIs DEF f, n
  <2> QED  BY <1>1, <1>2, <1>3, <2>1
<1>6. CountIs(f, n + 1, robots'.count)
  BY <1>1, <1>2, CountNext DEF f, n
<1>7. robots'.warned = 0 /\ robots'.truncated = FALSE => Whole = f /\ Kept(f, n + 1)
  BY <1>1, <1>2, KeptNext
<1> QED  BY <1>4, <1>5, <1>6, <1>7, ParserSteps DEF f, n

(* A run of agents goes on only where there is a group. *)
LEMMA RunHasGroup ==
    ASSUME NEW f, NEW n, NEW gs, Follow(f, n, gs), Run(f, n)
    PROVE  gs # <<>>
<1>1. Under(f, n)
  BY DEF Run, Under
<1> QED  BY <1>1 DEF Follow, GroupsAre

(* What the invariant says before a line is read. *)
LEMMA BeforeLine ==
    ASSUME IInv, NEW keys, Read(keys)
    PROVE  /\ Follow(Given, lineNo, robots.groups)
           /\ agentRun = TRUE <=> Run(Given, lineNo)
           /\ CountIs(Given, lineNo, robots.count)
           /\ robots.warned = 0 /\ robots.truncated = FALSE => Whole = Given /\ Kept(Given, lineNo)
           /\ robots \in ParsedFile /\ agentRun \in BOOLEAN /\ robots.groups \in Seq(Group)
           /\ robots.groups = <<>> <=> ~Under(Given, lineNo)
<1>1. outcome = "ok"
  BY ReadIs
<1>2. robots \in ParsedFile /\ agentRun \in BOOLEAN
  BY DEF IInv, Typed
<1>3. robots.groups \in Seq(Group)
  BY <1>2 DEF ParsedFile
<1>4. Follow(Given, lineNo, robots.groups)
  BY <1>1 DEF IInv, ParseHolds
<1>5. robots.groups = <<>> <=> ~Under(Given, lineNo)
  BY <1>4 DEF Follow, GroupsAre
<1> QED  BY <1>1, <1>2, <1>3, <1>4, <1>5 DEF IInv, ParseHolds

LEMMA UserAgentSteps ==
    ASSUME IInv, UserAgent
    PROVE  IInv'
<1> DEFINE f == Given
           n == lineNo
           gs == robots.groups
           e == [agents |-> {Line.agent}, rules |-> {}, delay |-> NoDelay]
           j == [LastGroup EXCEPT !.agents = @ \cup {Line.agent}]
<1>1. Read({"user-agent"}) /\ Took /\ agentRun' = TRUE
  BY DEF UserAgent
<1>2. /\ f \in Seq(FileLine) /\ n \in 0 .. Len(f) - 1 /\ n \in Nat /\ n + 1 \in 1 .. Len(f)
      /\ Line = f[n + 1] /\ Line \in FileLine /\ Line.key = "user-agent"
  BY <1>1, ReadIs
<1>3. /\ Follow(f, n, gs) /\ CountIs(f, n, robots.count)
      /\ robots.warned = 0 /\ robots.truncated = FALSE => Whole = f /\ Kept(f, n)
      /\ robots \in ParsedFile /\ gs \in Seq(Group)
  BY <1>1, BeforeLine
<1>4. agentRun = TRUE <=> Run(f, n)
  BY <1>1, BeforeLine
<1>5. n + 1 \in Heads(f) /\ n + 1 \notin Accepted(f)
  BY <1>2, NextIs DEF Accepted, Valid, RuleKeys
<1>6. agentRun \in BOOLEAN
  BY DEF IInv, Typed
<1>7. ~agentRun \/ gs = <<>> <=> ~Run(f, n)
  BY <1>3, <1>4, <1>6, RunHasGroup
<1>8. Line.agent \in Values
  BY <1>2 DEF FileLine
<1>9. /\ robots' \in ParsedFile /\ Follow(f, n + 1, robots'.groups)
      /\ robots'.count = robots.count /\ robots'.warned = robots.warned
      /\ robots'.truncated = robots.truncated
  <2>1. CASE ~Run(f, n)
    <3>1. robots' = [robots EXCEPT !.groups = Append(gs, e)]
      BY <1>7, <2>1 DEF UserAgent
    <3>2. e \in Group
      BY <1>8 DEF Group, NoDelay
    <3> HIDE DEF e
    <3>3. Append(gs, e) \in Seq(Group)
      BY <1>3, <3>2, AppendProperties
    <3>4. Follow(f, n + 1, Append(gs, e))
      BY <1>2, <1>3, <1>5, <2>1, FollowOpen DEF e
    <3>5. /\ robots' \in ParsedFile /\ robots'.groups = Append(gs, e)
          /\ robots'.count = robots.count /\ robots'.warned = robots.warned
          /\ robots'.truncated = robots.truncated
      <4> HIDE DEF gs
      <4> DEFINE hs == Append(gs, e)
      <4> HIDE DEF hs
      <4>1. hs \in Seq(Group) /\ robots' = [robots EXCEPT !.groups = hs]
        BY <3>1, <3>3 DEF hs
      <4> QED  BY <1>3, <4>1 DEF ParsedFile, hs
    <3> QED  BY <3>4, <3>5
  <2>2. CASE Run(f, n)
    <3>1. robots' = InLast(robots, j) /\ gs # <<>>
      BY <1>7, <2>2 DEF UserAgent
    <3>2. gs[Len(gs)] \in Group
      BY <1>3, <3>1, LastIs
    <3>3. /\ j \in Group /\ j.agents = gs[Len(gs)].agents \cup {f[n + 1].agent}
          /\ j.rules = gs[Len(gs)].rules /\ j.delay = gs[Len(gs)].delay
      BY <1>2, <1>8, <3>2 DEF LastGroup, Group
    <3> HIDE DEF j
    <3>4. Follow(f, n + 1, [gs EXCEPT ![Len(gs)] = j])
      BY <1>2, <1>3, <1>5, <2>2, <3>1, <3>3, FollowAgent
    <3> QED  BY <1>3, <3>1, <3>3, <3>4, InLastIs
  <2> QED  BY <2>1, <2>2
<1>10. Run(f, n + 1)
  BY <1>2, <1>5, RunIs
<1>11. CountIs(f, n + 1, robots'.count)
  BY <1>2, <1>3, <1>5, <1>9, CountNext
<1>12. robots'.warned = 0 /\ robots'.truncated = FALSE => Whole = f /\ Kept(f, n + 1)
  BY <1>2, <1>3, <1>9, KeptNext DEF RuleKeys
<1> QED  BY <1>1, <1>9, <1>10, <1>11, <1>12, ParserSteps

LEMMA AllowDisallowSteps ==
    ASSUME IInv, AllowDisallow
    PROVE  IInv'
<1> DEFINE f == Given
           n == lineNo
           gs == robots.groups
           r == RuleOf(Line, n + 1)
           e == [LastGroup EXCEPT !.rules = @ \cup {r}]
<1>1. Read(RuleKeys) /\ Took /\ agentRun' = FALSE
  BY DEF AllowDisallow
<1>2. /\ f \in Seq(FileLine) /\ n \in 0 .. Len(f) - 1 /\ n \in Nat /\ n + 1 \in 1 .. Len(f)
      /\ Line = f[n + 1] /\ Line \in FileLine /\ Line.key \in RuleKeys /\ Line.pattern \in Seq(Symbols)
  BY <1>1, ReadIs
<1>3. /\ Follow(f, n, gs) /\ CountIs(f, n, robots.count)
      /\ robots.warned = 0 /\ robots.truncated = FALSE => Whole = f /\ Kept(f, n)
      /\ robots \in ParsedFile /\ gs \in Seq(Group)
  BY <1>1, BeforeLine
<1>4. gs = <<>> <=> ~Under(f, n)
  BY <1>1, BeforeLine
<1>5. n + 1 \notin Heads(f) /\ n + 1 \notin Delays(f) /\ Line.key \in EndsRun
  BY <1>2, NextIs DEF Delays, RuleKeys, EndsRun
<1>6. Under(f, n + 1) <=> Under(f, n)
  BY <1>2, <1>5, OverSame
<1>7. Len(Line.pattern) \in Nat /\ (Line.pattern = <<>> <=> Len(Line.pattern) = 0)
  BY <1>2, EmptySeq, LenProperties
<1>8. n + 1 \in Valid(f) <=> gs # <<>> /\ Line.pattern # <<>> /\ Len(Line.pattern) <= MaxPattern
  BY <1>2, <1>4, <1>6, <1>7, LinesAre, LimitsAssumption DEF Valid
<1>9. n + 1 \in Accepted(f) <=> n + 1 \in Valid(f) /\ robots.count < MaxRules
  BY <1>2, <1>3, ValidIs, CountNext
<1>10. robots.count \in Nat /\ MaxRules \in Nat /\ MaxPattern \in Nat
  BY <1>3, LimitsAssumption DEF ParsedFile
<1>11. CASE n + 1 \notin Accepted(f)
  <2>1. (robots' = robots /\ Line.pattern = <<>>) \/ robots' = Warned \/ robots' = OverLimit
    BY <1>7, <1>8, <1>9, <1>10, <1>11 DEF AllowDisallow
  <2>2. /\ robots' \in ParsedFile /\ robots'.groups = robots.groups /\ robots'.count = robots.count
        /\ robots'.warned = 0 /\ robots'.truncated = FALSE =>
               robots.warned = 0 /\ robots.truncated = FALSE /\ Line.pattern = <<>>
    <3>1. CASE robots' = robots /\ Line.pattern = <<>>
      BY <1>3, <3>1
    <3>2. CASE robots' = Warned
      BY <1>3, <3>2, WarnedIs
    <3>3. CASE robots' = OverLimit
      BY <1>3, <3>3 DEF OverLimit, ParsedFile
    <3> QED  BY <2>1, <3>1, <3>2, <3>3
  <2>3. agentRun' \in BOOLEAN /\ agentRun' = IF Line.key \in EndsRun THEN FALSE ELSE agentRun
    BY <1>1, <1>5
  <2> HIDE DEF f, n
  <2>4. /\ lineNo + 1 \notin Heads(Given) /\ lineNo + 1 \notin Accepted(Given)
        /\ lineNo + 1 \notin Delays(Given)
    BY <1>5, <1>11 DEF f, n
  <2> QED  BY <1>1, <2>2, <2>3, <2>4, OtherSteps
<1>12. CASE n + 1 \in Accepted(f)
  <2>1. /\ gs # <<>> /\ robots' = [InLast(robots, e) EXCEPT !.count = @ + 1]
    BY <1>7, <1>8, <1>9, <1>10, <1>12 DEF AllowDisallow
  <2>2. gs[Len(gs)] \in Group
    BY <1>3, <2>1, LastIs
  <2>3. r \in RuleRecord /\ r = RuleOf(f[n + 1], n + 1)
    BY <1>2, NormalFormIs DEF RuleOf, RuleRecord
  <2> HIDE DEF r
  <2>4. /\ e \in Group /\ e.agents = gs[Len(gs)].agents
        /\ e.rules = gs[Len(gs)].rules \cup {RuleOf(f[n + 1], n + 1)} /\ e.delay = gs[Len(gs)].delay
    BY <2>2, <2>3 DEF LastGroup, Group
  <2> HIDE DEF e
  <2>5. Follow(f, n + 1, [gs EXCEPT ![Len(gs)] = e])
    BY <1>2, <1>3, <1>12, <2>1, <2>4, FollowRule
  <2>6. /\ InLast(robots, e) \in ParsedFile /\ InLast(robots, e).groups = [gs EXCEPT ![Len(gs)] = e]
        /\ InLast(robots, e).warned = robots.warned /\ InLast(robots, e).truncated = robots.truncated
        /\ InLast(robots, e).count = robots.count
    BY <1>3, <2>1, <2>4, InLastIs
  <2>7. robots.count + 1 \in 0 .. MaxRules /\ CountIs(f, n + 1, robots.count + 1)
    BY <1>2, <1>3, <1>12, CountNext
  <2> DEFINE i == InLast(robots, e)
  <2> HIDE DEF i
  <2>8. i \in ParsedFile /\ i.count + 1 \in 0 .. MaxRules /\ robots' = [i EXCEPT !.count = @ + 1]
    BY <2>1, <2>6, <2>7 DEF i
  <2>9. /\ robots' \in ParsedFile /\ robots'.groups = i.groups /\ robots'.warned = i.warned
        /\ robots'.truncated = i.truncated /\ robots'.count = i.count + 1
    BY <2>8 DEF ParsedFile
  <2>10. Follow(f, n + 1, robots'.groups) /\ CountIs(f, n + 1, robots'.count)
    BY <2>5, <2>6, <2>7, <2>9 DEF i
  <2>11. ~Run(f, n + 1)
    BY <1>2, <1>5, RunIs
  <2>12. robots'.warned = 0 /\ robots'.truncated = FALSE => Whole = f /\ Kept(f, n + 1)
    BY <1>2, <1>3, <1>12, <2>6, <2>9, KeptNext DEF i
  <2>13. agentRun' \in BOOLEAN /\ (agentRun' = TRUE <=> Run(f, n + 1))
    BY <1>1, <2>11
  <2> QED  BY <1>1, <2>9, <2>10, <2>12, <2>13, ParserSteps
<1> QED  BY <1>11, <1>12

LEMMA SitemapSteps ==
    ASSUME IInv, Sitemap
    PROVE  IInv'
<1>1. Read({"sitemap"}) /\ Took /\ agentRun' = agentRun
  BY DEF Sitemap
<1>2. Line = Given[lineNo + 1] /\ Line.key = "sitemap"
  BY <1>1, ReadIs
<1>3. /\ lineNo + 1 \notin Heads(Given) /\ lineNo + 1 \notin Accepted(Given)
      /\ lineNo + 1 \notin Delays(Given)
  BY <1>2 DEF Heads, Accepted, Valid, Delays, RuleKeys
<1>4. robots \in ParsedFile /\ agentRun \in BOOLEAN
  BY <1>1, BeforeLine
<1>5. /\ robots' \in ParsedFile /\ robots'.groups = robots.groups /\ robots'.count = robots.count
      /\ robots'.warned = robots.warned /\ robots'.truncated = robots.truncated
  BY <1>4, LimitsAssumption, SMTT(30) DEF Sitemap, ParsedFile
<1>6. Line.key \notin EndsRun /\ Line.key \notin RuleKeys
  BY <1>2 DEF EndsRun, RuleKeys
<1>7. agentRun' \in BOOLEAN /\ agentRun' = IF Line.key \in EndsRun THEN FALSE ELSE agentRun
  BY <1>1, <1>4, <1>6
<1> QED  BY <1>1, <1>3, <1>5, <1>6, <1>7, OtherSteps

LEMMA OtherLineSteps ==
    ASSUME IInv, OtherLine
    PROVE  IInv'
<1>1. Read({"comment", "unknown"}) /\ Took /\ agentRun' = agentRun
  BY DEF OtherLine
<1>2. Line = Given[lineNo + 1] /\ Line.key \in {"comment", "unknown"}
  BY <1>1, ReadIs
<1>3. /\ lineNo + 1 \notin Heads(Given) /\ lineNo + 1 \notin Accepted(Given)
      /\ lineNo + 1 \notin Delays(Given)
  BY <1>2 DEF Heads, Accepted, Valid, Delays, RuleKeys
<1>4. robots \in ParsedFile /\ agentRun \in BOOLEAN
  BY <1>1, BeforeLine
<1>5. /\ robots' \in ParsedFile /\ robots'.groups = robots.groups /\ robots'.count = robots.count
      /\ robots'.warned = 0 /\ robots'.truncated = FALSE => robots.warned = 0 /\ robots.truncated = FALSE
  BY <1>4, WarnedIs DEF OtherLine
<1>6. Line.key \notin EndsRun /\ Line.key \notin RuleKeys
  BY <1>2 DEF EndsRun, RuleKeys
<1>7. agentRun' \in BOOLEAN /\ agentRun' = IF Line.key \in EndsRun THEN FALSE ELSE agentRun
  BY <1>1, <1>4, <1>6
<1> QED  BY <1>1, <1>3, <1>5, <1>6, <1>7, OtherSteps

LEMMA CrawlDelaySteps ==
    ASSUME IInv, CrawlDelay
    PROVE  IInv'
<1> DEFINE f == Given
           n == lineNo
           gs == robots.groups
           e == [LastGroup EXCEPT !.delay = Line.delay]
<1>1. Read({"crawl-delay"}) /\ Took /\ agentRun' = FALSE
  BY DEF CrawlDelay
<1>2. /\ f \in Seq(FileLine) /\ n \in 0 .. Len(f) - 1 /\ n \in Nat /\ n + 1 \in 1 .. Len(f)
      /\ Line = f[n + 1] /\ Line \in FileLine /\ Line.key = "crawl-delay"
  BY <1>1, ReadIs
<1>3. /\ Follow(f, n, gs) /\ CountIs(f, n, robots.count)
      /\ robots.warned = 0 /\ robots.truncated = FALSE => Whole = f /\ Kept(f, n)
      /\ robots \in ParsedFile /\ gs \in Seq(Group)
  BY <1>1, BeforeLine
<1>4. gs = <<>> <=> ~Under(f, n)
  BY <1>1, BeforeLine
<1>5. n + 1 \notin Heads(f) /\ n + 1 \notin Accepted(f) /\ Line.key \in EndsRun /\ Line.key \notin RuleKeys
  BY <1>2 DEF Heads, Accepted, Valid, RuleKeys, EndsRun
<1>6. Under(f, n + 1) <=> Under(f, n)
  BY <1>2, <1>5, OverSame
<1>7. n + 1 \in Delays(f) <=> gs # <<>> /\ Line.delay # NoDelay
  BY <1>2, <1>4, <1>6, LinesAre DEF Delays
<1>8. CASE n + 1 \notin Delays(f)
  <2>1. robots' = Warned
    BY <1>7, <1>8 DEF CrawlDelay
  <2>2. /\ robots' \in ParsedFile /\ robots'.groups = robots.groups /\ robots'.count = robots.count
        /\ robots'.warned # 0
    BY <1>3, <2>1, WarnedIs
  <2>3. agentRun' \in BOOLEAN /\ agentRun' = IF Line.key \in EndsRun THEN FALSE ELSE agentRun
    BY <1>1, <1>5
  <2>4. /\ lineNo + 1 \notin Heads(Given) /\ lineNo + 1 \notin Accepted(Given)
        /\ lineNo + 1 \notin Delays(Given)
    BY <1>5, <1>8
  <2> QED  BY <1>1, <2>2, <2>3, <2>4, OtherSteps
<1>9. CASE n + 1 \in Delays(f)
  <2>1. gs # <<>> /\ robots' = InLast(robots, e)
    BY <1>7, <1>9 DEF CrawlDelay
  <2>2. gs[Len(gs)] \in Group
    BY <1>3, <2>1, LastIs
  <2>3. Line.delay \in Int
    BY <1>2 DEF FileLine
  <2>4. /\ e \in Group /\ e.agents = gs[Len(gs)].agents
        /\ e.rules = gs[Len(gs)].rules /\ e.delay = f[n + 1].delay
    BY <1>2, <2>2, <2>3 DEF LastGroup, Group
  <2> HIDE DEF e
  <2>5. Follow(f, n + 1, [gs EXCEPT ![Len(gs)] = e])
    BY <1>2, <1>3, <1>9, <2>1, <2>4, FollowDelay
  <2>6. /\ robots' \in ParsedFile /\ robots'.groups = [gs EXCEPT ![Len(gs)] = e]
        /\ robots'.warned = robots.warned /\ robots'.truncated = robots.truncated
        /\ robots'.count = robots.count
    BY <1>3, <2>1, <2>4, InLastIs
  <2>7. CountIs(f, n + 1, robots'.count)
    BY <1>2, <1>3, <1>5, <2>6, CountNext
  <2>8. robots'.warned = 0 /\ robots'.truncated = FALSE => Whole = f /\ Kept(f, n + 1)
    BY <1>2, <1>3, <1>5, <2>6, KeptNext
  <2>9. ~Run(f, n + 1)
    BY <1>2, <1>5, RunIs
  <2>10. agentRun' \in BOOLEAN /\ (agentRun' = TRUE <=> Run(f, n + 1))
    BY <1>1, <2>9
  <2>11. Follow(f, n + 1, robots'.groups)
    BY <2>5, <2>6
  <2> QED  BY <1>1, <2>6, <2>7, <2>8, <2>10, <2>11, ParserSteps
<1> QED  BY <1>8, <1>9

(* The file is read to its end and then asked. *)
LEMMA EndOfFileSteps ==
    ASSUME IInv, EndOfFile
    PROVE  IInv'
<1>1. /\ phase = "parse" /\ lineNo = Len(lines) /\ phase' = "ask" /\ asking' = Append(Agents, Product)
      /\ UNCHANGED <<input, outcome, lines, lineNo, robots, agentRun, left, scan, best, verdict, found>>
  BY DEF EndOfFile, parsing
<1>2. Given' = Given /\ Whole' = Whole
  BY <1>1 DEF Given, Whole
<1>3. asking' \in Seq(Names) /\ asking' # <<>>
  BY <1>1, AgentsAssumption, AppendProperties DEF Names
<1>4. Typed'
  BY <1>1, <1>3 DEF IInv, Typed
<1>5. FileHolds'
  BY <1>1, <1>2, <1>3 DEF IInv, FileHolds
<1>6. ParseHolds'
  BY <1>1, <1>2 DEF IInv, ParseHolds
<1>7. MatchHolds'
  BY <1>1 DEF IInv, MatchHolds
<1>8. verdict' = [a \in Names |-> "none"]
  BY <1>1 DEF IInv, EndHolds
<1>9. EndHolds' /\ VerdictIsRight'
  BY <1>1, <1>8 DEF EndHolds, VerdictIsRight
<1> QED  BY <1>4, <1>5, <1>6, <1>7, <1>9 DEF IInv

(* The request brings the file, or ends with an answer. *)
LEMMA FetchSteps ==
    ASSUME IInv, Fetch
    PROVE  IInv'
<1>1. /\ phase = "fetch" /\ outcome' = OutcomeOf(input.status)
      /\ UNCHANGED <<input, lineNo, agentRun, asking, left, scan, best>>
  BY DEF Fetch
<1>2. Given' = Given /\ Whole' = Whole /\ Path' = Path /\ Target' = Target
  BY <1>1 DEF Given, Whole, Path, Target
<1>3. outcome = "none" /\ robots = Nothing /\ lineNo = 0 /\ agentRun = FALSE
  BY <1>1 DEF IInv, FileHolds
<1>4. verdict = [a \in Names |-> "none"]
  BY <1>1 DEF IInv, EndHolds
<1>5. outcome' \in {"ok", "not-found", "unavailable", "blocked"}
  BY <1>1 DEF OutcomeOf
<1>6. input.lines \in Seq(FileLine) /\ Given \in Seq(FileLine)
  BY CutIs DEF IInv, Typed, Given, Whole
<1>7. CASE outcome' = "ok"
  <2>1. /\ phase' = "parse" /\ lines' = Given /\ UNCHANGED <<verdict, found>>
        /\ robots' = [Nothing EXCEPT !.truncated = Length(input.lines) > MaxParse]
    BY <1>7 DEF Fetch, Given, Whole
  <2> DEFINE long == Length(input.lines) > MaxParse
  <2>2. long \in BOOLEAN
    OBVIOUS
  <2>3. Length(input.lines) \in Nat /\ (~long => Whole = Given)
    BY <1>6, CutIs, LengthIs, LimitsAssumption DEF Given, Whole
  <2> HIDE DEF long
  <2>4. /\ robots' = [groups |-> <<>>, warned |-> 0, truncated |-> long, count |-> 0, sitemaps |-> 0]
    BY <2>1 DEF Nothing, long
  <2>5. /\ robots'.groups = <<>> /\ robots'.count = 0 /\ robots'.truncated = long
    BY <2>4
  <2>6. robots' \in ParsedFile
    <3>1. <<>> \in Seq(Group) /\ 0 \in 0 .. MaxWarnings /\ 0 \in 0 .. MaxRules /\ 0 \in 0 .. MaxSitemaps
      BY LimitsAssumption
    <3> QED  BY <2>2, <2>4, <3>1 DEF ParsedFile
  <2>7. 0 \in 0 .. Len(lines')
    BY <1>6, <2>1, LenProperties
  <2>8. Typed'
    BY <1>1, <1>3, <1>6, <1>7, <2>1, <2>6, <2>7 DEF IInv, Typed
  <2>9. FileHolds'
    BY <1>1, <1>2, <1>7, <2>1 DEF FileHolds
  <2>10. ParseHolds'
    <3>1. Follow(Given, 0, <<>>)
      BY <1>6, FollowFromStart
    <3>2. ~Run(Given, 0)
      BY <1>6, LinesAre DEF Run
    <3>3. ValidTo(Given, 0) = 0
      <4>1. {j \in Valid(Given) : j <= 0} = {}
        BY <1>6, LinesAre
      <4> QED  BY <4>1, FS_EmptySet DEF ValidTo
    <3>4. CountIs(Given, 0, 0)
      BY <3>3, LimitsAssumption DEF CountIs
    <3>5. Kept(Given, 0)
      BY DEF Kept
    <3> QED  BY <1>1, <1>2, <1>3, <2>3, <2>5, <3>1, <3>2, <3>4, <3>5 DEF ParseHolds
  <2>11. MatchHolds'
    BY <1>1, <2>1 DEF IInv, MatchHolds
  <2>12. EndHolds' /\ VerdictIsRight'
    BY <1>4, <2>1 DEF EndHolds, VerdictIsRight
  <2> QED  BY <2>8, <2>9, <2>10, <2>11, <2>12 DEF IInv
<1>8. CASE outcome' # "ok"
  <2> DEFINE v == IF outcome' = "not-found" \/ Target = RobotsPath THEN "allow" ELSE "deny"
  <2>1. /\ phase' = "done" /\ verdict' = [verdict EXCEPT ![Product] = v] /\ UNCHANGED <<lines, robots>>
        /\ found' = {IF outcome' = "not-found" THEN "not-found" ELSE "unavailable"}
    BY <1>8 DEF Fetch
  <2>2. v \in {"allow", "deny"} /\ (v = "allow" <=> outcome' = "not-found" \/ Target = RobotsPath)
    OBVIOUS
  <2> HIDE DEF v
  <2>3. Product \in Names
    BY DEF Names
  <2>4. \A a \in Names : verdict'[a] = IF a = Product THEN v ELSE "none"
    BY <1>4, <2>1, <2>3
  <2>5. verdict' \in [Names -> {"none", "allow", "deny"}]
    BY <1>4, <2>1, <2>2, <2>3
  <2>6. Typed'
    BY <1>1, <1>5, <2>1, <2>5 DEF IInv, Typed
  <2>7. FileHolds'
    BY <1>1, <1>3, <1>8, <2>1 DEF FileHolds
  <2>8. ParseHolds'
    BY <1>8 DEF ParseHolds
  <2>9. MatchHolds'
    BY <1>1, <2>1 DEF IInv, MatchHolds
  <2>10. EndHolds'
    BY <1>8, <2>1, <2>2, <2>3, <2>4 DEF EndHolds, BlockIsTold
  <2>11. VerdictIsRight'
    <3>1. /\ input'.status # "2xx" /\ (outcome' = "not-found" <=> input'.status = "4xx")
      BY <1>1, <1>8 DEF OutcomeOf
    <3> SUFFICES ASSUME NEW a \in Names, verdict'[a] # "none"
                 PROVE  (verdict'[a] = "allow") <=> Target' = RobotsPath \/ input'.status = "4xx"
      BY <3>1 DEF VerdictIsRight
    <3>2. verdict'[a] = v
      BY <2>4
    <3> QED  BY <1>2, <2>2, <3>1, <3>2
  <2> QED  BY <2>6, <2>7, <2>8, <2>9, <2>10, <2>11 DEF IInv
<1> QED  BY <1>7, <1>8

-----------------------------------------------------------------------------
(* The answers keep the invariant. *)
Hits(a) == {i \in ForAgent(Given, Accepted(Given), a) : Means(NormalForm(Given[i].pattern), Path)}
Longest(a) ==
    {i \in Hits(a) : \A j \in Hits(a) :
        Bytes(NormalForm(Given[j].pattern)) <= Bytes(NormalForm(Given[i].pattern))}
\* What the answer for an agent has to be.
Allowed(a) ==
    \/ Target = RobotsPath \/ input.status = "4xx"
    \/ input.status = "2xx" /\ (Hits(a) = {} \/ \E i \in Longest(a) : Given[i].key = "allow")

(* What the invariant says while the agents are asked about. *)
LEMMA WhileAsking ==
    ASSUME IInv, phase \in {"ask", "match"}
    PROVE  /\ outcome = "ok" /\ input.status = "2xx" /\ asking \in Seq(Names) /\ asking # <<>>
           /\ Agent \in Names
           /\ Given \in Seq(FileLine) /\ Follow(Given, Len(Given), robots.groups)
           /\ Path \in Seq(Symbols) /\ Len(Path) \in Nat
<1>1. outcome = "ok" /\ phase # "fetch" /\ asking # <<>> /\ lineNo = Len(lines) /\ lines = Given
  BY DEF IInv, FileHolds
<1>2. outcome = OutcomeOf(input.status)
  BY <1>1 DEF IInv, FileHolds
<1>3. input.status = "2xx"
  BY <1>1, <1>2 DEF OutcomeOf
<1>4. asking \in Seq(Names) /\ input.path \in Seq(Symbols) /\ lines \in Seq(FileLine)
  BY DEF IInv, Typed
<1>5. Agent \in Names
  BY <1>1, <1>4, HeadTailProperties DEF Agent
<1>6. Follow(Given, Len(Given), robots.groups)
  BY <1>1 DEF IInv, ParseHolds
<1> QED  BY <1>1, <1>3, <1>4, <1>5, <1>6, PathIs

(* The rules of an agent are the accepted lines that count for it. *)
LEMMA RulesHold ==
    ASSUME IInv, phase \in {"ask", "match"}, NEW a
    PROVE  /\ RulesFor(a) \subseteq RuleRecord
           /\ \A r \in RulesFor(a) : r.pattern # <<>>
           /\ RulesFor(a) = {RuleOf(Given[i], i) : i \in ForAgent(Given, Accepted(Given), a)}
<1>1. Given \in Seq(FileLine) /\ RulesFor(a) = {RuleOf(Given[i], i) : i \in ForAgent(Given, Accepted(Given), a)}
  BY WhileAsking, RulesForIs
<1>2. ASSUME NEW i \in ForAgent(Given, Accepted(Given), a)
      PROVE  RuleOf(Given[i], i) \in RuleRecord /\ RuleOf(Given[i], i).pattern # <<>>
  <2>1. i \in 1 .. Len(Given) /\ Given[i] \in FileLine /\ i \in Valid(Given)
    BY <1>1, LinesAre DEF ForAgent
  <2>2. Given[i].pattern \in Seq(Symbols) /\ Len(Given[i].pattern) # 0
    BY <2>1, LimitsAssumption DEF FileLine, Valid
  <2>3. /\ NormalForm(Given[i].pattern) \in Seq(Symbols)
        /\ Len(NormalForm(Given[i].pattern)) = Len(Given[i].pattern)
    BY <2>2, NormalFormIs
  <2>4. NormalForm(Given[i].pattern) # <<>>
    BY <2>2, <2>3, EmptySeq
  <2>5. i \in Nat
    BY <1>1, <2>1, LenProperties
  <2> QED  BY <2>3, <2>4, <2>5 DEF RuleOf, RuleRecord
<1> QED  BY <1>1, <1>2

(* The right answer for one agent keeps the invariant. *)
LEMMA AnswerSteps ==
    ASSUME IInv, phase \in {"ask", "match"}, UNCHANGED <<input, parsing>>,
           NEW v \in {"allow", "deny"}, Answer(v), v = "allow" <=> Allowed(Agent)
    PROVE  IInv'
<1>1. /\ UNCHANGED <<input, outcome, lines, lineNo, robots, agentRun>>
      /\ verdict' = [verdict EXCEPT ![Agent] = v]
      /\ asking' = IF v = "deny" /\ Len(asking) > 1 THEN <<Product>> ELSE Tail(asking)
      /\ phase' = IF asking' = <<>> THEN "done" ELSE "ask"
      /\ found' = IF asking' = <<>> THEN FindingsAtEnd(verdict') ELSE found
      /\ left' = {} /\ scan' = Scan0 /\ best' = NoRule
  BY DEF Answer, parsing
<1>2. Given' = Given /\ Whole' = Whole /\ Path' = Path /\ Target' = Target
  BY <1>1 DEF Given, Whole, Path, Target
<1>3. outcome = "ok" /\ asking \in Seq(Names) /\ asking # <<>> /\ Agent \in Names
  BY WhileAsking
<1>4. asking' \in Seq(Names)
  <2>1. Product \in Names
    BY DEF Names
  <2>2. <<Product>> \in Seq(Names)
    BY <2>1
  <2>3. Tail(asking) \in Seq(Names)
    BY <1>3, HeadTailProperties
  <2> QED  BY <1>1, <2>2, <2>3
<1>5. phase' \in {"done", "ask"} /\ (phase' = "ask" => asking' # <<>>) /\ (phase' = "done" => asking' = <<>>)
  BY <1>1
<1>6. verdict \in [Names -> {"none", "allow", "deny"}]
  BY DEF IInv, Typed
<1>7. verdict' \in [Names -> {"none", "allow", "deny"}] /\ \A a \in Names : verdict'[a] = IF a = Agent THEN v ELSE verdict[a]
  BY <1>1, <1>3, <1>6
<1>8. Typed'
  BY <1>1, <1>4, <1>5, <1>7 DEF IInv, Typed
<1>9. FileHolds'
  BY <1>1, <1>2, <1>3, <1>5 DEF IInv, FileHolds
<1>10. ParseHolds'
  BY <1>1, <1>2 DEF IInv, ParseHolds
<1>11. MatchHolds'
  BY <1>1, <1>5 DEF MatchHolds
<1>12. EndHolds'
  <2>1. phase' \notin {"fetch", "parse"}
    BY <1>5
  <2>2. ASSUME phase' = "done" PROVE found' = FindingsAtEnd(verdict)'
    BY <1>1, <1>5, <2>2 DEF FindingsAtEnd
  <2>3. ASSUME phase' = "done", verdict'[Product] = "deny"
        PROVE  found' \cap {"unavailable", "blocks-start", "blocks-crawler"} # {}
    <3>1. Product \in {a \in Names : verdict'[a] = "deny"}
      BY <2>3 DEF Names
    <3>2. Blocks({a \in Names : verdict'[a] = "deny"}) \subseteq found'
      BY <2>2, <2>3 DEF FindingsAtEnd
    <3>3. Blocks({a \in Names : verdict'[a] = "deny"}) \in {{"blocks-start"}, {"blocks-crawler"}}
      BY <3>1 DEF Blocks
    <3> QED  BY <3>2, <3>3
  <2> QED  BY <2>1, <2>2, <2>3 DEF EndHolds, BlockIsTold
<1>13. VerdictIsRight'
  <2>1. Allowed(Agent) <=> v = "allow"
    OBVIOUS
  <2>2. \A a \in Names : verdict[a] # "none" => (verdict[a] = "allow" <=> Allowed(a))
    BY DEF IInv, VerdictIsRight, Allowed, Longest, Hits
  <2>3. \A a \in Names : Allowed(a)' <=> Allowed(a)
    BY <1>1, <1>2 DEF Allowed, Longest, Hits
  <2>4. \A a \in Names : verdict'[a] # "none" => (verdict'[a] = "allow" <=> Allowed(a)')
    BY <1>7, <2>1, <2>2, <2>3
  <2> QED  BY <2>4 DEF VerdictIsRight, Allowed, Longest, Hits
<1> QED  BY <1>8, <1>9, <1>10, <1>11, <1>12, <1>13 DEF IInv

(* The best of the rules gives the answer. *)
LEMMA DecideSteps ==
    ASSUME IInv, Decide
    PROVE  IInv'
<1> DEFINE v == IF best.allow THEN "allow" ELSE "deny"
           F == ForAgent(Given, Accepted(Given), Agent)
           form(i) == NormalForm(Given[i].pattern)
<1>1. phase = "match" /\ left = {} /\ Answer(v) /\ UNCHANGED <<input, parsing>>
  BY DEF Decide
<1>2. v \in {"allow", "deny"} /\ (v = "allow" <=> best.allow)
  OBVIOUS
<1> HIDE DEF v
<1>3. input.status = "2xx" /\ Target # RobotsPath /\ BestHolds
  BY <1>1, WhileAsking DEF IInv, MatchHolds
<1>4. RulesFor(Agent) = {RuleOf(Given[i], i) : i \in F}
  BY <1>1, RulesHold
<1>5. \A i \in F : RuleOf(Given[i], i).pattern = form(i) /\ (RuleOf(Given[i], i).allow <=> Given[i].key = "allow")
  BY DEF RuleOf
<1>6. \A i \in F : form(i) \in Seq(Symbols)
  <2>1. \A i \in F : RuleOf(Given[i], i) \in RuleRecord
    BY <1>1, <1>4, RulesHold
  <2> QED  BY <1>5, <2>1 DEF RuleRecord
<1>7. \A i : i \in Hits(Agent) <=> i \in F /\ Means(form(i), Path)
  BY DEF Hits
<1>8. \A i : i \in Longest(Agent) <=> i \in Hits(Agent) /\ \A j \in Hits(Agent) : Bytes(form(j)) <= Bytes(form(i))
  BY DEF Longest
<1>9. \A i \in F : Bytes(form(i)) \in Nat
  BY <1>6, BytesIs
<1> HIDE DEF F, form
<1>10. ASSUME NEW i \in Hits(Agent)
       PROVE  /\ best # NoRule /\ Bytes(form(i)) <= Bytes(best.pattern)
              /\ Bytes(form(i)) = Bytes(best.pattern) /\ Given[i].key = "allow" => best.allow
  <2>1. i \in F /\ RuleOf(Given[i], i) \in RulesFor(Agent) \ left /\ Means(RuleOf(Given[i], i).pattern, Path)
    BY <1>1, <1>4, <1>5, <1>7
  <2> QED  BY <1>3, <1>5, <2>1 DEF BestHolds
<1>11. Allowed(Agent) <=> Hits(Agent) = {} \/ \E i \in Longest(Agent) : Given[i].key = "allow"
  BY <1>3 DEF Allowed
<1>12. best.allow <=> Hits(Agent) = {} \/ \E i \in Longest(Agent) : Given[i].key = "allow"
  <2>1. CASE best = NoRule
    BY <1>10, <2>1 DEF NoRule
  <2>2. CASE best # NoRule
    <3>1. best \in RulesFor(Agent) /\ Means(best.pattern, Path)
      BY <1>3, <2>2 DEF BestHolds
    <3>2. PICK b \in F : best = RuleOf(Given[b], b)
      BY <1>4, <3>1
    <3>3. b \in Hits(Agent) /\ best.pattern = form(b) /\ (best.allow <=> Given[b].key = "allow")
      BY <1>5, <1>7, <3>1, <3>2
    <3>4. b \in Longest(Agent)
      BY <1>8, <1>10, <3>3
    <3>5. ASSUME NEW i \in Longest(Agent), Given[i].key = "allow" PROVE best.allow
      <4>1. i \in Hits(Agent) /\ Bytes(form(b)) <= Bytes(form(i)) /\ Bytes(form(i)) <= Bytes(form(b))
        BY <1>8, <1>10, <3>3, <3>5
      <4>2. Bytes(form(i)) = Bytes(form(b))
        BY <1>7, <1>9, <3>3, <4>1
      <4> QED  BY <1>10, <3>3, <3>5, <4>1, <4>2
    <3> QED  BY <3>3, <3>4, <3>5
  <2> QED  BY <2>1, <2>2
<1> QED  BY <1>1, <1>2, <1>11, <1>12, AnswerSteps

(* The comparison of a rule starts with everything open. *)
LEMMA ScanFromStart ==
    ASSUME left' \subseteq RuleRecord, \A r \in left' : r.pattern # <<>>, scan' = Scan0,
           Path' \in Seq(Symbols)
    PROVE  ScanHolds'
<1> SUFFICES ASSUME left' # {}
             PROVE  Placed(scan, Glob, Path)' /\ Matched(scan, Glob, Path)' /\ Open(scan, Glob, Path, Ends)'
  BY DEF ScanHolds
<1>1. Rule' \in left'
  BY LeastRule DEF Rule
<1>2. Rule'.pattern \in Seq(Symbols) /\ Rule'.pattern # <<>>
  BY <1>1 DEF RuleRecord
<1>3. Front(Rule'.pattern) \in Seq(Symbols)
  BY <1>2, FrontIs
<1>4. Glob' \in Seq(Symbols)
  BY <1>2, <1>3 DEF Glob
<1>5. Going(Scan0, Glob', Path', Ends')
  BY <1>4, GoingFromStart
<1> QED  BY <1>5 DEF Going, Placed, Matched, Open

LEMMA AskSteps ==
    ASSUME IInv, Ask
    PROVE  IInv'
<1>1. phase = "ask" /\ UNCHANGED <<input, parsing>>
  BY DEF Ask
<1>2. CASE Target = RobotsPath
  <2>1. Answer("allow") /\ Allowed(Agent)
    BY <1>2 DEF Ask, Allowed
  <2> QED  BY <1>1, <2>1, AnswerSteps
<1>3. CASE Target # RobotsPath
  <2>1. /\ phase' = "match" /\ left' = RulesFor(Agent)
        /\ UNCHANGED <<input, outcome, lines, lineNo, robots, agentRun, asking, scan, best, verdict, found>>
    BY <1>1, <1>3 DEF Ask, parsing
  <2>2. Given' = Given /\ Whole' = Whole /\ Path' = Path /\ Target' = Target
    BY <2>1 DEF Given, Whole, Path, Target
  <2>3. outcome = "ok" /\ asking # <<>> /\ Path \in Seq(Symbols)
    BY <1>1, WhileAsking
  <2>4. scan = Scan0 /\ best = NoRule
    BY <1>1 DEF IInv, MatchHolds
  <2>5. RulesFor(Agent)' = RulesFor(Agent)
    BY <2>1 DEF RulesFor, Collect, GroupsFor, Names1, Agent
  <2>6. Typed'
    BY <2>1 DEF IInv, Typed
  <2>7. FileHolds'
    BY <1>1, <2>1, <2>2, <2>3 DEF IInv, FileHolds
  <2>8. ParseHolds'
    BY <2>1, <2>2 DEF IInv, ParseHolds
  <2>9. MatchHolds'
    <3>1. BestHolds'
      BY <2>1, <2>4, <2>5 DEF BestHolds
    <3>2. ScanHolds'
      BY <1>1, <2>1, <2>2, <2>3, <2>4, RulesHold, ScanFromStart
    <3> QED  BY <1>3, <2>1, <2>2, <2>4, <3>1, <3>2 DEF MatchHolds
  <2>10. EndHolds'
    BY <2>1 DEF EndHolds
  <2>11. VerdictIsRight'
    BY <2>1, <2>2 DEF IInv, VerdictIsRight
  <2> QED  BY <2>6, <2>7, <2>8, <2>9, <2>10, <2>11 DEF IInv
<1> QED  BY <1>2, <1>3

(* What the invariant says while a rule is compared. *)
LEMMA WhileMatching ==
    ASSUME IInv, Comparing
    PROVE  /\ phase = "match" /\ left # {} /\ left \subseteq RuleRecord
           /\ Rule \in left /\ Rule \in RuleRecord /\ Rule.pattern # <<>>
           /\ \A r \in left : r.pattern # <<>>
           /\ RulesFor(Agent) \subseteq RuleRecord /\ BestHolds /\ Target # RobotsPath
           /\ Glob \in Seq(Symbols) /\ Len(Glob) \in Nat /\ Path \in Seq(Symbols) /\ Len(Path) \in Nat
           /\ Going(scan, Glob, Path, Ends)
<1>1. phase = "match" /\ left # {}
  BY DEF Comparing
<1>2. BestHolds /\ ScanHolds /\ Target # RobotsPath
  BY <1>1 DEF IInv, MatchHolds
<1>3. /\ RulesFor(Agent) \subseteq RuleRecord /\ left \subseteq RulesFor(Agent)
      /\ \A r \in RulesFor(Agent) : r.pattern # <<>>
  BY <1>1, <1>2, RulesHold DEF BestHolds
<1>4. Rule \in left
  BY <1>1, <1>3, LeastRule DEF Rule
<1>5. Glob \in Seq(Symbols) /\ Len(Glob) \in Nat
  BY <1>3, <1>4, GlobIs
<1>6. Path \in Seq(Symbols) /\ Len(Path) \in Nat
  BY <1>1, WhileAsking
<1>7. Going(scan, Glob, Path, Ends)
  BY <1>1, <1>2 DEF ScanHolds, Going
<1> QED  BY <1>1, <1>2, <1>3, <1>4, <1>5, <1>6, <1>7

(* A step of the matcher only has to keep what it has compared. *)
LEMMA MatcherSteps ==
    ASSUME IInv, Comparing, BestHolds', ScanHolds', left' = {} => scan' = Scan0
    PROVE  IInv'
<1>1. /\ phase = "match"
      /\ UNCHANGED <<input, phase, outcome, lines, lineNo, robots, agentRun, asking, verdict, found>>
  BY DEF Comparing, parsing
<1>2. Given' = Given /\ Whole' = Whole /\ Path' = Path /\ Target' = Target
  BY <1>1 DEF Given, Whole, Path, Target
<1>3. Typed'
  BY <1>1 DEF IInv, Typed
<1>4. FileHolds'
  BY <1>1, <1>2 DEF IInv, FileHolds
<1>5. ParseHolds'
  BY <1>1, <1>2 DEF IInv, ParseHolds
<1>6. MatchHolds'
  BY <1>1, <1>2, WhileMatching DEF MatchHolds
<1>7. EndHolds'
  BY <1>1 DEF EndHolds
<1>8. VerdictIsRight'
  BY <1>1, <1>2 DEF IInv, VerdictIsRight
<1> QED  BY <1>3, <1>4, <1>5, <1>6, <1>7, <1>8 DEF IInv

(* The matcher goes on to a place where it is still right. *)
LEMMA AdvanceSteps ==
    ASSUME IInv, Comparing, NEW s, Advance(s), Going(s, Glob, Path, Ends)
    PROVE  IInv'
<1>1. UNCHANGED <<input, robots, asking, left, best>> /\ scan' = s
  BY DEF Comparing, Advance, parsing
<1>2. Path' = Path /\ Target' = Target /\ Rule' = Rule
  BY <1>1 DEF Path, Target, Rule
<1>3. Glob' = Glob /\ Ends' = Ends
  BY <1>2 DEF Glob, Ends, Anchored
<1>4. ScanHolds'
  BY <1>1, <1>2, <1>3 DEF ScanHolds, Going, Placed, Matched, Open
<1>5. RulesFor(Agent)' = RulesFor(Agent)
  BY <1>1 DEF RulesFor, Collect, GroupsFor, Names1, Agent
<1>6. BestHolds'
  BY <1>1, <1>2, <1>5, WhileMatching DEF BestHolds
<1>7. left' # {}
  BY <1>1, WhileMatching
<1> QED  BY <1>4, <1>6, <1>7, MatcherSteps

(* A rule was compared as it should be. *)
LEMMA ComparedSteps ==
    ASSUME IInv, Comparing, left' = left \ {Rule}, scan' = Scan0,
           best' = IF Means(Rule.pattern, Path) /\ Better(Rule) THEN Rule ELSE best
    PROVE  IInv'
<1>1. UNCHANGED <<input, robots, asking>>
  BY DEF Comparing, parsing
<1>2. Path' = Path /\ Target' = Target
  BY <1>1 DEF Path, Target
<1>3. /\ left \subseteq RuleRecord /\ Rule \in left /\ \A r \in left : r.pattern # <<>>
      /\ Path \in Seq(Symbols) /\ RulesFor(Agent) \subseteq RuleRecord /\ BestHolds
  BY WhileMatching
<1>4. ScanHolds'
  BY <1>2, <1>3, ScanFromStart
<1> DEFINE R == RulesFor(Agent)
           M(r) == Means(r.pattern, Path)
           b == Rule
           A == best'
<1>5. R' = R
  BY <1>1 DEF RulesFor, Collect, GroupsFor, Names1, Agent
<1>6. /\ left \subseteq R
      /\ best = NoRule \/ (best \in R \ left /\ M(best))
      /\ \A r \in R \ left : M(r) =>
             /\ best # NoRule /\ Bytes(r.pattern) <= Bytes(best.pattern)
             /\ Bytes(r.pattern) = Bytes(best.pattern) /\ r.allow => best.allow
  BY <1>3 DEF BestHolds
<1>7. A = IF M(b) /\ Better(b) THEN b ELSE best
  OBVIOUS
<1>8. \A r \in R : Bytes(r.pattern) \in Nat /\ r.allow \in BOOLEAN /\ r # NoRule
  <2>1. \A r \in R : r.pattern # <<>>
    BY <1>3, RulesHold DEF Comparing
  <2>2. \A r \in R : r.pattern \in Seq(Symbols) /\ r.allow \in BOOLEAN
    BY <1>3 DEF RuleRecord
  <2>3. NoRule.pattern = <<>>
    BY DEF NoRule
  <2> QED  BY <2>1, <2>2, <2>3, BytesIs
<1>9. Better(b) <=> \/ best = NoRule \/ Bytes(b.pattern) > Bytes(best.pattern)
                    \/ Bytes(b.pattern) = Bytes(best.pattern) /\ b.allow /\ ~best.allow
  BY DEF Better
<1>10. b \in left /\ b \in R
  BY <1>3, <1>6
<1>11. \A r : r \in R \ left' <=> r \in R \ left \/ r = b
  BY <1>10
<1> HIDE DEF R, M, b, A
<1>12. A = NoRule \/ (A \in R \ left' /\ M(A))
  BY <1>6, <1>7, <1>10, <1>11
<1>13. ASSUME NEW r \in R \ left', M(r)
       PROVE  /\ A # NoRule /\ Bytes(r.pattern) <= Bytes(A.pattern)
              /\ Bytes(r.pattern) = Bytes(A.pattern) /\ r.allow => A.allow
  <2>1. CASE r = b
    BY <1>6, <1>7, <1>8, <1>9, <1>10, <1>13, <2>1
  <2>2. CASE r \in R \ left
    BY <1>6, <1>7, <1>8, <1>9, <1>10, <1>13, <2>2
  <2> QED  BY <1>11, <2>1, <2>2
<1>14. BestHolds'
  <2>1. left' \subseteq R
    BY <1>6
  <2> QED  BY <1>2, <1>5, <1>12, <1>13, <2>1 DEF BestHolds, R, M, A
<1> QED  BY <1>4, <1>14, MatcherSteps

(* Where the matcher is stuck it goes back, or the rule does not match. *)
LEMMA BacktrackSteps ==
    ASSUME IInv, Comparing, Backtrack, Stuck(scan, Glob, Path, Ends)
    PROVE  IInv'
<1>1. /\ Glob \in Seq(Symbols) /\ Len(Glob) \in Nat /\ Path \in Seq(Symbols) /\ Len(Path) \in Nat
      /\ Going(scan, Glob, Path, Ends) /\ Rule \in RuleRecord /\ Rule.pattern # <<>>
  BY WhileMatching
<1>2. scan.star \in Int /\ scan.mark \in Nat
  BY <1>1 DEF Going, Placed
<1>3. CASE scan.star < 0 \/ Exhausted
  <2>1. \A at \in [0 .. Len(Glob) -> 0 .. Len(Path)] : ~Spans(at, Glob, Path, Ends)
    BY <1>1, <1>3, NoWayBack DEF Exhausted
  <2>2. ~Means(Rule.pattern, Path)
    BY <1>1, <2>1, GlobIs
  <2>3. left' = left \ {Rule} /\ scan' = Scan0 /\ best' = best
    BY <1>3 DEF Backtrack, Compared
  <2> QED  BY <2>2, <2>3, ComparedSteps
<1>4. CASE ~(scan.star < 0 \/ Exhausted)
  <2>1. scan.star >= 0 /\ scan.mark < Len(Path)
    BY <1>1, <1>2, <1>4 DEF Exhausted
  <2>2. Going(Back, Glob, Path, Ends)
    BY <1>1, <2>1, GoingBack DEF Back
  <2>3. Advance(Back)
    BY <1>4 DEF Backtrack
  <2> QED  BY <2>2, <2>3, AdvanceSteps
<1> QED  BY <1>3, <1>4

LEMMA AtEndSteps ==
    ASSUME IInv, AtEnd
    PROVE  IInv'
<1>1. Comparing /\ scan.p = Len(Glob)
  BY DEF AtEnd
<1>2. /\ Glob \in Seq(Symbols) /\ Path \in Seq(Symbols) /\ Len(Path) \in Nat
      /\ Going(scan, Glob, Path, Ends) /\ Rule \in RuleRecord /\ Rule.pattern # <<>>
  BY <1>1, WhileMatching
<1>3. scan.t \in 0 .. Len(Path)
  BY <1>2 DEF Going, Placed
<1>4. CASE ~Anchored \/ scan.t = Len(Path)
  <2>1. PICK at \in [0 .. scan.p -> 0 .. Len(Path)] : Stands(at, Glob, Path, scan.p) /\ at[scan.p] = scan.t
    BY <1>2 DEF Going, Matched
  <2>2. scan.t \in Ends
    BY <1>3, <1>4 DEF Ends
  <2>3. Spans(at, Glob, Path, Ends)
    BY <1>1, <2>1, <2>2 DEF Spans
  <2>4. Means(Rule.pattern, Path)
    BY <1>1, <1>2, <2>1, <2>3, GlobIs
  <2>5. left' = left \ {Rule} /\ scan' = Scan0 /\ best' = IF Better(Rule) THEN Rule ELSE best
    BY <1>4 DEF AtEnd, Compared
  <2> QED  BY <1>1, <2>4, <2>5, ComparedSteps
<1>5. CASE ~(~Anchored \/ scan.t = Len(Path))
  <2>1. Ends = {Len(Path)} /\ scan.t # Len(Path)
    BY <1>5 DEF Ends
  <2>2. Stuck(scan, Glob, Path, Ends)
    BY <1>1, <1>2, <2>1, StuckAtEnd
  <2>3. Backtrack
    BY <1>5 DEF AtEnd
  <2> QED  BY <1>1, <2>2, <2>3, BacktrackSteps
<1> QED  BY <1>4, <1>5

LEMMA AtStarSteps ==
    ASSUME IInv, AtStar
    PROVE  IInv'
<1>1. /\ Comparing /\ scan.p < Len(Glob) /\ Glob[scan.p + 1] = "*"
      /\ Advance(Place(scan.p + 1, scan.t, scan.p, scan.t))
  BY DEF AtStar
<1>2. Glob \in Seq(Symbols) /\ Path \in Seq(Symbols) /\ Going(scan, Glob, Path, Ends)
  BY <1>1, WhileMatching
<1>3. Going(Place(scan.p + 1, scan.t, scan.p, scan.t), Glob, Path, Ends)
  BY <1>1, <1>2, GoingPastStar
<1> QED  BY <1>1, <1>3, AdvanceSteps

LEMMA AtSymbolSteps ==
    ASSUME IInv, AtSymbol
    PROVE  IInv'
<1>1. Comparing /\ scan.p < Len(Glob) /\ Glob[scan.p + 1] # "*"
  BY DEF AtSymbol
<1>2. /\ Glob \in Seq(Symbols) /\ Len(Glob) \in Nat /\ Path \in Seq(Symbols) /\ Len(Path) \in Nat
      /\ Going(scan, Glob, Path, Ends)
  BY <1>1, WhileMatching
<1>3. CASE scan.t < Len(Path) /\ Glob[scan.p + 1] = Path[scan.t + 1]
  <2>1. Advance(Place(scan.p + 1, scan.t + 1, scan.star, scan.mark))
    BY <1>3 DEF AtSymbol
  <2>2. Going(Place(scan.p + 1, scan.t + 1, scan.star, scan.mark), Glob, Path, Ends)
    BY <1>1, <1>2, <1>3, GoingPastSymbol
  <2> QED  BY <1>1, <2>1, <2>2, AdvanceSteps
<1>4. CASE ~(scan.t < Len(Path) /\ Glob[scan.p + 1] = Path[scan.t + 1])
  <2>1. Backtrack
    BY <1>4 DEF AtSymbol
  <2>2. scan.p \in 0 .. Len(Glob) - 1 /\ scan.t \in 0 .. Len(Path)
    BY <1>1, <1>2 DEF Going, Placed
  <2>3. Stuck(scan, Glob, Path, Ends)
    BY <1>1, <1>2, <1>4, <2>2, StuckAtSymbol
  <2> QED  BY <1>1, <2>1, <2>3, BacktrackSteps
<1> QED  BY <1>3, <1>4

-----------------------------------------------------------------------------
(* The invariant and what follows from it. *)
LEMMA InitHolds == Init => IInv
<1> SUFFICES ASSUME Init PROVE IInv
  OBVIOUS
<1>1. /\ phase = "fetch" /\ outcome = "none" /\ lines = <<>> /\ lineNo = 0 /\ robots = Nothing
      /\ agentRun = FALSE /\ asking = <<>> /\ left = {} /\ scan = Scan0 /\ best = NoRule
      /\ verdict = [a \in Names |-> "none"]
  BY DEF Init
<1>2. input.lines \in Seq(FileLine) /\ input.path \in Seq(Symbols)
  <2>1. input.lines \in Files /\ input.path \in Paths
    BY DEF Init
  <2> QED  BY <2>1, FilesAssumption
<1>3. Nothing \in ParsedFile
  <2>1. <<>> \in Seq(Group) /\ 0 \in 0 .. MaxWarnings /\ 0 \in 0 .. MaxRules /\ 0 \in 0 .. MaxSitemaps
    BY LimitsAssumption
  <2> QED  BY <2>1 DEF Nothing, ParsedFile
<1>4. lines \in Seq(FileLine) /\ asking \in Seq(Names) /\ lineNo \in 0 .. Len(lines)
  BY <1>1
<1>5. Typed
  BY <1>1, <1>2, <1>3, <1>4 DEF Typed
<1>6. FileHolds /\ ParseHolds /\ MatchHolds /\ EndHolds /\ VerdictIsRight
  BY <1>1 DEF FileHolds, ParseHolds, MatchHolds, EndHolds, VerdictIsRight
<1> QED  BY <1>5, <1>6 DEF IInv

LEMMA StutterSteps ==
    ASSUME IInv, UNCHANGED vars
    PROVE  IInv'
<1>1. /\ UNCHANGED <<input, phase, outcome, lines, lineNo, robots, agentRun>>
      /\ UNCHANGED <<asking, left, scan, best, verdict, found>>
  BY DEF vars
<1>2. Given' = Given /\ Whole' = Whole /\ Path' = Path /\ Target' = Target /\ Rule' = Rule
  BY <1>1 DEF Given, Whole, Path, Target, Rule
<1>3. Glob' = Glob /\ Ends' = Ends
  BY <1>2 DEF Glob, Ends, Anchored
<1>4. RulesFor(Agent)' = RulesFor(Agent)
  BY <1>1 DEF RulesFor, Collect, GroupsFor, Names1, Agent
<1>5. Typed'
  BY <1>1 DEF IInv, Typed
<1>6. FileHolds'
  BY <1>1, <1>2 DEF IInv, FileHolds
<1>7. ParseHolds'
  BY <1>1, <1>2 DEF IInv, ParseHolds
<1>8. BestHolds => BestHolds'
  BY <1>1, <1>2, <1>4 DEF BestHolds
<1>9. ScanHolds => ScanHolds'
  BY <1>1, <1>2, <1>3 DEF ScanHolds
<1>10. MatchHolds'
  BY <1>1, <1>2, <1>8, <1>9 DEF IInv, MatchHolds
<1>11. EndHolds'
  BY <1>1 DEF IInv, EndHolds, BlockIsTold, FindingsAtEnd
<1>12. VerdictIsRight'
  BY <1>1, <1>2 DEF IInv, VerdictIsRight
<1> QED  BY <1>5, <1>6, <1>7, <1>10, <1>11, <1>12 DEF IInv

(* The inductive invariant: what was parsed follows the lines that were    *)
(* read, what was matched stands in the path and the rest of it is still   *)
(* open, and the best rule is the best of those that were compared.        *)
THEOREM Invariant == Spec => []IInv
<1>1. IInv /\ [Next]_vars => IInv'
  <2> SUFFICES ASSUME IInv, [Next]_vars PROVE IInv'
    OBVIOUS
  <2>1. CASE Fetch
    BY <2>1, FetchSteps
  <2>2. CASE UserAgent
    BY <2>2, UserAgentSteps
  <2>3. CASE AllowDisallow
    BY <2>3, AllowDisallowSteps
  <2>4. CASE Sitemap
    BY <2>4, SitemapSteps
  <2>5. CASE CrawlDelay
    BY <2>5, CrawlDelaySteps
  <2>6. CASE OtherLine
    BY <2>6, OtherLineSteps
  <2>7. CASE EndOfFile
    BY <2>7, EndOfFileSteps
  <2>8. CASE Ask
    BY <2>8, AskSteps
  <2>9. CASE Decide
    BY <2>9, DecideSteps
  <2>10. CASE AtEnd
    BY <2>10, AtEndSteps
  <2>11. CASE AtStar
    BY <2>11, AtStarSteps
  <2>12. CASE AtSymbol
    BY <2>12, AtSymbolSteps
  <2>13. CASE UNCHANGED vars
    BY <2>13, StutterSteps
  <2> QED  BY <2>1, <2>2, <2>3, <2>4, <2>5, <2>6, <2>7, <2>8, <2>9, <2>10, <2>11, <2>12, <2>13 DEF Next
<1> QED  BY InitHolds, <1>1, PTL DEF Spec

LEMMA MergedHolds == IInv => RulesAreMerged
<1> SUFFICES ASSUME IInv, Parsed, NEW a \in Names
             PROVE  /\ {r.line : r \in RulesFor(a)} = ForAgent(Given, Accepted(Given), a)
                    /\ LET delays == ForAgent(Given, Delays(Given), a)
                       IN IF delays = {} THEN DelayFor(a) = NoDelay
                          ELSE DelayFor(a) \in {Given[i].delay : i \in delays}
  BY DEF RulesAreMerged
<1>1. outcome = "ok" /\ lines = Given /\ lineNo = Len(Given)
  BY DEF IInv, FileHolds, Parsed
<1>2. Given \in Seq(FileLine) /\ Follow(Given, Len(Given), robots.groups) /\ robots.groups \in Seq(Group)
  BY <1>1 DEF IInv, Typed, ParseHolds, ParsedFile
<1>3. RulesFor(a) = {RuleOf(Given[i], i) : i \in ForAgent(Given, Accepted(Given), a)}
  BY <1>2, RulesForIs
<1>4. \A i : RuleOf(Given[i], i).line = i
  BY DEF RuleOf
<1>5. {r.line : r \in RulesFor(a)} = ForAgent(Given, Accepted(Given), a)
  BY <1>3, <1>4
<1> QED  BY <1>2, <1>5, DelayForIs

LEMMA ToldHolds == IInv => NoRuleLostSilently /\ BlockIsTold
<1> SUFFICES ASSUME IInv PROVE NoRuleLostSilently /\ BlockIsTold
  OBVIOUS
<1>1. BlockIsTold
  BY DEF IInv, EndHolds, BlockIsTold
<1>2. ASSUME Parsed, phase = "done", "syntax" \notin found, "too-large" \notin found,
             NEW i \in DOMAIN Whole, Whole[i].key \in RuleKeys, Whole[i].pattern # <<>>
      PROVE  \E g \in DOMAIN robots.groups : RuleOf(Whole[i], i) \in robots.groups[g].rules
  <2>1. outcome = "ok" /\ lines = Given /\ lineNo = Len(Given) /\ found = FindingsAtEnd(verdict)
    BY <1>2 DEF IInv, FileHolds, EndHolds, Parsed
  <2>2. ~(robots.warned > 0) /\ robots.truncated # TRUE
    BY <1>2, <2>1 DEF FindingsAtEnd
  <2>3. robots.warned = 0 /\ robots.truncated = FALSE
    <3>1. robots.warned \in 0 .. MaxWarnings /\ robots.truncated \in BOOLEAN
      BY DEF IInv, Typed, ParsedFile
    <3>2. robots.warned = 0
      BY <2>2, <3>1, LimitsAssumption
    <3> QED  BY <2>2, <3>1, <3>2
  <2>4. Whole = Given /\ Kept(Given, Len(Given)) /\ RulesAre(Given, Len(Given), robots.groups)
    BY <2>1, <2>3 DEF IInv, ParseHolds, Follow
  <2>5. Given \in Seq(FileLine)
    BY <2>1 DEF IInv, Typed
  <2>6. i \in 1 .. Len(Given) /\ i <= Len(Given)
    BY <2>4, <2>5, LinesAre
  <2>7. i \in Accepted(Given)
    BY <1>2, <2>4, <2>6 DEF Kept
  <2> QED  BY <2>4, <2>6, <2>7 DEF RulesAre
<1> QED  BY <1>1, <1>2 DEF NoRuleLostSilently

LEMMA TypesHold == IInv => RobotsTypeOK
<1> SUFFICES ASSUME IInv PROVE RobotsTypeOK
  OBVIOUS
<1>1. Typed
  BY DEF IInv
<1>2. /\ robots.warned \in 0 .. MaxWarnings /\ robots.count \in 0 .. MaxRules
      /\ robots.sitemaps \in 0 .. MaxSitemaps /\ ToSet(asking) \subseteq Names
  <2>1. ToSet(asking) \subseteq Names
    BY <1>1 DEF Typed, ToSet
  <2> QED  BY <1>1, <2>1 DEF Typed, ParsedFile
<1>3. ASSUME NEW i \in DOMAIN robots.groups, NEW r \in robots.groups[i].rules
      PROVE  Len(r.pattern) \in 1 .. MaxPattern
  <2>1. outcome = "ok"
    <3>1. outcome # "ok" => robots = Nothing
      BY DEF IInv, FileHolds
    <3>2. Nothing.groups = <<>>
      BY DEF Nothing
    <3> QED  BY <3>1, <3>2
  <2>2. lines = Given /\ Given \in Seq(FileLine) /\ RulesAre(Given, lineNo, robots.groups)
    BY <1>1, <2>1 DEF IInv, FileHolds, Typed, ParseHolds, Follow
  <2> DEFINE l == r.line
  <2>3. l \in Accepted(Given) /\ r = RuleOf(Given[l], l)
    BY <2>2 DEF RulesAre
  <2> HIDE DEF l
  <2>4. l \in Valid(Given) /\ Given[l] \in FileLine
    BY <2>2, <2>3, LinesAre
  <2>5. Given[l].pattern \in Seq(Symbols) /\ Len(Given[l].pattern) \in 1 .. MaxPattern
    BY <2>4 DEF FileLine, Valid
  <2>6. r.pattern = NormalForm(Given[l].pattern)
    BY <2>3 DEF RuleOf
  <2> QED  BY <2>5, <2>6, NormalFormIs
<1>4. scan.t \in 0 .. Len(Path) /\ scan.mark \in 0 .. Len(Path)
  <2>1. Len(Path) \in Nat
    BY <1>1, PathIs DEF Typed
  <2>2. CASE scan = Scan0
    BY <2>1, <2>2 DEF Scan0, Place
  <2>3. CASE scan # Scan0
    BY <2>1, <2>3 DEF IInv, MatchHolds, ScanHolds, Placed
  <2> QED  BY <2>2, <2>3
<1>5. phase = "match" => left \cup {best} \subseteq RulesFor(Agent) \cup {NoRule}
  BY DEF IInv, MatchHolds, BestHolds
<1> QED  BY <1>1, <1>2, <1>3, <1>4, <1>5 DEF RobotsTypeOK, Typed

(* Parse and rulesFor: an agent gets the rules and the delay of the lines  *)
(* under any line that names it, for every file.                           *)
THEOREM RulesAreRight == Spec => []RulesAreMerged
BY Invariant, MergedHolds, PTL

(* AllowedFor and matches: every answer is the one that the longest        *)
(* matching rule gives, Allow winning ties, for every pattern and path.    *)
THEOREM VerdictsAreRight == Spec => []VerdictIsRight
<1>1. IInv => VerdictIsRight
  BY DEF IInv
<1> QED  BY <1>1, Invariant, PTL

(* Findings: no rule is lost and no block is put on the start page without *)
(* a finding, and every variable has its type.                             *)
THEOREM LossesAreTold == Spec => []LossIsTold
<1>1. IInv => LossIsTold
  BY TypesHold, ToldHolds DEF LossIsTold
<1> QED  BY <1>1, Invariant, PTL

=============================================================================
