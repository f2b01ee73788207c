------------------------------- MODULE Robots -------------------------------
(***************************************************************************)
(* One robots.txt (internal/robots): it is fetched, parsed line by line,   *)
(* and asked whether agents may fetch a path.  Patterns and paths are      *)
(* sequences of symbols, an escape being one symbol; the matcher is the    *)
(* loop with one star to go back to.                                       *)
(***************************************************************************)
EXTENDS Integers, FiniteSets, SequencesExt

CONSTANTS
    Symbols,      \* the symbols of patterns and paths
    Values,       \* the values of user-agent lines
    Files,        \* the bodies: sequences of lines
    Paths,        \* the paths asked for
    Statuses,     \* how the request may end
    Agents,       \* the agents whose block of the start page is a finding
    Product,      \* ProductToken
    Token,        \* agentToken: the product token of a user-agent value
    Normal,       \* normalizePattern, symbol by symbol
    Escapes,      \* the normal symbols that are escapes, of three bytes
    RobotsPath,
    MaxParse, MaxPattern, MaxRules, MaxSitemaps, MaxWarnings

VARIABLES
    input,      \* the body, the path and how the request ended
    phase,      \* "fetch", "parse", "ask", "match" or "done"
    outcome,    \* File.Outcome
    lines,      \* the lines of the body, cut at the limit
    lineNo,     \* the lines that are parsed
    robots,     \* the parsed file
    agentRun,   \* lastWasAgent
    asking,     \* the agents still to be asked about
    left,       \* the rules still to be compared
    scan,       \* the matcher's p, t, star and mark
    best,       \* the deciding rule so far
    verdict,    \* the answers
    found       \* the findings

vars == <<input, phase, outcome, lines, lineNo, robots, agentRun, asking, left, scan, best, verdict, found>>
parsing == <<outcome, lines, lineNo, robots, agentRun>>
matching == <<asking, left, scan, best, verdict, found>>

Names == {Agents[i] : i \in DOMAIN Agents} \cup {Product}
RuleKeys == {"allow", "disallow"}
EndsRun == RuleKeys \cup {"crawl-delay"}
Keys == EndsRun \cup {"user-agent", "sitemap", "comment", "unknown"}
NoDelay == -1
FileLine == [key : Keys, agent : Values, pattern : Seq(Symbols), delay : Int]

ASSUME LimitsAssumption ==
    /\ MaxParse \in Nat /\ MaxPattern \in Nat /\ MaxRules \in Nat /\ MaxSitemaps \in Nat
    /\ MaxWarnings \in Nat \ {0}
ASSUME FilesAssumption == Files \subseteq Seq(FileLine) /\ Paths \subseteq Seq(Symbols) /\ "/" \in Symbols
ASSUME AgentsAssumption == Agents \in Seq(Names)
ASSUME NormalAssumption == Normal \in [Symbols -> Symbols]

NormalForm(s) == [i \in DOMAIN s |-> Normal[s[i]]]
Bytes(s) == Len(s) + 2 * Cardinality({i \in DOMAIN s : s[i] \in Escapes})

\* A line is as long as its pattern and one; the limit may cut one in two.
Places(body) == UNION {{i} \X (0 .. Len(body[i].pattern)) : i \in DOMAIN body}
Length(body) == Cardinality(Places(body))
Part(body, n) == SubSeq(body, 1, n)
Cut(body) ==
    LET n == Cardinality({m \in DOMAIN body : Length(Part(body, m)) <= MaxParse})
        fits == MaxParse - Length(Part(body, n))
    IN IF n = Len(body) \/ fits = 0 THEN Part(body, n)
       ELSE Append(Part(body, n), [body[n + 1] EXCEPT !.pattern = SubSeq(@, 1, fits - 1)])

Nothing == [groups |-> <<>>, warned |-> 0, truncated |-> FALSE, count |-> 0, sitemaps |-> 0]
NoRule == [allow |-> TRUE, pattern |-> <<>>, line |-> 0]
Place(p, t, star, mark) == [p |-> p, t |-> t, star |-> star, mark |-> mark]
Scan0 == Place(0, 0, -1, 0)

Init ==
    /\ input \in [lines : Files, path : Paths, status : Statuses]
    /\ input.status # "2xx" => input.lines = <<>>
    /\ phase = "fetch" /\ outcome = "none" /\ lines = <<>> /\ lineNo = 0 /\ robots = Nothing
    /\ agentRun = FALSE /\ asking = <<>> /\ left = {} /\ scan = Scan0 /\ best = NoRule
    /\ verdict = [a \in Names |-> "none"] /\ found = {}

\* Fetch's switch: what the request's end makes of the file.
OutcomeOf(status) ==
    CASE status = "blocked" -> "blocked" [] status = "2xx" -> "ok"
      [] status = "4xx" -> "not-found" [] OTHER -> "unavailable"

Target == IF input.path = <<>> THEN <<"/">> ELSE input.path

\* Fetch, and for a file without rules AllowedFor and Findings.
Fetch ==
    /\ phase = "fetch"
    /\ outcome' = OutcomeOf(input.status)
    /\ IF outcome' = "ok"
       THEN /\ phase' = "parse" /\ lines' = Cut(input.lines)
            /\ robots' = [Nothing EXCEPT !.truncated = Length(input.lines) > MaxParse]
            /\ UNCHANGED <<verdict, found>>
       ELSE /\ phase' = "done"
            /\ verdict' = [verdict EXCEPT ![Product] =
                   IF outcome' = "not-found" \/ Target = RobotsPath THEN "allow" ELSE "deny"]
            /\ found' = {IF outcome' = "not-found" THEN "not-found" ELSE "unavailable"}
            /\ UNCHANGED <<lines, robots>>
    /\ UNCHANGED <<input, lineNo, agentRun, asking, left, scan, best>>

-----------------------------------------------------------------------------
(* Parse. *)
Line == lines[lineNo + 1]
Warned == [robots EXCEPT !.warned = IF @ < MaxWarnings THEN @ + 1 ELSE @]

\* The current group.  The rules of a group are in the order of their lines.
LastGroup == robots.groups[Len(robots.groups)]
InLast(r, g) == [r EXCEPT !.groups[Len(r.groups)] = g]

Read(keys) == phase = "parse" /\ lineNo < Len(lines) /\ Line.key \in keys
Took == lineNo' = lineNo + 1 /\ UNCHANGED <<input, phase, outcome, lines, matching>>

UserAgent ==
    /\ Read({"user-agent"}) /\ Took
    /\ robots' =
         IF ~agentRun \/ robots.groups = <<>>
         THEN [robots EXCEPT !.groups =
                   Append(@, [agents |-> {Line.agent}, rules |-> {}, delay |-> NoDelay])]
         ELSE InLast(robots, [LastGroup EXCEPT !.agents = @ \cup {Line.agent}])
    /\ agentRun' = TRUE

\* Fault: rules over the limit are left out silently.
OverLimitSilently == robots
OverLimit == [robots EXCEPT !.truncated = TRUE]

RuleOf(line, n) == [allow |-> line.key = "allow", pattern |-> NormalForm(line.pattern), line |-> n]

AllowDisallow ==
    /\ Read(RuleKeys) /\ Took
    /\ agentRun' = FALSE
    /\ robots' =
         IF robots.groups = <<>> THEN Warned
         ELSE IF Line.pattern = <<>> THEN robots
         ELSE IF Len(Line.pattern) > MaxPattern THEN Warned
         ELSE IF robots.count >= MaxRules THEN OverLimit
         ELSE [InLast(robots, [LastGroup EXCEPT !.rules = @ \cup {RuleOf(Line, lineNo + 1)}])
               EXCEPT !.count = @ + 1]

\* A sitemap line belongs to no group and does not end a run of agents.
Sitemap ==
    /\ Read({"sitemap"}) /\ Took
    /\ robots' = [robots EXCEPT !.sitemaps = IF @ < MaxSitemaps THEN @ + 1 ELSE @]
    /\ UNCHANGED agentRun

CrawlDelay ==
    /\ Read({"crawl-delay"}) /\ Took
    /\ agentRun' = FALSE
    /\ robots' = IF robots.groups = <<>> \/ Line.delay = NoDelay THEN Warned
                 ELSE InLast(robots, [LastGroup EXCEPT !.delay = Line.delay])

\* A comment, a line that is too long or malformed, an unknown directive.
OtherLine ==
    /\ Read({"comment", "unknown"}) /\ Took
    /\ robots' = IF Line.key = "comment" THEN robots ELSE Warned
    /\ UNCHANGED agentRun

\* The end of the file; Findings asks about the start page.
EndOfFile ==
    /\ phase = "parse" /\ lineNo = Len(lines)
    /\ phase' = "ask" /\ asking' = Append(Agents, Product)
    /\ UNCHANGED <<input, parsing, left, scan, best, verdict, found>>

-----------------------------------------------------------------------------
(* Match. *)
Names1(g, a) == a # "*" /\ \E n \in g.agents : n # "*" /\ Token[n] = a

\* rulesFor: the groups that count for a, by their numbers.
GroupsFor(a) ==
    LET named == {i \in DOMAIN robots.groups : Names1(robots.groups[i], a)}
    IN IF named # {} THEN named ELSE {i \in DOMAIN robots.groups : "*" \in robots.groups[i].agents}
\* Fault: only the first group that names the agent counts.
CollectFirst(chosen) == IF chosen = {} THEN {} ELSE robots.groups[Min(chosen)].rules
Collect(chosen) == UNION {robots.groups[i].rules : i \in chosen}
RulesFor(a) == Collect(GroupsFor(a))
DelayFor(a) ==
    LET timed == {i \in GroupsFor(a) : robots.groups[i].delay # NoDelay}
    IN IF timed = {} THEN NoDelay ELSE robots.groups[Min(timed)].delay

Agent == Head(asking)

Blocks(denied) ==
    IF denied \ {Product} # {} THEN {"blocks-start"}
    ELSE IF denied # {} THEN {"blocks-crawler"} ELSE {}

\* The findings when the last agent was answered.
FindingsAtEnd(v) ==
    Blocks({a \in Names : v[a] = "deny"})
    \cup (IF robots.warned > 0 THEN {"syntax"} ELSE {})
    \cup (IF robots.sitemaps = 0 THEN {"no-sitemap"} ELSE {})
    \cup (IF robots.truncated THEN {"too-large"} ELSE {})

\* The answer for the agent; a block ends the loop over the agents.
Answer(v) ==
    /\ verdict' = [verdict EXCEPT ![Agent] = v]
    /\ asking' = IF v = "deny" /\ Len(asking) > 1 THEN <<Product>> ELSE Tail(asking)
    /\ phase' = IF asking' = <<>> THEN "done" ELSE "ask"
    /\ found' = IF asking' = <<>> THEN FindingsAtEnd(verdict') ELSE found
    /\ left' = {} /\ scan' = Scan0 /\ best' = NoRule

Ask ==
    /\ phase = "ask"
    /\ IF Target = RobotsPath THEN Answer("allow")
       ELSE /\ phase' = "match" /\ left' = RulesFor(Agent)
            /\ UNCHANGED <<asking, scan, best, verdict, found>>
    /\ UNCHANGED <<input, parsing>>

Decide ==
    /\ phase = "match" /\ left = {}
    /\ Answer(IF best.allow THEN "allow" ELSE "deny")
    /\ UNCHANGED <<input, parsing>>

\* The rules are compared in the order of their lines.
Rule == CHOOSE r \in left : \A s \in left : r.line <= s.line
Anchored == Last(Rule.pattern) = "$"
Glob == IF Anchored THEN Front(Rule.pattern) ELSE Rule.pattern
Path == NormalForm(Target)

\* Fault: the first of two rules of the same length counts.
BetterFirst(r) == best = NoRule \/ Bytes(r.pattern) > Bytes(best.pattern)
Better(r) ==
    \/ best = NoRule \/ Bytes(r.pattern) > Bytes(best.pattern)
    \/ Bytes(r.pattern) = Bytes(best.pattern) /\ r.allow /\ ~best.allow
\* A rule was compared: it matches, or it does not.
Compared(matches) ==
    /\ best' = IF matches /\ Better(Rule) THEN Rule ELSE best
    /\ left' = left \ {Rule} /\ scan' = Scan0

Comparing == phase = "match" /\ left # {} /\ UNCHANGED <<input, phase, parsing, asking, verdict, found>>
Advance(s) == scan' = s /\ UNCHANGED <<left, best>>

Exhausted == scan.mark >= Len(Path)

\* Fault: going back leaves the star where it is.
BackStuck == Place(scan.star + 1, scan.mark, scan.star, scan.mark)
Back == Place(scan.star + 1, scan.mark + 1, scan.star, scan.mark + 1)

Backtrack == IF scan.star < 0 \/ Exhausted THEN Compared(FALSE) ELSE Advance(Back)

AtEnd ==
    /\ Comparing /\ scan.p = Len(Glob)
    /\ IF ~Anchored \/ scan.t = Len(Path) THEN Compared(TRUE) ELSE Backtrack
AtStar ==
    /\ Comparing /\ scan.p < Len(Glob) /\ Glob[scan.p + 1] = "*"
    /\ Advance(Place(scan.p + 1, scan.t, scan.p, scan.t))
AtSymbol ==
    /\ Comparing /\ scan.p < Len(Glob) /\ Glob[scan.p + 1] # "*"
    /\ IF scan.t < Len(Path) /\ Glob[scan.p + 1] = Path[scan.t + 1]
       THEN Advance(Place(scan.p + 1, scan.t + 1, scan.star, scan.mark)) ELSE Backtrack

Next ==
    \/ Fetch \/ UserAgent \/ AllowDisallow \/ Sitemap \/ CrawlDelay \/ OtherLine
    \/ EndOfFile \/ Ask \/ Decide \/ AtEnd \/ AtStar \/ AtSymbol

\* One goroutine runs the parser and the matcher.
Spec == Init /\ [][Next]_vars /\ WF_vars(Next)

-----------------------------------------------------------------------------
(***************************************************************************)
(* Properties.                                                             *)
(***************************************************************************)
Parsed == outcome = "ok" /\ phase \in {"ask", "match", "done"}
Whole == input.lines
Given == Cut(Whole)

(* Every variable has its type. *)
RobotsTypeOK ==
    /\ phase \in {"fetch", "parse", "ask", "match", "done"}
    /\ outcome \in {"none", "ok", "not-found", "unavailable", "blocked"}
    /\ lines \in Seq(FileLine) /\ lineNo \in 0 .. Len(lines)
    /\ robots.warned \in 0 .. MaxWarnings /\ robots.count \in 0 .. MaxRules
    /\ robots.sitemaps \in 0 .. MaxSitemaps
    /\ \A i \in DOMAIN robots.groups : \A r \in robots.groups[i].rules : Len(r.pattern) \in 1 .. MaxPattern
    /\ agentRun \in BOOLEAN /\ ToSet(asking) \subseteq Names
    /\ scan.t \in 0 .. Len(Path) /\ scan.mark \in 0 .. Len(Path)
    /\ phase = "match" => left \cup {best} \subseteq RulesFor(Agent) \cup {NoRule}
    /\ verdict \in [Names -> {"none", "allow", "deny"}]

\* The lines that give rules, the agents over a line, and the lines that
\* count for an agent in a file, by RFC 9309 and without groups.
Heads(f) == {i \in DOMAIN f : f[i].key = "user-agent"}
Under(f, i) == \E h \in Heads(f) : h <= i
Valid(f) == {i \in DOMAIN f :
    f[i].key \in RuleKeys /\ Len(f[i].pattern) \in 1 .. MaxPattern /\ Under(f, i)}
Accepted(f) == {i \in Valid(f) : Cardinality({j \in Valid(f) : j < i}) < MaxRules}
Delays(f) == {i \in DOMAIN f : f[i].key = "crawl-delay" /\ f[i].delay # NoDelay /\ Under(f, i)}
Over(f, i) ==
    {f[h].agent : h \in {x \in Heads(f) : x <= i /\
        \A y \in Heads(f) : x < y /\ y <= i => \A m \in x .. y : f[m].key \notin EndsRun}}
Named(f, a) == a # "*" /\ \E h \in Heads(f) : f[h].agent # "*" /\ Token[f[h].agent] = a
ForAgent(f, of, a) ==
    {i \in of : \E n \in Over(f, i) : IF Named(f, a) THEN n # "*" /\ Token[n] = a ELSE n = "*"}

(* docs/development.md, robots.txt: "groups for the same product token are *)
(* merged; the * groups apply only when no group names crawlgrade".  The   *)
(* rules an agent gets are those of the lines under any line that names    *)
(* it, wherever comments, sitemaps and unknown directives stand between    *)
(* the agents, and its delay comes from such a line.                       *)
RulesAreMerged ==
    Parsed => \A a \in Names :
        /\ {r.line : r \in RulesFor(a)} = ForAgent(Given, Accepted(Given), a)
        /\ LET delays == ForAgent(Given, Delays(Given), a)
           IN IF delays = {} THEN DelayFor(a) = NoDelay
              ELSE DelayFor(a) \in {Given[i].delay : i \in delays}

\* What a pattern means: its symbols stand in the path in their order, a
\* star for any gap, from the start and, with "$", up to the end.
Takes(g, path, i, from, to) ==
    IF g[i] = "*" THEN to >= from ELSE to = from + 1 /\ g[i] = path[to]
Stands(at, g, path, n) ==
    /\ at \in [0 .. n -> 0 .. Len(path)] /\ at[0] = 0
    /\ \A i \in 1 .. n : Takes(g, path, i, at[i - 1], at[i])
Means(pattern, path) ==
    LET anchored == Last(pattern) = "$"
        g == IF anchored THEN Front(pattern) ELSE pattern
    IN \E at \in [0 .. Len(g) -> 0 .. Len(path)] :
           Stands(at, g, path, Len(g)) /\ (anchored => at[Len(g)] = Len(path))

(* "The longest matching pattern wins and Allow wins ties; /robots.txt is  *)
(* always allowed": every answer that was given is the one these words     *)
(* give for the rules of the agent, in any order of the rules and any      *)
(* spelling of patterns and path, and a file that cannot be had denies     *)
(* all but itself.                                                         *)
VerdictIsRight ==
    \A a \in Names : verdict[a] # "none" =>
        LET form(i) == NormalForm(Given[i].pattern)
            hits == {i \in ForAgent(Given, Accepted(Given), a) : Means(form(i), Path)}
            longest == {i \in hits : \A j \in hits : Bytes(form(j)) <= Bytes(form(i))}
        IN (verdict[a] = "allow") <=>
             \/ Target = RobotsPath \/ input.status = "4xx"
             \/ /\ input.status = "2xx"
                /\ hits = {} \/ \E i \in longest : Given[i].key = "allow"

(* A rule of the file that the crawler does not follow, because the file   *)
(* is too long or has too many rules, or the line is wrong, is told by a   *)
(* finding: none disappears without a trace.                               *)
NoRuleLostSilently ==
    Parsed /\ phase = "done" =>
        \/ found \cap {"syntax", "too-large"} # {}
        \/ \A i \in DOMAIN Whole :
              Whole[i].key \in RuleKeys /\ Whole[i].pattern # <<>> =>
                  \E g \in DOMAIN robots.groups : RuleOf(Whole[i], i) \in robots.groups[g].rules

(* A crawl that may not fetch its start page has a finding that says why.  *)
BlockIsTold ==
    phase = "done" /\ verdict[Product] = "deny" =>
        found \cap {"unavailable", "blocks-start", "blocks-crawler"} # {}

(* What the crawler does not follow and what it may not fetch is told.     *)
LossIsTold == RobotsTypeOK /\ NoRuleLostSilently /\ BlockIsTold

(* The matcher ends for every pattern: each time it goes back, the star    *)
(* has taken one symbol more.                                              *)
Answers == <>(phase = "done")
=============================================================================
