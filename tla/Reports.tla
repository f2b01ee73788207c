------------------------------ MODULE Reports -------------------------------
(***************************************************************************)
(* Findings and reports (internal/findings, internal/report): a report has *)
(* its findings by group, and their number and the scores follow from      *)
(* them; two reports are compared by the keys of their findings.  A        *)
(* finding is a record [id, url, severity, evidence]; severities are 1     *)
(* (info) to 5 (critical).                                                 *)
(***************************************************************************)
EXTENDS Integers, FiniteSets, SequencesExt

CONSTANT Texts  \* ids, URLs and evidence of findings

\* The groups of a report; their order matters to its layout only.
orderedGroups ==
    {"crawlability", "metadata", "content", "structured-data", "internal-linking", "web-hygiene"}
Severities == 1 .. 5
\* The weights of enrichReport.
Weight == <<0, 1, 3, 8, 20>>

Finding == [id : Texts, url : Texts, severity : Severities, evidence : Texts]
IsGroups(groups) == IsFiniteSet(DOMAIN groups) /\ groups \in [DOMAIN groups -> Seq(Finding)]

Larger(a, b) == IF a > b THEN a ELSE b
Smaller(a, b) == IF a < b THEN a ELSE b
MaxSeverity(fs) == Max({0} \cup {f.severity : f \in fs})
AtLeast(fs, threshold) == {f \in fs : f.severity >= threshold}

\* The findings of all groups, by their places: the same finding may be
\* there twice; the order of the map does not matter.
Places(groups) == UNION {{g} \X (1 .. Len(groups[g])) : g \in DOMAIN groups}
At(groups, p) == groups[p[1]][p[2]]
Flatten(groups) == {At(groups, p) : p \in Places(groups)}
Counts(groups) ==
    [s \in Severities |-> Cardinality({p \in Places(groups) : At(groups, p).severity = s})]
Penalty(groups) ==
    LET n == Counts(groups)
    IN Weight[1] * n[1] + Weight[2] * n[2] + Weight[3] * n[3] + Weight[4] * n[4] + Weight[5] * n[5]

\* New and the scores of enrichReport, for a crawl of so many pages, of
\* which n are indexable; no score without one.  Fault: web hygiene counts
\* among the rest.
TechnicalAll(groups) == groups
Technical(groups) == [g \in DOMAIN groups \ {"web-hygiene"} |-> groups[g]]
Hygiene(groups) == [g \in DOMAIN groups \cap {"web-hygiene"} |-> groups[g]]
Score(penalty, n) == Larger(0, 100 - penalty \div n)
NoScores == [seo |-> -1, hygiene |-> -1]
NewReport(crawl, groups) ==
    LET n == crawl.indexable IN
    [groups |-> groups, pages |-> crawl.pages, stop |-> crawl.stop, counts |-> Counts(groups),
     highest |-> MaxSeverity(Flatten(groups)), indexable |-> n,
     categories |-> {g \in orderedGroups \cap DOMAIN groups : groups[g] # <<>>},
     scores |-> IF n = 0 THEN NoScores
                ELSE [seo |-> Score(Penalty(Technical(groups)), n),
                      hygiene |-> Score(Penalty(Hygiene(groups)), n)]]

\* exitFor: the worst severity of the categories reaches the threshold.
ReachesThreshold(report, threshold) ==
    /\ report.highest # 0
    /\ \E g \in report.categories : MaxSeverity(ToSet(report.groups[g])) >= threshold

-----------------------------------------------------------------------------
(* Compare. *)
Key(f) == <<f.id, f.url, f.evidence>>
\* A map keeps one finding for a key: the last in the order of Sort, which
\* is the least severe.
ByKey(fs) == {f \in fs : \A g \in fs : Key(g) = Key(f) => f.severity <= g.severity}
\* Fault: what is absent is looked for in the report itself.
AbsentOwn(fs, others) == {f \in ByKey(fs) : \A g \in ByKey(fs) : f.severity <= g.severity}
Absent(fs, others) == {f \in ByKey(fs) : \A g \in ByKey(others) : Key(g) # Key(f)}

Compare(current, baseline) ==
    LET now == Flatten(current.groups)
        then == Flatten(baseline.groups)
        scored == current.scores # NoScores /\ baseline.scores # NoScores
    IN [pages |-> current.pages - baseline.pages,
        findings |-> Cardinality(Places(current.groups)) - Cardinality(Places(baseline.groups)),
        seo |-> IF scored THEN current.scores.seo - baseline.scores.seo ELSE 0,
        hygiene |-> IF scored THEN current.scores.hygiene - baseline.scores.hygiene ELSE 0,
        new |-> Absent(now, then), resolved |-> Absent(then, now),
        added |-> DOMAIN current.groups \ DOMAIN baseline.groups,
        removed |-> DOMAIN baseline.groups \ DOMAIN current.groups]

\* Diff.Equal: what the terminal calls "No changes since the baseline".
Equal(d) ==
    /\ d.pages = 0 /\ d.findings = 0 /\ d.seo = 0 /\ d.hygiene = 0
    /\ d.new = {} /\ d.resolved = {} /\ d.added = {} /\ d.removed = {}
=============================================================================
