------------------------------ MODULE Command -------------------------------
(***************************************************************************)
(* The command: runAudit (internal/cli/run.go) with audit.Run in it, from  *)
(* the options to the exit code.  The user may interrupt it, its deadline  *)
(* may pass and the baseline file may change at any time.  What the crawl  *)
(* and its analyses find is one of the constant Crawls.                    *)
(***************************************************************************)
EXTENDS Reports

CONSTANTS
    Options,    \* the command lines
    Crawls,     \* what a crawl that is not cut short gives
    Baselines,  \* reports that a baseline file may hold
    HTTPStart   \* the start URL over http, for an https start

ASSUME OptionsAssumption ==
    Options \subseteq
        [format : STRING, failOn : 0 .. 6, url : BOOLEAN, limits : BOOLEAN, diff : BOOLEAN, baseline : BOOLEAN,
         quick : BOOLEAN, json : BOOLEAN, external : BOOLEAN, https : BOOLEAN]
\* No analysis gives the findings of the checks made after the crawl.
ASSUME CrawlsAssumption ==
    /\ Crawls \subseteq
           [stop : {"completed", "max-pages", "start-disallowed"}, first : {"ok", "blocked", "failed"},
            pages : Nat, indexable : Nat, groups : [orderedGroups -> Seq(Finding)],
            external : Seq(Texts), down : SUBSET Texts]
    /\ \A c \in Crawls : c.pages = 0 => c.first = "failed"
    /\ \A c \in Crawls : \A f \in Flatten(c.groups) : f.id # "check"
    /\ {HTTPStart, "check", ""} \subseteq Texts
\* A baseline is a report that the command has written.
ASSUME BaselinesAssumption ==
    \A b \in Baselines :
        b.pages \in Nat /\ b.indexable \in Nat /\ IsGroups(b.groups) /\ b = NewReport(b, b.groups)

VARIABLES
    opts, site,     \* the command line; the crawl it leads to
    file,           \* the baseline file: a report, or "garbage" or "missing"
    phase,
    interrupted, expired,   \* the signal; the deadline of the audit
    crawl,          \* the crawl's result
    groups,         \* the findings by group
    rest,           \* URLs that are still to be checked
    resErr,         \* Result.Err: the context had ended when Run returned
    report, diff,   \* the report and its comparison with the baseline
    written, code   \* whether the report was written; the exit code

vars == <<opts, site, file, phase, interrupted, expired, crawl, groups, rest, resErr,
          report, diff, written, code>>
world == <<opts, site, file, interrupted, expired>>

Running == 9
Done == interrupted \/ expired
None == [none |-> TRUE]
Files == Baselines \cup {[none |-> "garbage"], [none |-> "missing"]}
Readable == "none" \notin DOMAIN file

Init ==
    /\ opts \in Options /\ site \in Crawls
    /\ file \in IF opts.baseline THEN Files ELSE {[none |-> "missing"]}
    /\ phase = "validate" /\ interrupted = FALSE /\ expired = FALSE
    /\ crawl = None /\ groups = <<>> /\ rest = <<>> /\ resErr = FALSE
    /\ report = None /\ diff = None /\ written = FALSE /\ code = Running

Interrupt == code = Running /\ ~interrupted /\ interrupted' = TRUE
             /\ UNCHANGED <<opts, site, file, phase, expired, crawl, groups, rest, resErr, report, diff, written, code>>
Expire == phase \in {"discover", "crawl", "check", "asked", "report"} /\ ~expired /\ expired' = TRUE
          /\ UNCHANGED <<opts, site, file, phase, interrupted, crawl, groups, rest, resErr, report, diff, written, code>>
\* Someone else changes the file after it was checked: it is read again when
\* the report is rendered.
ChangeBaseline == phase = "render" /\ opts.baseline /\ file' \in Files \ {file}
                  /\ UNCHANGED <<opts, site, phase, interrupted, expired, crawl, groups, rest, resErr, report, diff, written, code>>

Exit(c) == code' = c /\ phase' = "done"
Go(p) == phase' = p /\ UNCHANGED code

\* The options in the order in which they are checked.
Invalid ==
    \/ ~opts.url \/ opts.format = "pdf" \/ opts.failOn = 6 \/ ~opts.limits
    \/ opts.diff /\ (opts.format = "html" \/ ~opts.baseline)
    \/ opts.baseline /\ ~Readable
    \/ opts.quick /\ opts.format # "html"

Validate ==
    /\ phase = "validate"
    /\ IF Invalid THEN Exit(2) ELSE Go("discover")
    /\ UNCHANGED <<world, crawl, groups, rest, resErr, report, diff, written>>

\* robots.txt and the sitemaps, before the crawl.
Discover ==
    /\ phase = "discover" /\ Go("crawl")
    /\ UNCHANGED <<world, crawl, groups, rest, resErr, report, diff, written>>

\* What there may be of the crawl when the context ends before it does: no
\* page, as a robots.txt that was not had refuses the start; or some, with the
\* stop reason of the context, or, when that ended while a level was formed
\* and no URL was left, with another.
NoPages == [site EXCEPT !.stop = "start-disallowed", !.first = "failed", !.pages = 0, !.indexable = 0,
                        !.groups = [g \in DOMAIN @ |-> <<>>]]
Ends ==
    {IF interrupted THEN "interrupted" ELSE "max-duration"} \X {site.first, "failed"}
    \cup {"completed", "max-pages"} \X {site.first}
EndedAfter(n, e) ==
    [site EXCEPT !.stop = e[1], !.first = e[2], !.pages = n, !.indexable = Smaller(@, n)]
CutShort == {NoPages} \cup {EndedAfter(n, e) : n \in 1 .. site.pages, e \in Ends}

\* The crawl, and what the analyses find in it.
Crawl ==
    /\ phase = "crawl" /\ Go("check")
    /\ crawl' \in IF Done THEN CutShort ELSE {site}
    /\ groups' = crawl'.groups
    /\ rest' = (IF opts.external THEN site.external ELSE <<>>)
               \o (IF opts.https /\ crawl'.pages > 0 THEN <<HTTPStart>> ELSE <<>>)
    /\ UNCHANGED <<world, resErr, report, diff, written>>

\* checkExternal and the check of the start URL over http ask one URL after
\* the other, as long as the context lives.
Check ==
    /\ phase = "check" /\ Go(IF rest = <<>> \/ Done THEN "report" ELSE "asked")
    /\ UNCHANGED <<world, crawl, groups, rest, resErr, report, diff, written>>

Found(url) ==
    LET g == IF url = HTTPStart THEN "web-hygiene" ELSE "internal-linking"
        f == [id |-> "check", url |-> url, severity |-> 2, evidence |-> ""]
    IN [groups EXCEPT ![g] = Append(@, f)]

Answer ==
    /\ phase = "asked" /\ Go("check")
    /\ \E fails \in {Head(rest) \in site.down} \cup (IF Done THEN {TRUE} ELSE {}) :
           groups' = IF fails THEN Found(Head(rest)) ELSE groups
    /\ rest' = Tail(rest)
    /\ UNCHANGED <<world, crawl, resErr, report, diff, written>>

\* Fault: only the end of the crawl counts.
ErrOfCrawl == crawl.stop \in {"interrupted", "max-duration"}
Err == Done

Report ==
    /\ phase = "report" /\ Go("render")
    /\ report' = NewReport(crawl, groups)
    /\ resErr' = Err
    /\ UNCHANGED <<world, crawl, groups, rest, diff, written>>

\* --json sets the format after it was checked; ParseFormat's folding of
\* case does not reach the comparisons.
Format == IF opts.json THEN "json" ELSE opts.format
Renders == Format \in {"terminal", "json", "html"}

\* renderReport: the baseline is read again; an error without a code of its
\* own counts as a usage error.
Render ==
    /\ phase = "render"
    /\ IF ~opts.baseline THEN Go("write") /\ UNCHANGED diff
       ELSE IF ~Readable THEN Exit(2) /\ UNCHANGED diff
       ELSE /\ diff' = Compare(report, file)
            /\ IF opts.diff \/ Renders THEN Go("write") ELSE Exit(2)
    /\ UNCHANGED <<world, crawl, groups, rest, resErr, report, written>>

\* Fault: an error of writing is not looked at.
NotWrittenOnwards == Go("exit")
NotWritten == Exit(5)
Write ==
    /\ phase = "write"
    /\ \/ Go("exit") /\ written' = TRUE
       \/ NotWritten /\ UNCHANGED written
    /\ UNCHANGED <<world, crawl, groups, rest, resErr, report, diff>>

\* Fault: the least of the groups' worst severities counts.
FindingsLeast == opts.failOn # 0 /\ report.categories # {}
                 /\ \A g \in report.categories : MaxSeverity(ToSet(report.groups[g])) >= opts.failOn
Findings == opts.failOn # 0 /\ ReachesThreshold(report, opts.failOn)

ExitCode ==
    /\ phase = "exit"
    /\ Exit(IF interrupted \/ resErr THEN 4
            ELSE IF crawl.stop = "start-disallowed" THEN 3
            ELSE IF crawl.pages = 0 THEN 4
            ELSE IF crawl.first = "blocked" THEN 3
            ELSE IF crawl.first = "failed" \/ crawl.stop \in {"interrupted", "max-duration"} THEN 4
            ELSE IF Findings THEN 1 ELSE 0)
    /\ UNCHANGED <<world, crawl, groups, rest, resErr, report, diff, written>>

Step == Validate \/ Discover \/ Crawl \/ Check \/ Answer \/ Report \/ Render \/ Write \/ ExitCode
Next == Step \/ Interrupt \/ Expire \/ ChangeBaseline

\* The command is one goroutine whose waits all have time-outs.
Spec == Init /\ [][Next]_vars /\ WF_vars(Step)

-----------------------------------------------------------------------------
(***************************************************************************)
(* Properties.                                                             *)
(***************************************************************************)

(* Every variable has its type. *)
CommandTypeOK ==
    /\ phase \in {"validate", "discover", "crawl", "check", "asked", "report", "render", "write", "exit", "done"}
    /\ {interrupted, expired, resErr, written} \subseteq BOOLEAN
    /\ code \in {0, 1, 2, 3, 4, 5, Running} /\ (code = Running) = (phase # "done")
    /\ report # None => report.counts \in [Severities -> Nat] /\ report.highest \in 0 .. 5
                        /\ report.scores.seo \in -1 .. 100 /\ report.scores.hygiene \in -1 .. 100

P == INSTANCE Promise WITH report <- IF written THEN "written" ELSE "none", code <- code

(* Whatever is interrupted, changed or fails, the command ends, and its    *)
(* code tells whether there is a report: 0, 1, 3 and 4 come with one,      *)
(* 2 and 5 without (exitcode.go, "part of the public interface").          *)
KeepsPromise == P!Spec

(* The code 0 or 1 is only given for an audit that nothing cut short and   *)
(* whose start page was fetched, 1 if and only if some finding in the      *)
(* report, of any group, reaches --fail-on; a report that says it was cut  *)
(* short, and only one that was, or whose start failed, comes with 4.  An  *)
(* audit whose context ended anywhere, be it between two sitemaps or while *)
(* the crawl formed a level and then called itself completed, is told by   *)
(* no other code.                                                          *)
CodeTellsOutcome ==
    /\ code \in {0, 1, 3} => ~Done
    /\ code \in {0, 1} =>
          /\ crawl.first = "ok" /\ crawl.stop \in {"completed", "max-pages"}
          /\ (code = 1) = (opts.failOn # 0 /\ AtLeast(Flatten(report.groups), opts.failOn) # {})
    /\ code = 3 => crawl.first = "blocked" \/ crawl.stop = "start-disallowed"
    /\ code = 4 => Done \/ crawl.first = "failed"
    /\ written /\ report.stop \in {"interrupted", "max-duration"} => code \in {4, Running}

(* A check that the end of the context cut off is reported as a link that  *)
(* is broken; but only in a report that goes with a run known to be        *)
(* incomplete: an audit that ended well reports no working link as broken  *)
(* and leaves none of the links unchecked.                                 *)
ChecksAreTrue ==
    code \in {0, 1} =>
        LET told == {f.url : f \in {x \in Flatten(report.groups) : x.id = "check"}}
            asked == (IF opts.external THEN ToSet(site.external) ELSE {})
                     \cup (IF opts.https THEN {HTTPStart} ELSE {})
        IN told = asked \cap site.down

\* How often a finding with the key of f is among the groups.
Times(f, in) == Cardinality({p \in Places(in) : Key(At(in, p)) = Key(f)})
Distinct(in) == \A f \in Flatten(in) : Times(f, in) = 1
KeysOf(in) == {Key(f) : f \in Flatten(in)}

(* The comparison with the baseline adds up: what is new is in one report  *)
(* and what is resolved in the other only, and when no report has two      *)
(* findings of the same key, the number of findings changed by the         *)
(* difference; a diff that is empty has the same keys on both sides.       *)
DiffAddsUp ==
    diff # None /\ phase = "write" =>
        LET now == report.groups
            then == file.groups
        IN Readable =>
           /\ \A f \in diff.new : Times(f, now) > 0 /\ Times(f, then) = 0
           /\ \A f \in diff.resolved : Times(f, now) = 0 /\ Times(f, then) > 0
           /\ Distinct(now) /\ Distinct(then) =>
                  diff.findings = Cardinality(diff.new) - Cardinality(diff.resolved)
           /\ Equal(diff) => KeysOf(now) = KeysOf(then)

\* How often the very finding f is among the groups, web hygiene left out.
Outside(in) == [g \in DOMAIN in \ {"web-hygiene"} |-> in[g]]
Often(f, in) == Cardinality({p \in Places(in) : At(in, p) = f})
Covers(in, other) == \A f \in Flatten(other) : Often(f, in) >= Often(f, other)

(* docs/scoring.md, Separation of Concerns: "A site with security hygiene  *)
(* issues does not artificially penalize its SEO content score".  With as  *)
(* many indexable pages as the baseline had, a report with all technical   *)
(* findings of the baseline never has a better score, whatever happened to *)
(* web hygiene, and one with the same findings has the same score.         *)
ScoresAreSeparate ==
    diff # None /\ phase = "write" /\ Readable /\ report.indexable = file.indexable =>
        LET now == Outside(report.groups)
            then == Outside(file.groups)
        IN /\ Covers(now, then) => diff.seo <= 0
           /\ Covers(then, now) => diff.seo >= 0

(* No sum of penalties, however large, leaves the range of a score, and    *)
(* none crosses over from one kind of score to the other.                  *)
ScoresHold == CommandTypeOK /\ ScoresAreSeparate
=============================================================================
