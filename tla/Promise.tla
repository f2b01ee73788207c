------------------------------- MODULE Promise -------------------------------
(***************************************************************************)
(* What the command line promises to scripts (internal/cli/exitcode.go,    *)
(* "Exit codes are part of the public interface"): it ends, with a report  *)
(* and one of the codes of an audit, or without one and with an error.     *)
(***************************************************************************)
EXTENDS Naturals

VARIABLES report, code

Running == 9
AuditCodes == {0, 1, 3, 4}
ErrorCodes == {2, 5}

Init == report = "none" /\ code = Running
Publish == code = Running /\ report = "none" /\ report' = "written" /\ UNCHANGED code
Fail == code = Running /\ report = "none" /\ code' \in ErrorCodes /\ UNCHANGED report
Finish == code = Running /\ report = "written" /\ code' \in AuditCodes /\ UNCHANGED report
Next == Publish \/ Fail \/ Finish
Spec == Init /\ [][Next]_<<report, code>> /\ WF_<<report, code>>(Next)
=============================================================================
