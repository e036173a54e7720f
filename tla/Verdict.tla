------------------------------ MODULE Verdict ------------------------------
(***************************************************************************)
(* How findings and the session record become a phase status and the       *)
(* verdict of the run (orchestrator.run_phases, report.coverage_gaps,      *)
(* findings.verdict).  A finding is abstracted to what these read of it:   *)
(* its severity, whether required evidence is missing, and its phase.      *)
(* INFO findings influence neither and are left out.                       *)
(***************************************************************************)
EXTENDS Session

FindingPhases == Phases \cup {NoPhase, "final"}

Finding == [severity   : {"FAIL", "WARN"},
            incomplete : BOOLEAN,
            phase      : FindingPhases]

Verdicts == {"PASS", "PASS WITH WARNINGS", "INCOMPLETE", "FAIL"}

Fault(p)   == [severity |-> "FAIL", incomplete |-> FALSE, phase |-> p]
Warning(p) == [severity |-> "WARN", incomplete |-> FALSE, phase |-> p]
Gap(p)     == [severity |-> "WARN", incomplete |-> TRUE,  phase |-> p]

\* The status run_phases gives a phase whose run() returned.
PhaseResult(p, aborted, fs) ==
    LET by_phase == {f \in fs : f.phase = p} IN
    IF aborted THEN "aborted"
    ELSE IF \E f \in by_phase : f.incomplete THEN "error"
    ELSE IF \E f \in by_phase : f.severity = "FAIL" THEN "failed"
    ELSE IF \E f \in by_phase : f.severity = "WARN" THEN "warn"
    ELSE "done"

\* Mutant of CoverageGap: a phase that is still "running" counts as covered.
CoverageGapRunningIsFine(st, fs) ==
    \/ \E f \in fs : f.incomplete
    \/ st.status # "complete"
    \/ \E p \in Phases : st.phases[p] \notin {"running", "done", "warn", "failed"}
    \/ Skip # {}
    \/ st.disk_scan = "started"

\* Required coverage is missing from the saved session.  The entries of drive
\* self-tests, which can only add a gap, are not part of the record here.
CoverageGap(st, fs) ==
    \/ \E f \in fs : f.incomplete
    \/ st.status # "complete"
    \/ \E p \in Phases : st.phases[p] \notin {"done", "warn", "failed"}
    \/ Skip # {}
    \/ st.disk_scan = "started"

\* A detected fault outranks missing coverage, which outranks warnings.
VerdictOf(fs, incomplete) ==
    IF \E f \in fs : f.severity = "FAIL" THEN "FAIL"
    ELSE IF incomplete \/ \E f \in fs : f.incomplete THEN "INCOMPLETE"
    ELSE IF \E f \in fs : f.severity = "WARN" THEN "PASS WITH WARNINGS"
    ELSE "PASS"
=============================================================================
