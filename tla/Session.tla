------------------------------ MODULE Session ------------------------------
(***************************************************************************)
(* The persisted session record of session.py (state.json) as a value, and *)
(* what opening, resuming and updating it compute.  Only the fields that   *)
(* steer the run or the verdict are kept:                                  *)
(*                                                                         *)
(*   status               "running", then "complete" or "aborted";         *)
(*                        "none" when no session of this machine exists    *)
(*   this_boot            boots[-1].boot_id is the boot_id of this boot    *)
(*   unexpected_reboots   resets the session has survived                  *)
(*   planned_reboot       the cycle of an announced reboot, 0 if none      *)
(*   reboot_cycles_done   planned cycles completed                         *)
(*   phases               status of every phase of the plan                *)
(*   disk_tests_finished  final SMART data was collected                   *)
(*   disk_scan            the disk_scans entries together: "none", or      *)
(*                        "started" while some is not done, then "done"    *)
(***************************************************************************)
EXTENDS Naturals, Sequences

CONSTANTS
    Plan,   \* the phases in the order build_plan lists them
    Skip    \* options["skip"]: the phases the operator left out of the plan

NoPhase == ""

\* build_plan: inventory comes first, powercycle (when planned) last, and no
\* phase twice.
ASSUME PlanAssumption ==
    /\ Plan \in Seq(STRING)
    /\ Len(Plan) > 0
    /\ Plan[1] = "inventory"
    /\ \A k, l \in DOMAIN Plan : Plan[k] = Plan[l] => k = l
    /\ \A k \in DOMAIN Plan : Plan[k] = "powercycle" => k = Len(Plan)
    /\ \A k \in DOMAIN Plan : Plan[k] \notin {NoPhase, "final"}

Phases == {Plan[k] : k \in DOMAIN Plan}

PhaseStatus == {"pending", "running", "done", "warn", "failed", "error",
                "aborted", "interrupted", "skipped"}

State == [status              : {"none", "running", "complete", "aborted"},
          this_boot           : BOOLEAN,
          unexpected_reboots  : Nat,
          planned_reboot      : Nat,
          reboot_cycles_done  : Nat,
          phases              : [Phases -> PhaseStatus],
          disk_tests_finished : BOOLEAN,
          disk_scan           : {"none", "started", "done"}]

\* The state a new session starts from.
Fresh == [status              |-> "running",
          this_boot           |-> TRUE,
          unexpected_reboots  |-> 0,
          planned_reboot      |-> 0,
          reboot_cycles_done  |-> 0,
          phases              |-> [p \in Phases |-> "pending"],
          disk_tests_finished |-> FALSE,
          disk_scan           |-> "none"]

\* No state.json of this machine, or no process to hold one in memory.
NoSession == [Fresh EXCEPT !.status = "none", !.this_boot = FALSE]

\* previous_state["running_phase"]: the phase the interruption hit.
RunningPhase(st) ==
    IF \E p \in Phases : st.phases[p] = "running"
    THEN CHOOSE p \in Phases : st.phases[p] = "running"
    ELSE NoPhase

\* Mutant of ResumeReason: an announced reboot is not recognised.
ResumeReasonUnplanned(st) == IF st.this_boot THEN "restart" ELSE "unexpected"

\* Why the session is found running: the test program restarted on the same
\* boot, an announced reboot came back, or the machine reset.
ResumeReason(st) ==
    IF st.this_boot THEN "restart"
    ELSE IF st.planned_reboot # 0 THEN "planned"
    ELSE "unexpected"

\* Mutant of Resumed: the completed cycle is not counted.
ResumedForgetsCycle(st) ==
    [st EXCEPT
        !.planned_reboot     = 0,
        !.this_boot          = TRUE,
        !.unexpected_reboots = IF ResumeReason(st) = "unexpected"
                               THEN @ + 1 ELSE @]

\* The state _resume saves.
Resumed(st) ==
    [st EXCEPT
        !.planned_reboot     = 0,
        !.this_boot          = TRUE,
        !.reboot_cycles_done = IF ResumeReason(st) = "planned"
                               THEN st.planned_reboot ELSE @,
        !.unexpected_reboots = IF ResumeReason(st) = "unexpected"
                               THEN @ + 1 ELSE @]

SetPhase(st, p, status) == [st EXCEPT !.phases[p] = status]
=============================================================================
