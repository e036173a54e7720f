------------------------------- MODULE BurnIn -------------------------------
(***************************************************************************)
(* One machine burning in under PC-Check: orchestrator.main with the       *)
(* session it opens or resumes, the phases it runs, planned reboots, the   *)
(* final report - and what interrupts it: resets, deaths of the program    *)
(* followed by systemd's Restart=on-failure, aborts, failing saves and     *)
(* hardware findings of the monitor threads.                               *)
(*                                                                         *)
(* The main thread is sequential; `pc' names the point it has reached and  *)
(* every step ends where something becomes durable or another thread can   *)
(* interfere.  A save is one step: RotatingStore shows what that takes.    *)
(* A finding is durable once add() returned: FindingsStore looks inside.   *)
(***************************************************************************)
EXTENDS Verdict

CONSTANTS
    RebootCycles,     \* options.reboot_cycles
    MaxUnexpected,    \* options.max_unexpected_reboots
    ValidOptions,     \* options.validation_errors is empty
    MaxResets,        \* bounds on the environment: machine resets,
    MaxDeaths,        \*   deaths of the program,
    MaxEvents,        \*   findings raised by monitors,
    MaxSaveFails      \*   saves that end in an OSError

ASSUME BurnInAssumption ==
    /\ RebootCycles \in 0..50
    /\ MaxUnexpected \in Nat \ {0}
    /\ ValidOptions \in BOOLEAN
    /\ MaxResets \in Nat /\ MaxDeaths \in Nat
    /\ MaxEvents \in Nat /\ MaxSaveFails \in Nat
    /\ "powercycle" \in Phases => RebootCycles > 0

VARIABLES
    (* on the stick *)
    disk,          \* the newest session record
    findings,      \* findings.json
    report,        \* verdict in report.json, "none" before write_reports
    (* in the memory of the program; lost with it *)
    mem,           \* Session.state
    pc,            \* where the main thread is
    i,             \* run_phases: position in the plan
    ret,           \* where start_disk_tests / finish_disk_tests return to
    reason,        \* why the session was resumed ("new" if it was not)
    hit,           \* previous_state["running_phase"]
    cur,           \* Findings.current_phase
    abort,         \* abort_event
    aborted,       \* finalize's reading of abort_event
    reboot_request,
    disks_up,      \* the DiskManager runs scans
    (* environment *)
    persistent,    \* Storage.persistent
    left,          \* resets, deaths, events and failing saves still to come
    (* history of the session, for the properties *)
    ran,           \* phases whose run() went through the workloads that image
                   \* and platform offer
    starts,        \* how often each phase was started (2 = twice or more)
    resets,        \* unannounced resets that hit the running session
    deaths,        \* deaths of the program that hit the running session
    reboots,       \* planned reboots performed (capped, see Reboot)
    abort_asked    \* an abort was accepted before the final analysis ended
                   \* and with no reboot on its way

stick   == <<disk, findings, report>>
memory  == <<mem, pc, i, ret, reason, hit, cur, abort, aborted,
             reboot_request, disks_up>>
history == <<ran, starts, resets, deaths, reboots, abort_asked>>
vars    == <<disk, findings, report, mem, pc, i, ret, reason, hit, cur, abort,
             aborted, reboot_request, disks_up, persistent, left, ran, starts,
             resets, deaths, reboots, abort_asked>>

\* Monitors, key reader and status loop run beside the main thread here.
Watching == {"resume", "loop", "begin", "phase", "start_disks", "settle",
             "raised", "stop_disks", "disks_finished", "reboot", "finalize",
             "samples"}

Alive == Watching \cup {"record_finding", "record_phase", "record_save",
                        "rebooting", "finish", "report", "index"}

Points == Alive \cup {"off", "dead", "start", "done"}

Name == Plan[i]

-----------------------------------------------------------------------------
(* Saving, and losing memory *)

\* Session.save of the state st: durable, or an OSError that is only logged.
Save(st) ==
    /\ mem' = st
    /\ \/ disk' = st /\ UNCHANGED left
       \/ /\ left.save_fails > 0
          /\ left' = [left EXCEPT !.save_fails = @ - 1]
          /\ UNCHANGED disk

\* The program is gone and its memory with it.
Forget(where) ==
    /\ pc' = where
    /\ mem' = NoSession
    /\ i' = 1
    /\ ret' = ""
    /\ reason' = "new"
    /\ hit' = NoPhase
    /\ cur' = NoPhase
    /\ abort' = FALSE
    /\ aborted' = FALSE
    /\ reboot_request' = 0
    /\ disks_up' = FALSE

\* The machine goes down.  The next boot has another boot_id; without a data
\* partition the session was only in RAM.
PowerDown ==
    /\ Forget("off")
    /\ IF persistent
       THEN /\ disk' = [disk EXCEPT !.this_boot = FALSE]
            /\ UNCHANGED <<findings, report>>
       ELSE /\ disk' = NoSession
            /\ findings' = {}
            /\ report' = "none"

-----------------------------------------------------------------------------
(* Environment: power, the service manager, the operator, the hardware *)

Init ==
    /\ disk = NoSession /\ findings = {} /\ report = "none"
    /\ mem = NoSession /\ pc = "start" /\ i = 1 /\ ret = ""
    /\ reason = "new" /\ hit = NoPhase /\ cur = NoPhase
    /\ abort = FALSE /\ aborted = FALSE /\ reboot_request = 0
    /\ disks_up = FALSE
    /\ persistent \in BOOLEAN
    /\ left = [resets |-> MaxResets, deaths |-> MaxDeaths,
               events |-> MaxEvents, save_fails |-> MaxSaveFails]
    /\ ran = {} /\ starts = [p \in Phases |-> 0]
    /\ resets = 0 /\ deaths = 0 /\ reboots = 0 /\ abort_asked = FALSE

\* A reboot was announced and not taken back by a resume.
Announced == reboot_request # 0 \/ (pc \notin Alive /\ disk.planned_reboot # 0)

\* The machine resets or loses power.  It counts against the session if the
\* session is running on this boot and no reboot was announced.
Reset ==
    /\ pc \notin {"off", "done"}
    /\ left.resets > 0
    /\ left' = [left EXCEPT !.resets = @ - 1]
    /\ resets' = IF /\ disk.status = "running"
                    /\ ~Announced
                    /\ pc \in Alive \/ disk.this_boot
                 THEN resets + 1 ELSE resets
    /\ PowerDown
    /\ UNCHANGED <<persistent, ran, starts, deaths, reboots, abort_asked>>

Boot ==
    /\ pc = "off"
    /\ pc' = "start"
    /\ UNCHANGED <<stick, mem, i, ret, reason, hit, cur, abort, aborted,
                   reboot_request, disks_up, persistent, left, history>>

\* An unhandled exception or a kill ends the program on a running machine.
Die ==
    /\ pc \in Alive \ {"rebooting"}
    /\ left.deaths > 0
    /\ left' = [left EXCEPT !.deaths = @ - 1]
    /\ deaths' = IF disk.status = "running" /\ ~Announced
                 THEN deaths + 1 ELSE deaths
    /\ Forget("dead")
    /\ UNCHANGED <<stick, persistent, ran, starts, resets, reboots, abort_asked>>

\* pccheck.service: Restart=on-failure.
ServiceRestart ==
    /\ pc = "dead"
    /\ pc' = "start"
    /\ UNCHANGED <<stick, mem, i, ret, reason, hit, cur, abort, aborted,
                   reboot_request, disks_up, persistent, left, history>>

\* A monitor, a workload or a check records a finding.  One that exists stays
\* with the phase it was first seen in and can only get worse.
HardwareFinding ==
    /\ pc \in Watching
    /\ left.events > 0
    /\ \E p \in {cur} \cup {f.phase : f \in findings} :
          \E f \in {Fault(p), Warning(p), Gap(p)} : findings' = findings \cup {f}
    /\ left' = [left EXCEPT !.events = @ - 1]
    /\ UNCHANGED <<disk, report, memory, persistent, history>>

\* Context.request_abort: by the operator, or `pccheck abort'.
RequestAbort ==
    /\ pc \in Watching \cup {"finish", "report", "index"}
    /\ ~abort
    /\ abort' = TRUE
    /\ abort_asked' = (abort_asked \/ (pc \in Watching /\ reboot_request = 0))
    /\ Save(mem)
    /\ UNCHANGED <<findings, report, pc, i, ret, reason, hit, cur, aborted,
                   reboot_request, disks_up, persistent, ran, starts, resets,
                   deaths, reboots>>

\* SensorMonitor: a critical temperature is a FAIL and stops the run.
CriticalTemperature ==
    /\ pc \in Watching
    /\ left.events > 0
    /\ ~abort
    /\ findings' = findings \cup {Fault(cur)}
    /\ abort' = TRUE
    /\ \/ /\ disk' = mem
          /\ left' = [left EXCEPT !.events = @ - 1]
       \/ /\ left.save_fails > 0
          /\ left' = [left EXCEPT !.events = @ - 1, !.save_fails = @ - 1]
          /\ UNCHANGED disk
    /\ UNCHANGED <<report, mem, pc, i, ret, reason, hit, cur, aborted,
                   reboot_request, disks_up, persistent, history>>

\* Heartbeat.sample ends in session.update: what an earlier save missed is
\* written again.
Heartbeat ==
    /\ pc \in Watching
    /\ disk # mem
    /\ disk' = mem
    /\ UNCHANGED <<findings, report, memory, persistent, left, history>>

\* The scan threads reach the end of every disk; save_progress keeps that in
\* the state until the next save.
ScanCompletes ==
    /\ pc \in Watching
    /\ disks_up
    /\ mem.disk_scan = "started"
    /\ mem' = [mem EXCEPT !.disk_scan = "done"]
    /\ UNCHANGED <<stick, pc, i, ret, reason, hit, cur, abort, aborted,
                   reboot_request, disks_up, persistent, left, history>>

-----------------------------------------------------------------------------
(* main: open the session, record what interrupted it *)

\* Session.open finds no running session of this machine and makes a new
\* directory; if the first save fails, that directory holds no state.
OpenNew ==
    /\ pc = "start"
    /\ disk.status # "running"
    /\ mem' = Fresh
    /\ \/ disk' = Fresh /\ UNCHANGED left
       \/ /\ left.save_fails > 0
          /\ left' = [left EXCEPT !.save_fails = @ - 1]
          /\ disk' = NoSession
    /\ pc' = "record_finding"
    /\ findings' = {}
    /\ report' = "none"
    /\ ran' = {}
    /\ starts' = [p \in Phases |-> 0]
    /\ resets' = 0
    /\ deaths' = 0
    /\ reboots' = 0
    /\ abort_asked' = FALSE
    /\ UNCHANGED <<i, ret, reason, hit, cur, abort, aborted, reboot_request,
                   disks_up, persistent>>

\* Session.open finds one: _resume.
OpenRunning ==
    /\ pc = "start"
    /\ disk.status = "running"
    /\ Save(Resumed(disk))
    /\ reason' = ResumeReason(disk)
    /\ hit' = RunningPhase(disk)
    /\ pc' = "record_finding"
    /\ UNCHANGED <<findings, report, i, ret, cur, abort, aborted,
                   reboot_request, disks_up, persistent, history>>

\* Mutant of IncidentFindings: a restart of the program is not recorded.
IncidentFindingsResetOnly ==
    (IF persistent /\ ValidOptions THEN {} ELSE {Gap(NoPhase)}) \cup
    (IF reason = "unexpected" THEN {Fault(hit)} ELSE {})

\* What main and record_incident add to the findings.
IncidentFindings ==
    (IF persistent /\ ValidOptions THEN {} ELSE {Gap(NoPhase)}) \cup
    (CASE reason = "unexpected" -> {Fault(hit)}
       [] reason = "restart"    -> {Warning(NoPhase)}
       [] OTHER                 -> {})

RecordFinding ==
    /\ pc = "record_finding"
    /\ findings' = findings \cup IncidentFindings
    /\ pc' = "record_phase"
    /\ UNCHANGED <<disk, report, mem, i, ret, reason, hit, cur, abort, aborted,
                   reboot_request, disks_up, persistent, left, history>>

\* Mutants of HitStatus: a misspelt status; the phase is tried again.
HitStatusMisspelt ==
    CASE hit = "inventory" -> "pending"
      [] OTHER             -> "interupted"

HitStatusRetry == "pending"

\* The status record_incident gives the phase that was hit.
HitStatus ==
    CASE hit = "inventory"       -> "pending"
      [] hit # "inventory" /\ reason = "unexpected" -> "interrupted"
      [] OTHER                   -> "error"

RecordPhase ==
    /\ pc = "record_phase"
    /\ IF hit # NoPhase /\ reason \in {"unexpected", "restart"}
       THEN Save(SetPhase(mem, hit, HitStatus))
       ELSE UNCHANGED <<disk, mem, left>>
    /\ pc' = "record_save"
    /\ UNCHANGED <<findings, report, i, ret, reason, hit, cur, abort, aborted,
                   reboot_request, disks_up, persistent, history>>

\* The trailing save; what was found at the start is not read again.
RecordSave ==
    /\ pc = "record_save"
    /\ Save(mem)
    /\ pc' = "resume"
    /\ reason' = "new"
    /\ hit' = NoPhase
    /\ UNCHANGED <<findings, report, i, ret, cur, abort, aborted,
                   reboot_request, disks_up, persistent, history>>

\* main: a resumed session continues its disk scans before run_phases.
ResumeDisks ==
    /\ pc = "resume"
    /\ IF mem.phases["inventory"] # "pending"
       THEN pc' = "start_disks" /\ ret' = "loop"
       ELSE pc' = "loop" /\ UNCHANGED ret
    /\ UNCHANGED <<stick, mem, i, reason, hit, cur, abort, aborted,
                   reboot_request, disks_up, persistent, left, history>>

\* start_disk_tests.  A machine may have no disk to scan; an entry that
\* exists is kept, and only one that is not done is scanned again.
StartDisks ==
    /\ pc = "start_disks"
    /\ IF mem.disk_tests_finished
       THEN UNCHANGED <<disk, mem, left, disks_up>>
       ELSE /\ disks_up' = TRUE
            /\ \E scan \in IF mem.disk_scan = "none" THEN {"none", "started"}
                             ELSE {mem.disk_scan} :
                  Save([mem EXCEPT !.disk_scan = scan])
    /\ pc' = ret
    /\ ret' = ""
    /\ ran' = IF ret = "settle" THEN ran \cup {Name} ELSE ran
    /\ UNCHANGED <<findings, report, i, reason, hit, cur, abort, aborted,
                   reboot_request, persistent, starts, resets, deaths, reboots,
                   abort_asked>>

-----------------------------------------------------------------------------
(* run_phases *)

\* The loop goes past a phase that is not pending, leaves on an abort, skips
\* what remains after too many resets, or enters the phase.
PassOver ==
    /\ pc = "loop" /\ i <= Len(Plan)
    /\ mem.phases[Name] # "pending"
    /\ i' = i + 1
    /\ UNCHANGED <<stick, mem, pc, ret, reason, hit, cur, abort, aborted,
                   reboot_request, disks_up, persistent, left, history>>

LeaveLoop ==
    /\ pc = "loop"
    /\ i <= Len(Plan) => mem.phases[Name] = "pending" /\ abort
    /\ pc' = "finalize"
    /\ UNCHANGED <<stick, mem, i, ret, reason, hit, cur, abort, aborted,
                   reboot_request, disks_up, persistent, left, history>>

\* Mutant of TooManyResets: one reset too many is tolerated.
TooManyResetsOffByOne == mem.unexpected_reboots > MaxUnexpected

\* unexpected_reboots >= max_unexpected_reboots
TooManyResets == mem.unexpected_reboots >= MaxUnexpected

SkipPhase ==
    /\ pc = "loop" /\ i <= Len(Plan)
    /\ mem.phases[Name] = "pending" /\ ~abort /\ TooManyResets
    /\ Save(SetPhase(mem, Name, "skipped"))
    /\ i' = i + 1
    /\ UNCHANGED <<findings, report, pc, ret, reason, hit, cur, abort, aborted,
                   reboot_request, disks_up, persistent, history>>

\* Mutant of DisksFirst: the disk tests are left to finalize.
DisksFirstNever == FALSE

\* Planned power cycles must not abort the drive self-tests.
DisksFirst == Name = "powercycle" /\ ~mem.disk_tests_finished

EnterPhase ==
    /\ pc = "loop" /\ i <= Len(Plan)
    /\ mem.phases[Name] = "pending" /\ ~abort /\ ~TooManyResets
    /\ cur' = Name
    /\ IF DisksFirst
       THEN pc' = "stop_disks" /\ ret' = "begin"
       ELSE pc' = "begin" /\ UNCHANGED ret
    /\ UNCHANGED <<stick, mem, i, reason, hit, abort, aborted, reboot_request,
                   disks_up, persistent, left, history>>

BeginPhase ==
    /\ pc = "begin"
    /\ Save(SetPhase(mem, Name, "running"))
    /\ starts' = [starts EXCEPT ![Name] = IF @ < 2 THEN @ + 1 ELSE @]
    /\ pc' = "phase"
    /\ UNCHANGED <<findings, report, i, ret, reason, hit, cur, abort, aborted,
                   reboot_request, disks_up, persistent, ran, resets, deaths,
                   reboots, abort_asked>>

\* run_inventory_phase returned; start_disk_tests follows in the same phase.
InventoryCollected ==
    /\ pc = "phase" /\ Name = "inventory"
    /\ pc' = "start_disks"
    /\ ret' = "settle"
    /\ UNCHANGED <<stick, mem, i, reason, hit, cur, abort, aborted,
                   reboot_request, disks_up, persistent, left, history>>

\* A stress phase runs its workloads to the deadline; a stressor the platform
\* does not support, or an optional program missing from the image, leaves
\* only a warning.
PhaseCompletes ==
    /\ pc = "phase" /\ Name \notin {"inventory", "powercycle"}
    /\ \E fs \in SUBSET {Warning(Name)} : findings' = findings \cup fs
    /\ ran' = ran \cup {Name}
    /\ pc' = "settle"
    /\ UNCHANGED <<disk, report, mem, i, ret, reason, hit, cur, abort, aborted,
                   reboot_request, disks_up, persistent, left, starts, resets,
                   deaths, reboots, abort_asked>>

\* The workload is missing, exits early or hangs: the phase says so in a
\* finding of its own and returns.
PhaseCutShort ==
    /\ pc = "phase" /\ Name \notin {"inventory", "powercycle"}
    /\ \E f \in {Gap(Name), Fault(Name)} : findings' = findings \cup {f}
    /\ pc' = "settle"
    /\ UNCHANGED <<disk, report, mem, i, ret, reason, hit, cur, abort, aborted,
                   reboot_request, disks_up, persistent, left, history>>

\* The phase sees abort_event and returns.
PhaseAborted ==
    /\ pc = "phase" /\ Name \notin {"inventory", "powercycle"} /\ abort
    /\ pc' = "settle"
    /\ UNCHANGED <<stick, mem, i, ret, reason, hit, cur, abort, aborted,
                   reboot_request, disks_up, persistent, left, history>>

\* An exception in the phase becomes a finding, then the status "error".
PhaseRaises ==
    /\ pc = "phase" \/ (pc = "start_disks" /\ ret = "settle")
    /\ findings' = findings \cup {Gap(Name)}
    /\ pc' = "raised"
    /\ ret' = ""
    /\ UNCHANGED <<disk, report, mem, i, reason, hit, cur, abort, aborted,
                   reboot_request, disks_up, persistent, left, history>>

\* Mutant of RecordError: the status of the phase is not set.
RecordErrorForgotten ==
    /\ pc = "raised"
    /\ i' = i + 1
    /\ pc' = "loop"
    /\ UNCHANGED <<stick, mem, ret, reason, hit, cur, abort, aborted,
                   reboot_request, disks_up, persistent, left, history>>

RecordError ==
    /\ pc = "raised"
    /\ Save(SetPhase(mem, Name, "error"))
    /\ i' = i + 1
    /\ pc' = "loop"
    /\ UNCHANGED <<findings, report, ret, reason, hit, cur, abort, aborted,
                   reboot_request, disks_up, persistent, history>>

\* PowerCyclePhase.run: nothing to do without persistent storage, finished
\* after the last cycle, or the next cycle is announced and saved.
SkipCycles ==
    /\ pc = "phase" /\ Name = "powercycle" /\ ~persistent
    /\ findings' = findings \cup {Warning(Name)}
    /\ pc' = "settle"
    /\ UNCHANGED <<disk, report, mem, i, ret, reason, hit, cur, abort, aborted,
                   reboot_request, disks_up, persistent, left, history>>

CyclesDone ==
    /\ pc = "phase" /\ Name = "powercycle" /\ persistent
    /\ mem.reboot_cycles_done >= RebootCycles
    /\ ran' = ran \cup {Name}
    /\ pc' = "settle"
    /\ UNCHANGED <<stick, mem, i, ret, reason, hit, cur, abort, aborted,
                   reboot_request, disks_up, persistent, left, starts, resets,
                   deaths, reboots, abort_asked>>

RequestReboot ==
    /\ pc = "phase" /\ Name = "powercycle" /\ persistent
    /\ mem.reboot_cycles_done < RebootCycles
    /\ reboot_request' = mem.reboot_cycles_done + 1
    /\ Save([mem EXCEPT !.planned_reboot = mem.reboot_cycles_done + 1])
    /\ pc' = "settle"
    /\ UNCHANGED <<findings, report, i, ret, reason, hit, cur, abort, aborted,
                   disks_up, persistent, history>>

\* run() returned: either the phase stays pending for the next boot, or it
\* gets its result.
PostponePhase ==
    /\ pc = "settle" /\ reboot_request # 0
    /\ Save(SetPhase(mem, Name, "pending"))
    /\ pc' = "reboot"
    /\ UNCHANGED <<findings, report, i, ret, reason, hit, cur, abort, aborted,
                   reboot_request, disks_up, persistent, history>>

SettlePhase ==
    /\ pc = "settle" /\ reboot_request = 0
    /\ Save(SetPhase(mem, Name, PhaseResult(Name, abort, findings)))
    /\ i' = i + 1
    /\ pc' = "loop"
    /\ UNCHANGED <<findings, report, ret, reason, hit, cur, abort, aborted,
                   reboot_request, disks_up, persistent, history>>

\* perform_reboot: everything is saved, the monitors stop, the machine goes
\* down.  The reboot commands are taken to work.
PrepareReboot ==
    /\ pc = "reboot"
    /\ Save(mem)
    /\ pc' = "rebooting"
    /\ UNCHANGED <<findings, report, i, ret, reason, hit, cur, abort, aborted,
                   reboot_request, disks_up, persistent, history>>

\* The history counts up to one reboot more than was asked for.
Reboot ==
    /\ pc = "rebooting"
    /\ reboots' = IF reboots <= RebootCycles THEN reboots + 1 ELSE reboots
    /\ PowerDown
    /\ UNCHANGED <<persistent, left, ran, starts, resets, deaths, abort_asked>>

-----------------------------------------------------------------------------
(* finish_disk_tests and finalize *)

\* The wait is over (scans done, time over, or abort); DiskManager.stop notes
\* a scan that did not finish; then the final SMART data.
StopDisks ==
    /\ pc = "stop_disks"
    /\ findings' = IF disks_up /\ mem.disk_scan = "started"
                   THEN findings \cup {Gap(cur)} ELSE findings
    /\ disks_up' = FALSE
    /\ pc' = "disks_finished"
    /\ UNCHANGED <<disk, report, mem, i, ret, reason, hit, cur, abort, aborted,
                   reboot_request, persistent, left, history>>

DisksFinished ==
    /\ pc = "disks_finished"
    /\ Save([mem EXCEPT !.disk_tests_finished = TRUE])
    /\ pc' = IF ret = "begin" /\ abort THEN "finalize" ELSE ret
    /\ ret' = ""
    /\ UNCHANGED <<findings, report, i, reason, hit, cur, abort, aborted,
                   reboot_request, disks_up, persistent, history>>

Finalize ==
    /\ pc = "finalize"
    /\ cur' = "final"
    /\ IF mem.disk_tests_finished
       THEN pc' = "samples" /\ UNCHANGED ret
       ELSE pc' = "stop_disks" /\ ret' = "samples"
    /\ UNCHANGED <<stick, mem, i, reason, hit, abort, aborted, reboot_request,
                   disks_up, persistent, left, history>>

\* Last samples and checks (their findings are HardwareFinding steps), the
\* monitors stop, abort_event is read, the findings are flushed.
FinalSamples ==
    /\ pc = "samples"
    /\ aborted' = abort
    /\ pc' = "finish"
    /\ UNCHANGED <<stick, mem, i, ret, reason, hit, cur, abort, reboot_request,
                   disks_up, persistent, left, history>>

\* Session.finish
Finish ==
    /\ pc = "finish"
    /\ Save([mem EXCEPT !.status = IF aborted THEN "aborted" ELSE "complete"])
    /\ pc' = "report"
    /\ UNCHANGED <<findings, report, i, ret, reason, hit, cur, abort, aborted,
                   reboot_request, disks_up, persistent, history>>

\* write_reports: the verdict comes from what is on the stick.
WriteReports ==
    /\ pc = "report"
    /\ report' = VerdictOf(findings, aborted \/ CoverageGap(disk, findings))
    /\ pc' = "index"
    /\ UNCHANGED <<disk, findings, mem, i, ret, reason, hit, cur, abort, aborted,
                   reboot_request, disks_up, persistent, left, history>>

\* The line in index.csv; from here the program only shows the result.
AppendIndex ==
    /\ pc = "index"
    /\ pc' = "done"
    /\ UNCHANGED <<stick, mem, i, ret, reason, hit, cur, abort, aborted,
                   reboot_request, disks_up, persistent, left, history>>

ServeResult ==
    /\ pc = "done"
    /\ UNCHANGED vars

-----------------------------------------------------------------------------
MainThread ==
    \/ OpenNew \/ OpenRunning \/ RecordFinding \/ RecordPhase \/ RecordSave
    \/ ResumeDisks \/ StartDisks
    \/ PassOver \/ LeaveLoop \/ SkipPhase \/ EnterPhase \/ BeginPhase
    \/ InventoryCollected \/ PhaseCompletes \/ PhaseCutShort \/ PhaseAborted
    \/ PhaseRaises \/ RecordError
    \/ SkipCycles \/ CyclesDone \/ RequestReboot
    \/ PostponePhase \/ SettlePhase \/ PrepareReboot \/ Reboot
    \/ StopDisks \/ DisksFinished
    \/ Finalize \/ FinalSamples \/ Finish \/ WriteReports \/ AppendIndex

Environment ==
    \/ Reset \/ Boot \/ Die \/ ServiceRestart
    \/ HardwareFinding \/ RequestAbort \/ CriticalTemperature
    \/ Heartbeat \/ ScanCompletes

Next == MainThread \/ Environment \/ ServeResult

Spec == Init /\ [][Next]_vars

\* The main thread keeps running, a machine that went down boots again and
\* systemd restarts a failed service.  Nothing is assumed of the operator,
\* the hardware, the heartbeat or the disks.
FairSpec ==
    /\ Spec
    /\ WF_vars(MainThread)
    /\ WF_vars(Boot)
    /\ WF_vars(ServiceRestart)

-----------------------------------------------------------------------------
(* Properties *)

Left == [resets : Nat, deaths : Nat, events : Nat, save_fails : Nat]

RecordsOK ==
    /\ disk \in State /\ mem \in State
    /\ findings \subseteq Finding
    /\ report \in Verdicts \cup {"none"}
    /\ left \in Left

PlaceOK ==
    /\ pc \in Points
    /\ i \in 1..(Len(Plan) + 1)
    /\ ret \in {"", "loop", "settle", "begin", "samples"}
    /\ reason \in {"new", "restart", "planned", "unexpected"}
    /\ hit \in Phases \cup {NoPhase}
    /\ cur \in FindingPhases
    /\ reboot_request \in Nat

FlagsOK ==
    /\ abort \in BOOLEAN /\ aborted \in BOOLEAN
    /\ disks_up \in BOOLEAN
    /\ persistent \in BOOLEAN
    /\ abort_asked \in BOOLEAN

HistoryOK ==
    /\ ran \subseteq Phases
    /\ starts \in [Phases -> 0..2]
    /\ resets \in Nat /\ deaths \in Nat /\ reboots \in Nat

\* The shape of every variable (Session.state, Findings, Context and the
\* locals of run_phases and finalize).
TypeOK == RecordsOK /\ PlaceOK /\ FlagsOK /\ HistoryOK

Accepted == report \in {"PASS", "PASS WITH WARNINGS"}

AllSaved == left.save_fails = MaxSaveFails

\* write_reports accepts a machine only if every phase of the plan went
\* through its workloads during this session - on whatever boot - and every
\* disk scan that was started ended, even when some saves failed.
AcceptanceIsEarned ==
    Accepted => ran = Phases /\ disk.disk_scan # "started"

\* record_incident leaves a trace of every interruption: a run that a reset
\* or a death of the program broke into never ends in a plain PASS.
PassHidesNoInterruption ==
    report = "PASS" /\ AllSaved => resets = 0 /\ deaths = 0

\* run_phases starts a stress phase at most once per session: after a reset
\* or restart the phase that was hit is given up, not repeated.
StressRunsOnce ==
    AllSaved => \A p \in Phases \ {"inventory", "powercycle"} : starts[p] <= 1

\* Once max_unexpected_reboots resets have hit the session, run_phases starts
\* no further phase.
NoPhaseAfterTooManyResets ==
    [][AllSaved /\ resets >= MaxUnexpected => starts' = starts \/ pc = "start"]_vars

\* _resume never takes a planned reboot for a crash, even when one of the
\* saves that announce it fails: the session counts no more unexpected
\* reboots than the machine really had.
PlannedRebootIsNoCrash ==
    mem.unexpected_reboots <= MaxResets - left.resets

\* PowerCyclePhase reboots the machine at most reboot_cycles times, however
\* often it is interrupted on the way.
RebootBudget == reboots <= RebootCycles

\* run_phases announces a reboot only when the disk tests are over, and says
\* so on the stick: the next boot must not start them again.
DisksEndBeforeReboot ==
    disk.planned_reboot # 0 => disk.disk_tests_finished /\ ~disks_up

\* _resume picks "the" running phase: the record never holds two.
OneRunningPhase ==
    \A p, q \in Phases : disk.phases[p] = "running" /\ disk.phases[q] = "running"
                         => p = q

\* With finitely many resets and deaths the run ends with a report: neither
\* the resume logic nor the planned reboots can keep it going for ever.
RunEnds == <>(pc = "done" /\ report # "none")

-----------------------------------------------------------------------------
(* What the documentation says and the code does not do: each is violated. *)

\* README: "When the machine resets, the next boot detects it, ... reports a
\* FAIL".  _resume saves the new boot before record_incident adds the finding;
\* a death of the program in between turns the reset into a mere restart, and
\* the run can end in PASS WITH WARNINGS.
ResetIsNeverAccepted == Accepted => resets = 0

\* README: "`q` twice: abort (the report is marked INCOMPLETE)".  run_phases
\* looks at reboot_request before abort_event, and a resumed session does not
\* read abort_reason.
AbortMarksIncomplete ==
    report # "none" /\ abort_asked => report \in {"INCOMPLETE", "FAIL"}

\* README: index.csv has "one line per finished run".  finalize ends the
\* session before it writes the report; nothing comes back to it.
FinishedRunIsReported ==
    pc = "start" /\ disk.status \in {"complete", "aborted"} => report # "none"
=============================================================================
