# PC-Check in TLA+

PC-Check burns in a PC from a live USB stick: it collects an inventory, runs
stress phases for hours while monitor threads watch the hardware, scans the
disks, reboots on purpose, and ends with a verdict (PASS, PASS WITH WARNINGS,
INCOMPLETE, FAIL). The machine under test is expected to misbehave: it resets,
loses power, and takes the test program with it. What is hard about the program
is therefore not the stress load but the bookkeeping around it: what is on the
stick when the machine goes down, and what the next boot makes of it.

This directory models that bookkeeping. All source paths are relative to
`src/src/pccheck/`.

## 1. Inventory

| Component | State | Operations | Interacts with |
|---|---|---|---|
| Session record (`session.py`) | `state.json`: status, boots, phases, reboot counters, disk progress; lock, `_seq` | open, `_resume`, save, update, set_phase, finish | every thread saves; read back by the next boot and by the report |
| Rotating slots (`util.py`) | two files per record, sequence number | write_rotating, read_rotating, atomic_write, sync_storage | used by session and findings |
| Findings (`findings.py`) | dictionary, dirty flag, `_seq`, current phase | add, escalate, flush, verdict | added to by all threads; read by run_phases and report |
| Orchestrator (`orchestrator.py`) | Context: abort_event, reboot_request, monitors | main, record_incident, run_phases, perform_reboot, finish_disk_tests, finalize | drives everything else |
| Phases (`phases.py`) | deadline, child processes | run of eight phases | findings, session (power cycles), abort_event |
| Disk tests (`disks.py`) | scans, writers, `disk_scans`, `selftests` | start, pause, progress, stop, SMART | scan threads; Heartbeat saves their progress |
| Monitors (`monitors.py`, `ras.py`) | counters with per-boot cursors, a lock per monitor | poll, by its own thread and once more by `finalize` | findings; critical temperature aborts; Heartbeat saves the session |
| Kernel messages (`kmsg.py`) | position in the ring buffer, lines not yet logged, `last_seq` | read, classify, log | findings; the session carries `last_seq` |
| Report (`report.py`) | none | coverage_gaps, build, write_reports | reads session and findings from the stick |
| Storage (`storage.py`) | where the data partition is mounted | find, create, mount | decides `persistent` |
| Console (`dashboard.py`, `__main__.py`) | confirmation and abort requests | keys, `pccheck abort` | abort_event, pending_confirmation |
| Options (`config.py`) | options, plan | load_options, build_plan | copied into the session |
| Child processes (`util.py`), y-cruncher (`ycruncher.py`), inventory (`inventory.py`) | processes, parsed logs, baselines | start/wait/stop, parse, compare | phases, finalize |

What makes each component correct, and hard to test:

* **Session and orchestrator**: across any number of resets, deaths and restarts
  of the program, the verdict must be earned by phases that ran; a reset must
  not be taken for something harmless, nor a planned reboot for a reset; the run
  must end. Interruptions can come between any two saves, saves can fail, and
  the operator or a sensor can abort at any time.
* **Rotating slots**: a power cut in the middle of a save, repeated failing
  attempts and torn directory entries must not lose what was saved before.
* **Findings**: several threads write without a common lock; the final report
  must still hold every finding.
* **Disk tests**: progress is persisted by another thread than the one that
  makes it; reboots must not interrupt them.
* **Monitors and kernel messages**: counters start over with every boot, while
  the session that holds their cursors survives it. The same error may be met by
  the monitor's thread, by the final sample of the main thread and by the kernel
  log; it must be counted once, and enough of them must become a FAIL.
* **Phases and child processes**: a tool may hang, crash, end early, ignore
  signals or lie with its exit code, and an abort may come at any moment. The
  phase must end, leave nothing running, and report neither too little (a PASS
  that nothing stands behind) nor too much (a FAIL of its own making).
* **SMART**: baselines and self-tests outlive restarts and reboots; what is
  compared at the end must belong to the same drive and to this run.

`PROJECT.json` lists the hazards one by one, at their lines.

## 2. Modules

| Module | Models |
|---|---|
| `Session` | the session record as a value: a fresh one, why it is resumed, what `_resume` makes of it |
| `Verdict` | findings, the status of a phase, coverage gaps, the verdict |
| `BurnIn` | the main thread from `main` to the index line, against resets, deaths, aborts, findings, failing saves, the heartbeat; extends `Verdict`, which extends `Session` |
| `MCBurnIn` | a plan for TLC |
| `RotatingStore` | `Session.save` over `write_rotating` over a file system that loses unsynced entries |
| `DurableCell` | what such a store promises: the abstract specification `RotatingStore` implements |
| `DiskTests`, `MCDiskTests` | the disk tests: question, scans, writers, progress, stop, across a death of the program |
| `FindingsStore`, `MCFindingsStore` | `Findings.add`, `escalate` and `flush` by several threads |
| `Counters`, `MCCounters` | one source of hardware errors between its monitor, the kernel log reader, the heartbeat, the saves and the final sample, over restarts and resets |
| `Workloads`, `MCWorkloads` | a stress phase and its tools: `ManagedProcess`, the seven workload phases, what they conclude |
| `SelfTests`, `MCSelfTests` | SMART baselines, self-tests and final comparison over restarts and reboots |
| `StickSessions`, `MCStickSessions` | one stick over several machines and boots: where `setup_storage` puts the sessions, and which of them `Session.open` takes up |
| `BurnInProofs`, `CountersProofs`, `DiskTestsProofs`, `FindingsStoreProofs`, `RotatingStoreProofs`, `SelfTestsProofs`, `StickSessionsProofs`, `WorkloadsProofs` | proofs about the module of that name |

### BurnIn

Variables come in four groups. *On the stick*: `disk` (the newest session
record), `findings`, `report`. *In the memory of the program*: `mem`
(`Session.state`), `pc`, the loop position `i`, where the disk procedures return
to (`ret`), why the session was resumed (`reason`, `hit`), `Findings.current_phase`
(`cur`), `abort`, `reboot_request`, `disks_up`. *Environment*: whether the
storage is persistent, and how many interruptions are `left`. *History*, for the
properties only: phases that ran, starts, resets, deaths, reboots, aborts.

Each action of the main thread ends where something becomes durable or where
another thread can step in. A save is one step that either reaches the stick or
fails with the logged `OSError`; `RotatingStore` looks inside it. A finding is
on the stick when `add` returns; `FindingsStore` looks inside that.

Abstractions: a finding is its severity, its `incomplete` flag and its phase
(INFO findings influence nothing). Adding a worse finding keeps the weaker one in
the set, which changes neither the phase status nor the verdict. All disk scans
together are none, started or done. The work of a phase has four outcomes: done
(possibly with a warning), cut short with a finding, aborted, raised. The
monitors appear as `HardwareFinding`, `CriticalTemperature` and `Heartbeat`, which
are enabled only while the threads exist (`Watching`). The reboot commands of
`perform_reboot` are taken to work. `Context.request_abort` saves and then sets
the event; the model does both in one step.

### DiskTests

`BurnIn` sees the disk tests as none, started or done; this module opens them. *On
the stick*: the `disk_scans` entries (`saved`), the answer about the destructive
test (`kept`), `disk_tests_finished` (`ended`) and the findings. *In memory*: the main thread (`main`, `victim`: the
writer `stop` is terminating), `DiskManager.state` (`entry`), the answer
(`choice`), one `SurfaceScan` and one `WriteVerify` per disk, the events (`stopping`,
`paused`, `pending`, `cancel`). *Environment*: the unreadable chunks. *History*:
the chunks scans have tried, the disks fio has verified, whether the last save has
failed (`failing`), and whether a death fell while the stick called a test done too
early (`struck`; section 4).

Each scan is a thread of its own with a step per iteration (stop event, running
event and read, exit, report); the heartbeat's `save_progress` can come between
any two of them and between the steps of `stop`, which terminates one writer after
the other: fio exits, `done` is set, the entry is marked incomplete. `finished()`
takes any exit of fio but success for a fault of the disk, whoever asks: the
heartbeat, a scan's report, the wait of the main thread, or `stop`.

Every save either writes the whole record or fails, as the `OSError` that
`Session.save` logs: no caller learns of it, and `start_disk_tests` goes on to start
fio. Saves that come with no progress, of other monitors or of `smart_final`, are
`OtherSave`.

Abstractions: a finding is on the stick once it is added (`FindingsStore` looks
inside). A disk is a few chunks. The safety discovery either
accepts all eligible disks or skips all disks, and may refuse each of them when
the scans start. Slow reads, INFO findings, SMART and self-tests are left out. The
join of the scan threads may time out at once.

### RotatingStore and DurableCell

The n-th state handed to `save` is the number n. `cache` is what the running
system sees of the two slots, `platter` what is on the medium; `os.replace`
changes the first, `syncfs` or the kernel's write-back the second. A power cut
leaves of an unsynced slot the old copy, the new one or garbage, which is what
`sync_storage` says of vfat. `DurableCell` keeps the value a cut would leave at
least (`acked`), newer ones it may leave (`maybe`) and whether the promise is off
(`disturbed`): an attempt or its sync failed, or the program died before the sync,
since the last save that succeeded. Then the slot of the newest durable copy may
be the one written next. The mapping is at the end of `RotatingStore`.

### FindingsStore

`atomic_write` is taken apart into open, write and replace because two flushes
of the same parity use the same `.tmp` name: the second truncates the file of the
first, and whoever replaces first moves it away under the other, whose
`os.replace` then fails. Files are model values with a content; `tmp` and `slots`
are names.

### Counters

`BurnIn` has hardware findings come out of nothing; here they come from errors. An
error source is one of the cursor disciplines of the code (the list is in the
module): what a cursor starts from, whether it is kept per boot, who saves it,
whether the kernel log tells of the same error, whether there is a threshold. One
behaviour follows one source, chosen in `Init`. *In memory*: the cursors
(`session`: the monitor's and `last_seq`), the finding (`items`: count, severity,
and the coverage findings about the source), `_dirty`, and where each of four
threads is (`pc`; `then` is where it goes on after a flush). *On the stick*:
`stored`, `saved`, `logged` (kernel.log). *Environment*: `errors`, the value of the
counter or the length of the kernel log; `left` bounds it.

A poll is taken apart where another thread or a death can come between: lock,
read, `add`, threshold, cursor, unlock, and every flush into snapshot and write as
in `FindingsStore`. `Save` may come at any time, since every thread that saves the
session saves all cursors. `AddFinding` includes the rule that a new finding counts
at least one: this is how the kernel log, which passes a count of 0 for errors a
monitor counts, adds one to them when it comes first.

Left out of the properties, by name: deaths that fall into a flush of another
thread (`torn`), as `FindingsStore` shows that `add` may then return too early;
restarts on the same boot where cursors may be behind what was counted (`died`);
and kernel records that were overwritten before the device was opened (`unseen`),
which no part of the program could notice.

### Workloads

Variables: the phase and its local state (`pc`, rotation `todo` and `i`, the child
it waits for, deadline, exit code, `hung`), the children, whether the disk scans
are paused, the findings, the abort event, a clock. A child is a process group:
running, exited or stuck in an uninterruptible sleep, stopped by SIGSTOP or not,
signalled or not, and what its output holds (`told`: a reported wrong result;
`complete`: the evidence of success). `Tell` and `Exit` are the tools' own: any exit
code of the classes the code tells apart, with or without evidence, early, late or
never. *History*: which tools completed a verified run, which found a fault, which
outlived their time, and which something was not right with.

`wait`, `stop` and the checks are one set of actions that all phases share
(`Foreground`, `WaitReturns`, `Expire`, `BeginStop`, `EndGrace`, `Check`), as
`ManagedProcess` is one class; each phase adds its own sequence. Time advances in
ticks, each long against the polling interval: `Tick` waits until nothing that a
wait would have noticed is pending. The seconds of the code become a few ticks
(`Slice`, `SatShare`, `Slack`, `Grace`).

Any tool may die of a signal. For stress-ng and y-cruncher some exit codes tell of
a wrong result or a crash (`fault` in `Codes`); the crash of stressapptest, of
Prime95 or of stress-ng itself is a gap to the code (phases.py:138, 215, 331) and
is one here. The properties follow the code where it does not look: the output of
a stress-ng or stressapptest run that was stopped is not read at all; what becomes
of Prime95 in its last minute is not asked; a y-cruncher that crashes after its time
was up is a gap, since its exit code is no longer read; and an abort makes it a gap.

An exception may come before a tool is started (`Raise`: the memory budget may be
too small, the configuration may not be written), and after y-cruncher has ended:
its log or the file of its evidence may meet an `OSError` before `check_result` is
reached, and what it had printed is lost to a gap of the phase (`LoseResult`).
For the other tools the model takes it that what they printed can be read:
`output_tail` makes an unreadable log an empty one, which the code then treats as
missing evidence, a gap, whatever had been printed beyond the exit code.

The rotation of the CPU phase is as the code has it, index and shrinking list
included. The commands' arguments and the load pattern (`Pulse`) are data.

### SelfTests

A drive has a counter of defects, a newest log entry and perhaps a test under way;
`at` says which drive a device name means on this boot. The session's part is a
record (`memory`, `stick`): baseline and test per *name*, inventory done, disk tests
finished. The main thread reads baselines, starts tests, waits, compares, saves,
and does the comparison once more after the planned reboots. `Die` and `Reboot`
go back to what the stick holds; a reboot may interrupt tests and rename drives.
Log entries show hours, so that a new entry can look like an old one, which is why
the code also looks at `observed_running` and the boot.

`smart_final` notices another drive under a name only by the serial number in the
baseline (disks.py:394). Drives that have none (`Anonymous`) are taken for whatever
drive has their name at the end: they are compared with it and may be credited with
its test, without a finding. The history `mixed` has the names where that happened,
which both properties of the run name as their exception. `CompareNothing` is a
drive that smartctl tells nothing of.

Abstractions: findings are on the stick once added; one metric stands for all;
drives are visited in one order; absolute SMART limits, which depend on nothing
but the current report, and an exception in the inventory (a gap of its own) are
left out.

### StickSessions

`BurnIn` follows one session and takes for granted that a boot finds it. This
module looks at how it is found. *On the stick*: whether there is room for a
partition, whether the boot medium can be written (a stick made from files and not
from the image), the state of PCCHECKDATA, and per root the session directories
with status and machine, and the pointers. *In the machine*: which one it is, the
identity it goes by, the place of its program in `setup_storage`, `Session.open` and
`finish`, the root, the session. *History*: whether a start ever went past a place
that had been in use (`slipped`), whether a partition was added and never formatted
(`spoilt`), what searches did not reach (`forgotten`), which sessions were closed, and
which machines have run each.

`setup_storage` is taken apart at its four choices and between sfdisk and mkfs;
`open` between the directory, the first save and the pointer; `finish` between the
save and the removal of the pointer. A death can fall between any two, and each
step on the stick may fail in the way the code handles it: a failed save is
logged, a pointer that cannot be written ends the program, one that cannot be
removed is ignored. Between boots a pointer may be lost.

Abstractions: names of directories are numbers in the order in which names sort; a
new one is the last, or the first when a clock was lost, and never one that
exists. What a resumed session goes on with is the subject of `BurnIn`. Sector
arithmetic, the loop device over a busy disk and a second stick are left out.

## 3. Runs

| Run | Result | What it shows |
|---|---|---|
| `burnin` | pass | with all saves succeeding: no interruption hides behind a plain PASS, no stress phase runs twice, nothing starts after too many resets, and the run ends with a report |
| `burnin_saves` | pass | with one failing save, one reset and one finding: acceptance is earned, disk tests end before a planned reboot, no phase is left running when another begins, and planned reboots are neither taken for crashes nor repeated beyond `reboot_cycles` |
| `burnin_reset` | violation | a reset can be recorded as a restart only (finding 1) |
| `rotating_store` | pass | refinement of `DurableCell`; a restart finds the last save |
| `disk_tests` | pass | with any save failing: an entry that is done was covered in full or its disk has a fault; errors met are reported when no death intervenes; fio runs only when the yes is on the stick, or while every save since the yes has failed |
| `findings_store` | pass | the last flush is complete; old slots do not come back |
| `counters` | pass | no error is counted twice; the final count is complete; a cursor on the stick has its finding there; the threshold becomes a FAIL, also across a restart, and reaches the stick whenever the heartbeat comes; what `last_seq` has passed is in kernel.log |
| `workloads` | pass | every phase ends, whatever its tools do, and leaves none running; a phase that reports nothing has had its tools verified; findings are about tools that earned them; wrong results that tools tell of become a FAIL |
| `workloads_rotation` | violation | the stressor behind an unsupported one is passed over (finding 2) |
| `selftests` | pass | a test counts as completed only for the drive of the baseline and in this run; silence means that every drive was compared and passed; both but for a drive without a serial number that another one was taken for |
| `selftests_names` | violation | a drive is failed for another drive's counters (finding 3) |
| `stick_sessions` | pass | the unfinished session of a machine is the one that is taken up; a closed one, or one of another machine, never is; a run is in RAM only when the stick gives nothing better |

**Bounds.** The plan is inventory, one stress phase, power cycles: every kind of
entry `run_phases` tells apart, in the order `build_plan` gives. Two resets reach
`max_unexpected_reboots` = 2; a death on top of them lets every interruption be
interrupted itself; two cycles make the count of cycles matter. One failing save
at any point is enough for every pair of records that can differ. For the store,
four saves go twice round the slots, with two failures, deaths and cuts and two
attempts per save (the code has five; the violation run uses five). For the
findings, two monitors and the main thread can hold three snapshots, two of
which share a slot; three calls give each thread one. The monitors and keys are
interchangeable, hence the symmetry. For the disk tests, one disk that may be
written and one that may not, of two chunks: with two read errors as the limit, a
scan can skip a chunk and go on, and a disk both of whose chunks are bad makes it
give up. The other set of bad chunks has one, on the disk that may be written: its
scan skips it, its writer fails. One death lets a second program continue; saves may
fail without a bound.

For the counters, two errors with a threshold of two are the least that can be
counted in two polls or in one, by one thread or by two, before or after a
restart. A ring buffer of one record is overrun by the second, and a batch of two
is filled or not. Which faults (a poll that raises, a death, a reset) each source
meets is chosen per source in `MCBounds`: those its cursor could go wrong at.
Throttling (AER without a threshold) is not run separately. For the workloads, a
duration of three ticks has two stressors pass through the rotation more than
once with a slice of one, and lets a tool be early, in time, late or hung; the
violation run has four stressors in a phase that just fits one rotation, as 45
seconds or more of 1/22 of the phase do. For the self-tests, two drives, one of
which has no serial number, and one name: a boot can put either drive behind the
name, so each can be the one that is taken for the other; they are not
interchangeable. Three starts are a first one, a reboot and another interruption of
it. In `selftests` all log entries are of one hour, so that a new entry that has the
outcome of the old one equals it; the hours of `selftests_names` may differ.

For the stick, one machine with a serial number and one that only has a MAC, which
some boot may not show. Four sessions per root exceed the two that the search looks
at (50 in the code), and three boots are a run, another machine or a second try in
between, and a return. One death and one failing operation can meet at any step;
the run has also been made with two failing operations and with four boots.

**Deadlock** is checked where a run that is over goes on serving its result
(`ServeResult`, `Finished`, `Over`). A phase that has returned and the SMART
procedure that has ended really stop, so `Workloads` and `SelfTests` are run with
`CHECK_DEADLOCK FALSE`; that a phase does not stop before its end is what
`PhaseEnds` says. A stick that has been in its last machine stops too
(`StickSessions`).

**Fairness** (`FairSpec`, in `burnin`): weak fairness of the main thread (it waits for
nothing without a timeout), of booting (a machine that never boots again has no
run to end) and of the service restart (`Restart=on-failure` in
`pccheck.service`). Nothing is assumed of the operator, the hardware, the disk
scans or the heartbeat. Resets and deaths are finitely many by their bounds. In
`counters`: weak fairness of the service start, of polls and flushes that have begun
or are due, and of the kernel log reader, each a thread with bounded waits; none of
the heartbeat, of saves or of the end of the run. In `workloads`: weak fairness of
the phase, strong fairness of time (the load steps come and go between ticks), none
of the tools: a child need not ever end.

## 4. Findings

1. **A reset can become a restart** (`session.py:201`). `_resume` saves the new
   boot before `record_incident` adds the FAIL. A death of the program in
   between makes the next start see its own boot.
2. **A CPU stressor can be passed over** (`phases.py:158`). The list shrinks and the
   index goes on. A phase is usually one rotation (22 slices of 45 seconds or
   more), so the stressor behind an unsupported one is never run, without a gap.
   In short profiles most stressors do not get a slice in the first place.
3. **A drive can be failed for another's counters** (`disks.py:400`). `smart_final`
   notices the changed serial number, and compares all the same.

### Further disagreements

These are stated in the modules and reproduced by configurations that are not
among the regular runs (`tlc -config <file> <module>` finds each in seconds):

* **An abort can be lost** (`orchestrator.py:368`; `AbortMarksIncomplete`,
  `BurnInAbort.cfg`). The reboot request is looked at before the abort, and a
  resumed session does not read `abort_reason`; README.md:152 says that an aborted
  run is marked INCOMPLETE.
* **Read errors can be forgotten** (`disks.py:485`; `ErrorsAreNotForgotten`,
  `DiskTestsForgotten.cfg`). The offset of a scan is persisted, its errors are not:
  a scan that is resumed after a death goes on behind a chunk it could not read. The
  kernel message monitor may still have it. disks.py:204 says "resumable after
  reboot".
* **A finished run can stay unreported** (`orchestrator.py:451`;
  `FinishedRunIsReported`, `BurnInReport.cfg`). The session is closed before its
  report and index line are written.
* **Both slots can be lost** (`session.py:207`; `NeverBothCopiesLost`,
  `RotatingStoreCut.cfg`). Failed attempts use up sequence numbers, so two
  successful saves in a row may go to the same slot.
* **An urgent finding may not be on disk** (`findings.py:143`; `UrgentIsOnDisk`,
  `FindingsStoreUrgent.cfg`). Another thread may have taken the dirty flag and not
  written yet.
* **A deliberate stop can become a hardware failure** (`disks.py:528`;
  `DeliberateStopIsNoFault`, `DiskTestsStop.cfg`). Until `stop` sets `done`, the
  heartbeat may ask the writer it is terminating.
* **A FAIL may need one error less** (`kmsg.py:199`; `FailNeedsThreshold`,
  `CountersOwner.cfg`). "The sysfs monitor owns the count", but the finding that a
  kernel message creates counts one.
* **A FAIL may be missing at a threshold of one** (`kmsg.py:199`; `ThresholdFails`,
  `CountersThreshold.cfg`). `aer_fail=1` is a valid option (config.py:146), and
  README.md:190 calls it the "event counts that turn a warning into a FAIL". A
  message that the kernel log reader meets after the final sample creates the
  finding, with a count of one, and nobody compares it any more. With the default
  of 20 this cannot happen.

### Exceptions that the properties name

What a property leaves out is what the code does there, stated as narrowly as it
holds:

* **A test can be done too early** (`DoneIsEarned`; disks.py:274, 529). A scan sets
  `done` before its report, `stop` sets a writer's `done` before it marks the entry.
  A save in between (the heartbeat's) has the stick say done. A death is left out
  (`struck`) while that is so (`DoneTooEarly`): for a scan until its report; for a
  writer until the next save that works after the mark. `stop` itself does not
  save: if no heartbeat or monitor does, the next save is at the end of
  `smart_final`, which may wait for self-tests for half an hour. All other deaths
  during `stop` and `smart_final` are covered.
* **fio can run without the answer on the stick** (`WritesAreChosen`;
  session.py:212-214). The save of the answer may fail, which is only logged; until
  a later save works, a death lets the next start ask again.
* **A drive without a serial number can be taken for another one** (`CreditIsEarned`,
  `SilentRunTestedEveryDrive`; disks.py:394). See `SelfTests`.
* **A wrong result of y-cruncher can be lost** (`FaultsAreReported`;
  phases.py:250-256, ycruncher.py). Either an exception comes before
  `check_result`, which leaves a gap of the phase, or it outlives its time and its
  exit code is not looked at.
* **Sessions whose saves fail** are left out of `PassHidesNoInterruption`,
  `StressRunsOnce` and `NoPhaseAfterTooManyResets`: each rests on what the last save
  left. `burnin_saves` has the properties that hold with a failing save.

## 5. Proofs

TLAPS proves 37 theorems, each for every value of the constants: plans, disks,
drives, machines, threads, sources of errors, and the bounds on the environment.
They state every invariant that a passing run checks, one action property, and the
refinement. They rest on the assumptions named in the
modules, which TLC evaluates in every run: what `build_plan` guarantees
(`PlanAssumption`), ranges of options and bounds, that there are finitely many
monitors (`FindingsStore`, where a write needs a file that is not in use), that
the values which stand for no machine and no MAC are not machines
(`StickAssumption`), that there are finitely many drives and at least as many as
names (`SelfTestsAssumption`), and that the stressors have names of their own and the index of
the rotation, a number modulo `Wrap` here, has the same remainder by the length of
every list of stressors as the index itself (`WorkloadsAssumption`). None of the
invariants is inductive as it stands; each proof has a lemma per action or group of actions, and an invariant that carries what the
property needs.

* `BurnInProofs!TypeCorrect`: `[]TypeOK`. That `i` stays within the plan needs to
  know where the main thread is and where the disk procedures return to (`Placed`).
* `BurnInProofs!AcceptanceCorrect`: `[]AcceptanceIsEarned`. The verdict is
  computed from `disk` and `findings` only, while `ran` is a history of what
  happened on any boot, so `AInv` has to carry the link through every save, failed
  save and reset: every good status of a phase, in memory and on the stick, is
  backed by a run of that phase (`Backed`); a phase that returned ran or left a
  reason for a bad status (`Settled`); a session in RAM carries a gap (`Marked`);
  and a complete record on the stick is the one the program held when it finished
  (`Closed`).
* `BurnInProofs!DisksEnd`, `OneRuns`, `PlannedIsNoCrash`, `RebootsBounded`,
  `RunsOnce`, `PassIsUninterrupted`, `NothingAfterTooManyResets`. An interruption
  finds the stick at the last save that worked, so `JInv` says of every place of the
  main thread what the record on the stick may be: the disk tests are over before
  a reboot is announced (`DisksSettled`); power cycling comes last, and the phase
  that runs is the one the main thread is in, or the one `_resume` found
  (`Ordered`, `Positioned`). A reboot is announced by `PowerCyclePhase`,
  `run_phases` and `perform_reboot`, each with a save (`OnStick`), so that it takes
  three failing saves to lose the announcement. Hence the hypothesis of two
  theorems, at most two failed saves (`Failed(2)`): then what a resume will
  count keeps step with what happened (`Counted`). The hypothesis is needed: TLC
  finds `PlannedRebootIsNoCrash` violated with three failing saves, `RebootBudget`
  with four. A session all of whose saves worked has memory and stick agree (`Saved`),
  counts each reset (`ResetsCounted`) and has a finding for each interruption, or
  is just before it (`Noticed`).
* `DiskTestsProofs!TypeCorrect`, `DoneEarned`, `ErrorsReported`, `WritesChosen`.
  The invariant is a conjunction over disks (`PerDisk`): the scan's position and what
  it has tried (`ScanSound`), what the writer's process stands for (`WriterSound`),
  what an entry that is done rests on, in memory (`EntryIsEarned`) and saved
  (`SavedIsEarned`), and that errors met since the program started are still in the scan or already
  reported (`ErrorsKept`). Beside it stand the order of the question and the start
  (`Before`, `Asked`) and what the end of the disk tests leaves (`Ending`). A save may
  fail at any step, so what is saved is not tied to memory: an entry that is done on
  the stick is earned there, or is done too early and known to be so.
* `RotatingStoreProofs!TypeCorrect`, `RestartFinds`, `Implementation`. A copy lies in
  the slot of its number (`InItsSlot`), and over both slots, on the medium and in the
  system's view, larger numbers mean later states (`Ordered`). While nothing went
  wrong, only the copy just written is not on the medium, and it has not
  replaced the newest one there (`Undisturbed`): this makes a power cut a step of
  `DurableCell`. The refinement is proved action by action.
* `FindingsStoreProofs!TypeCorrect`, `NeverAhead`, `LastFlushComplete`. Every file
  that has a name or is held open contains something found earlier, with a number
  given earlier (`Behind`); which thread holds which file (`Held`); numbers of
  snapshots in the order they were taken (`Ordered`); and once the monitors have
  stopped, the main thread's file is nobody else's (`Alone`).
* `CountersProofs!TypeCorrect`, `OnceCounted`, `CountsTheLast`, `HaveEvidence`,
  `ThresholdIsFailed`, `LogHasThePassed`. Any thread may be inside a flush anywhere, so
  the invariant speaks of where a thread is or goes on afterwards (`Where`), and
  of what is on its way to the stick: there already, in a snapshot that is being
  written, or taken by a flush that is due (`Arrives`). `Counted` is the point up to
  which the errors of this boot are in the finding, ahead of the cursor while a
  poll is between `add` and the cursor; the count lies between bounds given by it
  (`NotMore`, `NotLess`). A count at the threshold is FAIL, or somebody is about
  to compare it (`Escalates`), and nothing changes after the last flush of a run that
  ended quietly (`Quiet`). `ThresholdIsFailed` has the hypothesis
  `Threshold > Extra`: it leaves out a threshold of one for errors that both a
  monitor and the kernel log tell of, where the property is false (section 4).
* `SelfTestsProofs!TypeCorrect`, `CreditCorrect`, `SilentCorrect`. What is credited, in
  memory and on the stick, is backed by a test of the drive behind the name since its
  baseline, by the recorded change of identity, or by a drive without a serial number
  that was mixed up (`Sound`). That needs to know that a
  test started on this boot is under way until the drive logs its outcome
  (`UnderWay`, `Logged`) and that a baseline does not change once it is saved (`Kept`).
  For silence, drives never count back (`Outgrown`), and as long as there is no
  finding every name has a baseline once the inventory is done, and each name compared
  has passed (`Silent`).
* `StickSessionsProofs!TypeCorrect`, `UsesRoom`, `OwnSession`, `LeavesNone`. Where a
  run is kept follows from how the stick came to look as it does (`Stored`), whose
  session it is from who has run it (`Owned`). For the last one: of a machine's
  sessions a search can still miss one at most (`OneRemembered`), and it takes none
  that an earlier search missed before it (`MissedAreHidden`), since names that sort
  after a missed one only become more: an argument about the cardinality of a set
  of names (`Counting`), with names in a row (`InARow`) so that a new one exists.
* `WorkloadsProofs!TypeCorrect`, `CleansUp`, `FindingsEarned`, `FaultsReported`,
  `SilenceEarned`. The seven phases share their waits, so each action is first reduced
  to what it does to one tool (`Move`), and the rest of the argument speaks of moves.
  At each place of the phase it is known which tool it looks after and which
  may run beside it (`Shape`), and how late it can be (`Timed`). What a tool left when
  it ended says what it did, unless a signal of the program ended it (`Sound`), and
  what `wait` answered is true when the check looks at it (`Answered`). A fault that is
  not in the findings is about to be looked at (`Pending` in `Faults`), or its check
  was lost, and then the phase has a gap; a finding says
  something that happened (`Earned`), and a stressor that was taken out of the rotation
  was unwell (`Dropped`). For silence, a tool that ended well is verified for as long
  as the phase looks after it (`Certified`), and as long as there is nothing to
  report every tool the phase has behind it is credited (`Behind`, `Silent`); in the
  rotation a first stressor is verified before any time has passed it by (`Settled`).
  This needs that a load of the transients which ended early is reported
  (`Curtailed`) and that the combined phase looks at its loads after its tool
  (`Relisted`).

Only model-checked: liveness (`RunEnds`, `FailReachesTheStick`, `PhaseEnds`), which
under fairness is outside TLAPS here. The properties of the runs that expect a
violation are refuted, not proved.

## 6. Not modelled

Rendering (report text, HTML, dashboard, web server), the image build, parsing
of tool output beyond what the properties tell apart, inventory reads. The sensor
limits and the BMC's sensor readings keep at most a streak; the PCIe link, taint
and power-cycle comparisons are one-step functions of two readings. A fault that
recurs at every start of the program (`orchestrator.py:536`) would need unboundedly
many deaths. Not yet modelled: section 7.

## 7. Plan

1. `build_plan` with the validation of options, as operators checked against what
   `PlanAssumption` says of a plan.
2. Abstract specifications of what `FindingsStore` and `Workloads` promise, and proofs
   that they implement them; the safety part of `FailReachesTheStick` as an invariant.
