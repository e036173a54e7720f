----------------------------- MODULE Workloads -----------------------------
(***************************************************************************)
(* One stress phase of phases.py and the tools it runs as children: how    *)
(* ManagedProcess waits for them, stops them and kills them, and what the  *)
(* phase concludes from exit codes and output (ycruncher.py included),     *)
(* while the operator or the thermal guard may abort the test at any time. *)
(*                                                                         *)
(* A child is its process group.  Its output is abstracted to "told" (it   *)
(* has printed a calculation failure) and "complete" (the evidence of      *)
(* success is there).  Time is counted in ticks that are long against the  *)
(* second between two polls, so a wait notices an event before the next    *)
(* tick; the 5, 10, 20 and 30 seconds of the code vanish in one.           *)
(***************************************************************************)
EXTENDS Naturals, SequencesExt

CONSTANTS
    Phases,      \* the phases to consider
    Stressors,   \* CPU_STRESSORS
    Duration,    \* Phase.duration
    Slice,       \* slice_s: the share of one stressor
    SatShare,    \* stressapptest's 70% of the memory phase
    Slack,       \* how long a late child is waited for (120, 300 or 600 s)
    Grace,       \* and a signalled one, before SIGKILL (10, 45 or 60 s)
    Wrap         \* the rotation's index is kept modulo Wrap

ASSUME WorkloadsAssumption ==
    /\ Phases \subseteq {"cpu", "memory", "mprime", "ycruncher", "transient", "idle", "combined"}
    /\ Stressors \in Seq(STRING) /\ Stressors # <<>>
    /\ Duration \in Nat \ {0} /\ Slice \in 1..Duration /\ SatShare \in 1..Duration
    /\ Slack \in Nat \ {0} /\ Grace \in Nat \ {0}
    /\ Wrap \in Nat \ {0} /\ \A n \in 1..Len(Stressors) : \E k \in 1..Wrap : k * n = Wrap
    /\ Range(Stressors) \cap {"vm", "matrix-fallback", "transient", "stressapptest", "y-cruncher",
                             "mprime", "disk", "iperf3", "phase", "no job"} = {}

VARIABLES
    phase,      \* which phase this is
    missing,    \* its tool is not in the image; for "combined", no iperf3 peer
    clock,      \* ticks since the phase began
    abort,      \* abort_event
    pc,         \* where the phase is
    todo, i,    \* tools still to run (for "cpu" the rotation, and its index)
    job,        \* the child it is busy with
    until,      \* the deadline of the wait it is in
    result,     \* the exit code the wait returned, or "none"
    hung,       \* the local of that name
    child,      \* the processes
    paused,     \* DiskManager.pause is in effect
    findings,   \* <<severity, about>>: "fail", "gap" (WARN, incomplete) or "warn"
    (* history *)
    verified,   \* tools whose verified run was completed
    faulty,     \* tools that printed a wrong result, or whose exit code tells of one
    late,       \* tools that outlived the time they were given and the slack
    unwell      \* tools, or the phase, that something was not right with

main  == <<pc, todo, i, job, until, result, hung>>
world == <<verified, faulty, late, unwell>>
vars  == <<phase, missing, clock, abort, main, child, paused, findings, world>>

Loads == {"disk", "iperf3"}
StressNG == Range(Stressors) \cup {"vm", "matrix-fallback", "transient"}
Jobs == StressNG \cup Loads \cup {"stressapptest", "y-cruncher", "mprime"}
NoJob == "no job"

\* These run until they are signalled, the others for the time they are given.
Endless == {"mprime", "transient"}

(* Exit codes: "odd" stands for 1, 3, 6 and 7 of stress-ng and for any other *)
(* failure, "fault" for 2 and 5 of stress-ng and for the signals by which    *)
(* y-cruncher crashes, "signal" for every other death by a signal: that of   *)
(* stressapptest, Prime95 or stress-ng itself, crash or not, is one of these.*)
Codes(j) == {"ok", "odd", "signal"}
              \cup (IF j \in StressNG \cup {"y-cruncher"} THEN {"fault"} ELSE {})
              \cup (IF j \in StressNG THEN {"unsupported"} ELSE {})

NoChild == [run |-> "none", code |-> "none", told |-> FALSE, complete |-> FALSE,
            frozen |-> FALSE, signalled |-> FALSE, since |-> 0, asked |-> 0]

Running(j) == child[j].run = "running"
Exited(j)  == child[j].run = "exited"

Remaining == IF clock < Duration THEN Duration - clock ELSE 0
Least(a, b) == IF a < b THEN a ELSE b

\* What each phase has to run, in order.
Plan(p, m) ==
    CASE p = "cpu"       -> Stressors
      [] p = "memory"    -> <<"stressapptest", "vm">>
      [] p = "mprime"    -> IF m THEN <<"matrix-fallback">> ELSE <<"mprime">>
      [] p = "ycruncher" -> <<"y-cruncher">>
      [] p = "transient" -> <<"transient">>
      [] p = "idle"      -> <<>>
      [] p = "combined"  -> IF m THEN <<"disk">> ELSE <<"disk", "iperf3">>

Init ==
    /\ phase \in Phases
    /\ missing \in (IF phase \in {"cpu", "transient", "idle"} THEN {FALSE} ELSE BOOLEAN)
    /\ clock = 0 /\ abort = FALSE
    /\ pc = (IF phase \in {"idle", "combined"} THEN "start" ELSE "next") /\ todo = Plan(phase, missing) /\ i = 0
    /\ job = NoJob /\ until = 0 /\ result = "none" /\ hung = FALSE
    /\ child = [j \in Jobs |-> NoChild]
    /\ paused = FALSE /\ findings = {}
    /\ verified = {} /\ faulty = {} /\ late = {}
    /\ unwell = IF missing THEN {"phase"} ELSE {}

-----------------------------------------------------------------------------
(* The children and the world.                                              *)

\* A tool that checks its results reports a wrong one.
Tell(j) ==
    /\ j \notin Loads /\ Running(j) /\ ~child[j].frozen /\ ~child[j].told
    /\ child' = [child EXCEPT ![j].told = TRUE]
    /\ faulty' = faulty \cup {j} /\ unwell' = unwell \cup {j}
    /\ UNCHANGED <<phase, missing, clock, abort, main, paused, findings, verified, late>>

\* Prime95 passes its first self-test.
PassSelfTest ==
    /\ Running("mprime") /\ ~child["mprime"].complete
    /\ child' = [child EXCEPT !["mprime"].complete = TRUE]
    /\ verified' = verified \cup {"mprime"}
    /\ UNCHANGED <<phase, missing, clock, abort, main, paused, findings, faulty, late, unwell>>

\* The time a child has run is the time it was given.
InTime(j) == clock >= child[j].since + child[j].asked

(* A child ends, on its own or at a signal, and leaves the evidence of       *)
(* success or not.  At its first start a tool may find that it cannot run.   *)
Exit(j, code, complete) ==
    LET c == child[j]
        whole == code = "ok" /\ complete /\ (InTime(j) \/ c.signalled)
    IN  /\ Running(j) /\ ~c.frozen
        /\ IF c.signalled THEN code \in {"ok", "signal"} ELSE code \in Codes(j)
        /\ code = "unsupported" => clock = c.since /\ j \notin verified
        /\ complete => IF j = "mprime" THEN c.complete
                       ELSE code = "ok" /\ (j \in Loads => InTime(j))
        /\ j = "mprime" => (complete = c.complete)
        /\ child' = [child EXCEPT ![j].run = "exited", ![j].code = code, ![j].complete = complete]
        /\ verified' = IF j = "mprime"
                       THEN IF c.signalled \/ clock + 1 >= Duration THEN verified ELSE verified \ {j}
                       ELSE IF whole /\ ~c.told THEN verified \cup {j} ELSE verified
        /\ faulty' = IF code = "fault" THEN faulty \cup {j} ELSE faulty
        /\ unwell' = IF whole \/ (c.signalled /\ (j \in Endless => complete)) THEN unwell ELSE unwell \cup {j}
        /\ UNCHANGED <<phase, missing, clock, abort, main, paused, findings, late>>

\* The operator, or the thermal guard, aborts the test.
Abort ==
    /\ pc # "over" /\ ~abort /\ abort' = TRUE
    /\ UNCHANGED <<phase, missing, clock, main, child, paused, findings, world>>

\* What ends a wait; the abort event is not watched once a child is being stopped.
Waits == {"wait", "grace", "pulse", "interrupt", "collect"}
Woken ==
    \/ job # NoJob /\ Exited(job)
    \/ clock >= until
    \/ abort /\ pc \in {"wait", "pulse", "collect"}

Overdue(slack) ==
    {j \in Jobs \ Endless : /\ Running(j) /\ ~child[j].signalled
                            /\ clock >= child[j].since + child[j].asked + slack}

Tick ==
    /\ pc \in Waits /\ ~Woken
    /\ clock' = clock + 1
    /\ unwell' = unwell \cup Overdue(0)
    /\ late' = late \cup Overdue(Slack - 1)
    /\ UNCHANGED <<phase, missing, abort, main, child, paused, findings, verified, faulty>>

Environment ==
    \/ \E j \in Jobs : \/ Tell(j)
                       \/ \E code \in Codes(j), complete \in BOOLEAN : Exit(j, code, complete)
    \/ PassSelfTest
    \/ Abort

-----------------------------------------------------------------------------
(* ManagedProcess.                                                          *)

\* The constructor, and the deadline of the wait for it.
Launch(j, seconds) ==
    child' = [child EXCEPT ![j] = [NoChild EXCEPT !.run = "running", !.since = clock, !.asked = seconds]]

\* Mutant of Signalled: no SIGCONT.
SignalledOnly(c) == [c EXCEPT !.signalled = TRUE]

Signalled(c) == [c EXCEPT !.frozen = FALSE, !.signalled = TRUE]

\* close, once the process has ended and its output has been read.
Closed(j) == [child EXCEPT ![j] = IF Exited(j) THEN NoChild ELSE @]

(* stop: nothing to do for a process that has ended; else SIGCONT and the    *)
(* signal, then the grace.                                                   *)
BeginStop(j) ==
    /\ job' = j
    /\ IF Running(j)
       THEN /\ child' = [child EXCEPT ![j] = Signalled(@)]
            /\ pc' = "grace" /\ until' = clock + Grace
       ELSE pc' = "stopped" /\ UNCHANGED <<child, until>>

\* Mutant of EndGrace: no SIGKILL.
EndGraceAtExit ==
    /\ pc = "grace" /\ Exited(job)
    /\ pc' = "stopped"
    /\ UNCHANGED <<phase, missing, clock, abort, todo, i, job, until, result, hung, child, paused, findings, world>>

\* SIGKILL, which a process in an uninterruptible sleep does not notice.
EndGrace ==
    /\ pc = "grace" /\ Woken
    /\ pc' = "stopped"
    /\ \/ Exited(job) /\ UNCHANGED <<child, unwell>>
       \/ /\ ~Exited(job)
          /\ \/ child' = [child EXCEPT ![job].run = "exited", ![job].code = "signal"]
             \/ child' = [child EXCEPT ![job].run = "stuck"]
          /\ unwell' = unwell \cup {job}
    /\ UNCHANGED <<phase, missing, clock, abort, todo, i, job, until, result, hung, paused, findings,
                   verified, faulty, late>>

-----------------------------------------------------------------------------
(* A tool in the foreground: run_stressng, run_stressapptest, and the waits  *)
(* of the y-cruncher and Prime95 phases.                                     *)

Foreground(j, seconds) ==
    /\ Launch(j, seconds)
    /\ job' = j /\ pc' = "wait" /\ result' = "none" /\ hung' = FALSE
    /\ until' = IF j = "mprime" THEN Duration ELSE clock + seconds + Slack

\* wait returns the exit code, or None.
WaitReturns ==
    /\ pc = "wait" /\ job # NoJob /\ Woken
    /\ result' = child[job].code
    /\ pc' = IF Exited(job) THEN "check" ELSE "expired"
    /\ UNCHANGED <<phase, missing, clock, abort, todo, i, job, until, hung, child, paused, findings, world>>

\* Mutant of Expire: the abort event is not read again.
ExpireUnchecked ==
    /\ pc = "expired"
    /\ hung' = (job \notin {"y-cruncher", "mprime"})
    /\ BeginStop(job)
    /\ UNCHANGED <<phase, missing, clock, abort, todo, i, result, paused, findings, world>>

\* The abort event is read again: only a wait that ran into its deadline was hung.
Expire ==
    /\ pc = "expired"
    /\ hung' = (job \notin {"y-cruncher", "mprime"} /\ ~abort)
    /\ BeginStop(job)
    /\ UNCHANGED <<phase, missing, clock, abort, todo, i, result, paused, findings, world>>

\* Where the phase goes on after one of its tools.
Resume == IF phase \in {"cpu", "memory"} THEN "next"
          ELSE IF phase = "combined" THEN "gather" ELSE "leave"

(* After stop the hung tool is reported and None returned; y-cruncher,       *)
(* Prime95 and the load of the transients are checked all the same.          *)
AfterStop ==
    /\ pc = "stopped" /\ job \notin Loads
    /\ findings' = findings \cup (IF hung THEN {<<"fail", job>>} ELSE {})
                            \cup (IF job = "transient" THEN {<<"warn", job>>} ELSE {})
    /\ IF job \in {"y-cruncher", "mprime", "transient"}
       THEN pc' = "check" /\ UNCHANGED <<child, i>>
       ELSE /\ pc' = Resume /\ child' = Closed(job)
            /\ i' = IF phase = "cpu" THEN (i + 1) % Wrap ELSE i
    /\ UNCHANGED <<phase, missing, clock, abort, todo, job, until, result, hung, paused, world>>

-----------------------------------------------------------------------------
(* What is concluded from a child that has ended or been stopped: the        *)
(* severities of the findings about it.                                      *)

If(condition, severity) == IF condition THEN {severity} ELSE {}

Short(j) == result = "ok" /\ ~InTime(j) /\ ~abort

CheckStressNG(j) ==
    LET failed == result = "fault" \/ child[j].told
        unsupported == ~failed /\ result = "unsupported"
    IN  If(failed, "fail") \cup If(unsupported, "warn")
          \cup If(~failed /\ ~unsupported /\ (result # "ok" \/ ~child[j].complete), "gap")
          \cup If(j # "transient" /\ Short(j), "gap")

CheckStressAppTest(j) ==
    If(child[j].told, "fail")
      \cup If(~child[j].told /\ (result # "ok" \/ ~child[j].complete), "gap")
      \cup If(Short(j), "gap")

CoverageGaps(j) == result # "ok" \/ ~child[j].complete \/ ~InTime(j)

CheckYCruncher(j) ==
    If(child[j].told \/ (result = "fault" /\ ~abort), "fail")
      \cup If(CoverageGaps(j) \/ abort, "gap")

\* Mutant of CheckMprime: an abort silences errors too.
CheckMprimeUnlessAborted(j) ==
    LET early == result # "none" /\ clock + 1 < Duration
    IN  If(child[j].told /\ ~abort, "fail")
          \cup If(~child[j].told /\ ~abort /\ (early \/ ~child[j].complete), "gap")

\* Prime95 may end in the last minute.
CheckMprime(j) ==
    LET early == result # "none" /\ clock + 1 < Duration
    IN  If(child[j].told, "fail")
          \cup If(~child[j].told /\ ~abort /\ (early \/ ~child[j].complete), "gap")

Conclusions(j) ==
    CASE j = "stressapptest" -> CheckStressAppTest(j)
      [] j = "y-cruncher"    -> CheckYCruncher(j)
      [] j = "mprime"        -> CheckMprime(j)
      [] OTHER               -> CheckStressNG(j)

\* A CPU stressor that cannot run leaves the rotation.
Check ==
    /\ pc = "check"
    /\ findings' = findings \cup {<<severity, job>> : severity \in Conclusions(job)}
    /\ child' = Closed(job) /\ pc' = Resume
    /\ IF phase = "cpu"
       THEN /\ i' = (i + 1) % Wrap
            /\ IF result \in {"odd", "unsupported"}
               THEN \E n \in 1..Len(todo) : todo[n] = job /\ todo' = RemoveAt(todo, n)
               ELSE UNCHANGED todo
       ELSE UNCHANGED <<i, todo>>
    /\ UNCHANGED <<phase, missing, clock, abort, job, until, result, hung, paused, world>>

-----------------------------------------------------------------------------
(* The phases.                                                              *)

CpuRun ==
    /\ phase = "cpu" /\ pc = "next"
    /\ \/ /\ Remaining > 0 /\ ~abort /\ todo # <<>>
          /\ Foreground(todo[(i % Len(todo)) + 1], Least(Slice, Remaining))
          /\ UNCHANGED findings
       \/ /\ Remaining = 0 \/ abort \/ todo = <<>>
          /\ findings' = findings \cup (IF Remaining > 0 /\ ~abort THEN {<<"gap", "phase">>} ELSE {})
          /\ pc' = "leave"
          /\ UNCHANGED <<job, until, result, hung, child>>
    /\ UNCHANGED <<phase, missing, clock, abort, todo, i, paused, world>>

MemoryRun ==
    /\ phase = "memory" /\ pc = "next"
    /\ \/ /\ Len(todo) = 2 /\ todo' = Tail(todo)
          /\ \/ /\ missing /\ findings' = findings \cup {<<"gap", "phase">>}
                /\ UNCHANGED <<pc, job, until, result, hung, child>>
             \/ ~missing /\ Foreground("stressapptest", SatShare) /\ UNCHANGED findings
       \/ /\ Len(todo) = 1 /\ ~abort /\ todo' = <<>>
          /\ Foreground("vm", Remaining) /\ UNCHANGED findings
       \/ /\ todo = <<>> \/ (Len(todo) = 1 /\ abort)
          /\ pc' = "leave" /\ UNCHANGED <<todo, job, until, result, hung, child, findings>>
    /\ UNCHANGED <<phase, missing, clock, abort, i, paused, world>>

YCruncherRun ==
    /\ phase = "ycruncher" /\ pc = "next"
    /\ \/ /\ missing /\ findings' = findings \cup {<<"gap", "phase">>}
          /\ pc' = "leave" /\ UNCHANGED <<job, until, result, hung, child>>
       \/ ~missing /\ Foreground("y-cruncher", Remaining) /\ UNCHANGED findings
    /\ UNCHANGED <<phase, missing, clock, abort, todo, i, paused, world>>

\* Without Prime95 a stress-ng load takes its place, with a warning.
MprimeRun ==
    /\ phase = "mprime" /\ pc = "next"
    /\ Foreground(Head(todo), Remaining)
    /\ findings' = findings \cup (IF missing THEN {<<"warn", "phase">>} ELSE {})
    /\ UNCHANGED <<phase, missing, clock, abort, todo, i, paused, world>>

TransientRun ==
    /\ phase = "transient" /\ pc = "next"
    /\ Launch("transient", Duration)
    /\ job' = "transient" /\ pc' = "pulse" /\ until' = Duration
    /\ UNCHANGED <<phase, missing, clock, abort, todo, i, result, hung, paused, findings, world>>

\* SIGSTOP and SIGCONT by turns, in steps from milliseconds to minutes.
Pulse ==
    /\ pc = "pulse" /\ ~Woken
    /\ child' = [child EXCEPT ![job].frozen = ~@]
    /\ UNCHANGED <<phase, missing, clock, abort, main, paused, findings, world>>

(* The finally clause thaws the load; one that still runs is interrupted for *)
(* its summary, one that has ended before its time is a gap.                 *)
EndPulses ==
    /\ pc = "pulse" /\ Woken
    /\ result' = child[job].code
    /\ \/ /\ Exited(job) /\ pc' = "check"
          /\ findings' = findings \cup (IF Remaining > 0 /\ ~abort THEN {<<"gap", job>>} ELSE {})
          /\ UNCHANGED <<child, until>>
       \/ /\ ~Exited(job) /\ pc' = "interrupt" /\ until' = clock + Slack
          /\ child' = [child EXCEPT ![job] = Signalled(@)]
          /\ UNCHANGED findings
    /\ UNCHANGED <<phase, missing, clock, abort, todo, i, job, hung, paused, world>>

InterruptReturns ==
    /\ pc = "interrupt" /\ Woken
    /\ result' = child[job].code
    /\ \/ Exited(job) /\ pc' = "check" /\ UNCHANGED <<job, until, child, unwell>>
       \/ ~Exited(job) /\ BeginStop(job) /\ unwell' = unwell \cup {job}
    /\ UNCHANGED <<phase, missing, clock, abort, todo, i, hung, paused, findings, verified, faulty, late>>

\* The idle soak and the combined load pause the disk tests.
Pause ==
    /\ pc = "start" /\ paused' = TRUE
    /\ pc' = IF phase = "idle" THEN "wait" ELSE "next"
    /\ until' = Duration
    /\ UNCHANGED <<phase, missing, clock, abort, todo, i, job, result, hung, child, findings, world>>

\* The kernel may not tell which idle states were used.
IdleEnds ==
    /\ phase = "idle" /\ pc = "wait" /\ Woken
    /\ pc' = "leave"
    /\ \/ UNCHANGED <<findings, unwell>>
       \/ findings' = findings \cup {<<"warn", "phase">>} /\ unwell' = unwell \cup {"phase"}
    /\ UNCHANGED <<phase, missing, clock, abort, todo, i, job, until, result, hung, child, paused,
                   verified, faulty, late>>

\* The loads in the background one by one, then stressapptest in the foreground.
CombinedRun ==
    /\ phase = "combined" /\ pc = "next"
    /\ \/ /\ todo # <<>> /\ todo' = Tail(todo)
          /\ Launch(Head(todo), Remaining)
          /\ UNCHANGED <<pc, job, until, result, hung, findings>>
       \/ /\ todo = <<>> /\ todo' = Plan(phase, missing)
          /\ Foreground("stressapptest", Remaining)
          /\ findings' = findings \cup (IF missing THEN {<<"warn", "phase">>} ELSE {})
    /\ UNCHANGED <<phase, missing, clock, abort, i, paused, world>>

\* The next load to wait for, if there is one.
Gather ==
    /\ pc = "gather"
    /\ \/ todo = <<>> /\ pc' = "leave" /\ UNCHANGED <<todo, job, until>>
       \/ /\ todo # <<>> /\ todo' = Tail(todo) /\ job' = Head(todo)
          /\ pc' = "collect" /\ until' = Duration + Slack
    /\ UNCHANGED <<phase, missing, clock, abort, i, result, hung, child, paused, findings, world>>

\* Mutant of Collect: the exit code is enough.
CollectCodes ==
    /\ pc = "collect" /\ Woken
    /\ pc' = IF abort THEN "leave" ELSE "gather"
    /\ findings' = findings \cup IF ~abort /\ child[job].code # "ok" THEN {<<"gap", job>>} ELSE {}
    /\ UNCHANGED <<phase, missing, clock, abort, todo, i, job, until, result, hung, child, paused, world>>

Collect ==
    /\ pc = "collect" /\ Woken
    /\ pc' = IF abort THEN "leave" ELSE "gather"
    /\ findings' = findings \cup
          IF ~abort /\ (child[job].code # "ok" \/ ~child[job].complete) THEN {<<"gap", job>>} ELSE {}
    /\ UNCHANGED <<phase, missing, clock, abort, todo, i, job, until, result, hung, child, paused, world>>

\* Mutant of Raise: outside the try statement.
RaisePastFinally ==
    /\ pc = "next" /\ phase # "cpu"
    /\ pc' = "over"
    /\ findings' = findings \cup {<<"gap", "phase">>} /\ unwell' = unwell \cup {"phase"}
    /\ UNCHANGED <<phase, missing, clock, abort, todo, i, job, until, result, hung, child, paused,
                   verified, faulty, late>>

(* Too little memory (mem_budget_mib) or a tool that does not start: the     *)
(* exception passes the finally clauses and run_phases makes a gap of it.    *)
Raise ==
    /\ pc = "next" /\ phase # "cpu"
    /\ pc' = "leave"
    /\ findings' = findings \cup {<<"gap", "phase">>} /\ unwell' = unwell \cup {"phase"}
    /\ UNCHANGED <<phase, missing, clock, abort, todo, i, job, until, result, hung, child, paused,
                   verified, faulty, late>>

(* After y-cruncher has ended, its log cannot be read or its evidence not be *)
(* written to the stick (read_evidence, atomic_write_json): the OSError      *)
(* comes before check_result, and run_phases makes a gap of it.              *)
LoseResult ==
    /\ pc = "check" /\ job = "y-cruncher"
    /\ child' = Closed(job) /\ pc' = "leave"
    /\ findings' = findings \cup {<<"gap", "phase">>} /\ unwell' = unwell \cup {"phase"}
    /\ UNCHANGED <<phase, missing, clock, abort, todo, i, job, until, result, hung, paused,
                   verified, faulty, late>>

\* The finally clause of the combined load: stop what still runs, resume the scans.
Leave ==
    /\ pc = "leave" \/ (pc = "stopped" /\ job \in Loads)
    /\ \/ \E j \in Loads : Running(j) /\ BeginStop(j) /\ UNCHANGED paused
       \/ /\ \A j \in Loads : ~Running(j)
          /\ pc' = "over" /\ paused' = FALSE /\ UNCHANGED <<job, until, child>>
    /\ UNCHANGED <<phase, missing, clock, abort, todo, i, result, hung, findings, world>>

Main == \/ CpuRun \/ MemoryRun \/ YCruncherRun \/ MprimeRun
        \/ TransientRun \/ Pulse \/ EndPulses \/ InterruptReturns
        \/ Pause \/ IdleEnds \/ CombinedRun \/ Gather \/ Collect
        \/ WaitReturns \/ Expire \/ EndGrace \/ AfterStop \/ Check \/ Raise \/ LoseResult
        \/ Leave

Next == Main \/ Tick \/ Environment

Spec == Init /\ [][Next]_vars

(* The program goes on and time passes; no tool need ever end.  The load      *)
(* steps are made without a tick, so that time takes strong fairness.         *)
FairSpec == Spec /\ WF_vars(Main) /\ SF_vars(Tick)

-----------------------------------------------------------------------------
(* Properties.                                                              *)

(* The variables hold what the code can hold; every child is one process at  *)
(* most, and a frozen one is the load of the transients while it pulses.     *)
TypeOK ==
    /\ phase \in Phases /\ {missing, abort, hung, paused} \subseteq BOOLEAN
    /\ clock \in Nat /\ until \in Nat /\ i \in 0..(Wrap - 1)
    /\ pc \in Waits \cup {"start", "next", "check", "expired", "stopped", "gather", "leave", "over"}
    /\ Range(todo) \subseteq Jobs /\ job \in Jobs \cup {NoJob}
    /\ {verified, faulty, late} \subseteq SUBSET Jobs /\ unwell \subseteq Jobs \cup {"phase"}
    /\ findings \subseteq {"fail", "gap", "warn"} \X (Jobs \cup {"phase"})
    /\ \A j \in Jobs : child[j].frozen => j = "transient" /\ (Running(j) => pc = "pulse")

(* However a phase is left, by its end, an abort or an exception, it leaves  *)
(* no tool running that would load the next one, and the disk tests go on;   *)
(* only a process in an uninterruptible sleep may stay (ManagedProcess.stop, *)
(* the finally clauses).                                                     *)
PhaseCleansUp ==
    pc = "over" => ~paused /\ \A j \in Jobs : ~Running(j)

Unfinished == \E f \in findings : f[1] \in {"fail", "gap"}

Credited(j) == j \in verified \/ <<"warn", j>> \in findings

(* A phase that was not aborted and reports neither a failure nor a gap has  *)
(* had its tools run to the end with their results verified, or warned that  *)
(* the machine does not support them: what PASS rests on.  The last minute   *)
(* of Prime95 is not looked at, not even for a crash.                        *)
SilentPhaseRan ==
    pc = "over" /\ ~abort /\ ~Unfinished =>
        CASE phase = "cpu"      -> \E j \in Range(Stressors) : j \in verified
          [] phase = "combined" -> \A j \in Range(Plan(phase, missing)) \cup {"stressapptest"} : Credited(j)
          [] OTHER              -> \A j \in Range(Plan(phase, missing)) : Credited(j)

(* What a finding says of a tool is so: a failure is never the work of the   *)
(* program's own signals or of an abort, and a healthy tool gets neither     *)
(* warning nor gap; an abort makes one for y-cruncher only.                  *)
FindingsAreEarned ==
    \A f \in findings :
        CASE f[1] = "fail" -> f[2] \in faulty \cup late
          [] f = <<"gap", "phase">> /\ phase = "cpu" -> Range(Stressors) \subseteq unwell
          [] OTHER -> f[2] \in unwell \/ (abort /\ f = <<"gap", "y-cruncher">>)

(* A wrong result that a tool printed, or that its exit code tells of, is a  *)
(* FAIL when the phase ends of itself; an abort does not lose what Prime95   *)
(* or the load of the transients had found.  Two kinds of y-cruncher's can   *)
(* be lost: the exit code of one that outlived its time is not looked at,    *)
(* and an OSError before check_result leaves the phase with a gap instead.   *)
(* The crash of another tool is no fault to the code: a gap at most.         *)
FaultsAreReported ==
    pc = "over" =>
        \A j \in faulty :
            \/ <<"fail", j>> \in findings
            \/ abort /\ j \notin Endless
            \/ j = "y-cruncher" /\ (j \in late \/ <<"gap", "phase">> \in findings)

(* A phase ends, although its tools may never do so: every wait has a        *)
(* deadline, and what does not heed a signal is killed or left behind.       *)
PhaseEnds == <>(pc = "over")

(* README.md:28, "22 stress-ng stressors with result verification": a CPU    *)
(* phase in which all went well, except that the platform does not support   *)
(* some stressors, has run every other one.                                  *)
EveryStressorRuns ==
    LET unsupported == {j \in Range(Stressors) : <<"warn", j>> \in findings}
    IN  pc = "over" /\ phase = "cpu" /\ ~abort /\ ~Unfinished /\ late = {} /\ unwell = unsupported =>
            Range(Stressors) \ unsupported \subseteq verified
=============================================================================
