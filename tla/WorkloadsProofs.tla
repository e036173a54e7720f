-------------------------- MODULE WorkloadsProofs --------------------------
(***************************************************************************)
(* For any rotation of stressors, any durations and whatever the tools do: *)
(* a phase leaves nothing behind, its silence and its findings are earned, *)
(* and a wrong result that a tool reported is a FAIL.                      *)
(***************************************************************************)
EXTENDS Workloads, SequenceTheorems, TLAPS

-----------------------------------------------------------------------------
(* Where the phase is *)

Cpu == Range(Stressors)

\* What a phase may have in the foreground.
Tools(p, m) ==
    CASE p = "cpu"       -> Cpu
      [] p = "memory"    -> {"stressapptest", "vm"}
      [] p = "mprime"    -> IF m THEN {"matrix-fallback"} ELSE {"mprime"}
      [] p = "ycruncher" -> {"y-cruncher"}
      [] p = "transient" -> {"transient"}
      [] p = "idle"      -> {}
      [] p = "combined"  -> {"stressapptest"}

\* The phase looks after one tool.
Soak == phase = "idle" /\ pc = "wait"
Busy == pc \in {"wait", "expired", "check", "grace", "stopped", "pulse", "interrupt"} /\ ~Soak

AllCodes == {"none", "ok", "odd", "unsupported", "fault", "signal"}

Processes ==
    [run : {"none", "running", "exited", "stuck"}, code : AllCodes, told : BOOLEAN,
     complete : BOOLEAN, frozen : BOOLEAN, signalled : BOOLEAN, since : Nat, asked : Nat]

Points == Waits \cup {"start", "next", "check", "expired", "stopped", "gather", "leave", "over"}

Severities == {"fail", "gap", "warn"}

Typed ==
    /\ phase \in Phases /\ missing \in BOOLEAN /\ abort \in BOOLEAN
    /\ hung \in BOOLEAN /\ paused \in BOOLEAN
    /\ clock \in Nat /\ until \in Nat
    /\ pc \in Points /\ job \in Jobs \cup {NoJob} /\ result \in AllCodes
    /\ verified \subseteq Jobs /\ faulty \subseteq Jobs /\ late \subseteq Jobs
    /\ unwell \subseteq Jobs \cup {"phase"}
    /\ child \in [Jobs -> Processes]

Noted ==
    /\ i \in 0..(Wrap - 1)
    /\ findings \subseteq Severities \X (Jobs \cup {"phase"})

\* The loads of the combined phase.
Background(m) == IF m THEN {"disk"} ELSE {"disk", "iperf3"}

\* The tools still to run, as a suffix of the plan or a shortened rotation.
Listed ==
    CASE phase = "cpu"       -> todo \in Seq(Cpu)
      [] phase = "memory"    -> \/ todo = <<"stressapptest", "vm">> /\ pc \in {"next", "leave", "over"}
                                \/ todo = <<"vm">> /\ (Busy => job = "stressapptest")
                                \/ todo = <<>> /\ (Busy => job = "vm")
      [] phase = "combined"  -> \/ todo = <<"disk", "iperf3">> /\ ~missing
                                \/ todo = <<"iperf3">> /\ ~missing /\ pc # "start"
                                \/ todo = <<"disk">> /\ missing
                                \/ todo = <<>> /\ pc # "start"
      [] OTHER               -> todo = Plan(phase, missing)

Situated ==
    CASE phase = "transient" -> pc \in {"next", "pulse", "interrupt", "check", "grace", "stopped",
                                        "leave", "over"}
      [] phase = "idle"      -> pc \in {"start", "wait", "leave", "over"}
      [] phase = "combined"  -> pc \notin {"pulse", "interrupt"}
      [] OTHER               -> pc \in {"next", "wait", "expired", "check", "grace", "stopped",
                                        "leave", "over"}

\* What it looks after.
Focused ==
    /\ Busy => \/ job \in Tools(phase, missing)
               \/ phase = "combined" /\ job \in Loads /\ pc \in {"grace", "stopped"}
    /\ Soak \/ pc = "start" => job = NoJob
    /\ pc = "collect" => phase = "combined" /\ job \in Background(missing)
    /\ paused => phase \in {"idle", "combined"} /\ pc # "over"

\* Only that runs, and the loads of the combined phase.
OnlyTheTool == \A j \in Jobs \ Loads : Running(j) => Busy /\ j = job

OnlyItsLoads == \A j \in Loads : Running(j) => phase = "combined" /\ pc # "over"

InHand ==
    /\ Busy => child[job].run # "none"
    /\ Busy /\ pc \in Waits \cup {"expired"} => Running(job) \/ Exited(job)
    /\ pc \in {"stopped", "check"} => ~Running(job)

OnlyPulses == \A j \in Jobs : child[j].frozen => j = "transient" /\ (Running(j) => pc = "pulse")

Attended == OnlyTheTool /\ OnlyItsLoads /\ InHand /\ OnlyPulses

\* The phase has not begun to leave.
Early == pc \notin {"leave", "over"} /\ (Busy => job \notin Loads)

\* The loads have been started.
Launched ==
    phase = "combined" /\ Early =>
        \A j \in Background(missing) :
            pc = "start" \/ (pc = "next" /\ j \in Range(todo)) \/ child[j].run # "none"

\* What the phase has signalled.
Unsent ==
    /\ pc \in {"wait", "expired", "pulse"} /\ Busy => ~child[job].signalled
    /\ pc = "check" /\ result # "none" /\ job # "transient" => ~child[job].signalled
    /\ Early => \A j \in Loads : ~child[j].signalled

Sent ==
    /\ pc \in {"interrupt", "grace"} => child[job].signalled
    /\ pc = "stopped" /\ job = "transient" => child[job].signalled

\* No time passes before the tools are started.
Prompt == pc \in {"start", "next"} /\ phase \notin {"cpu", "memory"} => clock = 0

\* A process that has not ended has no exit code, and one that is waited for has not been seen to end.
Coded == \A j \in Jobs : Exited(j) <=> child[j].code # "none"

Unanswered ==
    pc \in {"wait", "expired", "grace", "stopped"} /\ Busy /\ job \notin Loads => result = "none"

Shape == Typed /\ Noted /\ Listed /\ Situated /\ Focused /\ Attended /\ Launched /\ Unsent /\ Sent
         /\ Prompt /\ Coded /\ Unanswered

-----------------------------------------------------------------------------
(* Time *)

Begun ==
    \A j \in Jobs :
        /\ child[j].since <= clock
        /\ child[j].run # "none" /\ phase \notin {"cpu", "memory"} =>
              child[j].since = 0 /\ child[j].asked = Duration

\* A tool that runs on past its time is not well, and past the slack it is late.
Overrun ==
    /\ \A j \in Jobs \ Endless :
          Running(j) /\ ~child[j].signalled =>
              /\ clock > child[j].since + child[j].asked => j \in unwell
              /\ clock >= child[j].since + child[j].asked + Slack => j \in late
    /\ late \subseteq unwell

Deadlines ==
    /\ pc = "pulse" => until = Duration
    /\ pc = "collect" => until = Duration + Slack
    /\ pc = "wait" /\ ~Soak =>
          until = IF job = "mprime" THEN Duration ELSE child[job].since + child[job].asked + Slack

\* The wait for the tool ran into its deadline.
Late == IF job = "mprime" THEN clock >= Duration ELSE job \in late

\* A tool is stopped because it is late or the test aborted; the first is a hang of those
\* that are not checked after that.
Outlived ==
    /\ pc = "expired" => abort \/ Late
    /\ pc \in {"grace", "stopped"} /\ job \notin Loads \cup {"transient"} => abort \/ Late
    /\ pc \in {"grace", "stopped"} /\ job \in {"y-cruncher", "mprime"} => ~hung
    /\ pc \in {"grace", "stopped"} /\ job \notin Loads \cup {"y-cruncher", "mprime", "transient"} =>
          (hung => job \in late) /\ (abort \/ hung)
    /\ pc \in {"grace", "stopped"} /\ job = "transient" => job \in unwell
    /\ hung => phase # "transient"

Timed == Begun /\ Overrun /\ Deadlines /\ Outlived

-----------------------------------------------------------------------------
(* What the output and the end of a tool say *)

\* The state of one process.
Fit(j) ==
    /\ child[j].run = "none" => child[j] = NoChild
    /\ child[j].run = "stuck" => j \in unwell
    /\ child[j].signalled => child[j].code \in {"none", "ok", "signal"}
    /\ child[j].code = "fault" => j \in StressNG \cup {"y-cruncher"}
    /\ j # "mprime" /\ child[j].complete => Exited(j) /\ child[j].code = "ok"
    /\ Exited(j) =>
          \/ j \in unwell
          \/ child[j].code = "ok" /\ child[j].complete /\ (InTime(j) \/ child[j].signalled)
          \/ child[j].signalled /\ (j \in Endless => child[j].complete)

Blamed ==
    /\ \A j \in Jobs : child[j].told \/ child[j].code = "fault" => j \in faulty
    /\ faulty \subseteq unwell

AllFit == \A j \in Jobs : Fit(j)

Sound == AllFit /\ Blamed

\* What is known of the end of a tool that is being checked.
Answered ==
    pc = "check" =>
        \/ Exited(job) /\ result = child[job].code
        \/ result = "none" /\ job \in {"y-cruncher", "mprime"} /\ (abort \/ Late)
        \/ /\ result = "none" /\ job = "transient"
           /\ job \in unwell /\ <<"warn", job>> \in findings

\* A tool that ended well is verified for as long as the phase looks after it.
Certified ==
    /\ Busy /\ Exited(job) /\ job # "mprime" /\ child[job].code = "ok" /\ child[job].complete
       /\ ~child[job].told /\ (InTime(job) \/ child[job].signalled) => job \in verified
    /\ Busy /\ Exited(job) /\ child[job].code = "unsupported" => clock = child[job].since
    /\ child["mprime"].complete =>
          \/ "mprime" \in verified
          \/ Exited("mprime") /\ Busy /\ job = "mprime" /\ clock + 1 < Duration
    /\ \A j \in Loads : ~child[j].told /\ (child[j].complete => j \in verified)

-----------------------------------------------------------------------------
(* What is reported *)

Dropped == phase = "cpu" => Cpu \ Range(todo) \subseteq unwell

Earned ==
    /\ missing => "phase" \in unwell
    /\ FindingsAreEarned

\* The phase is about to look at the fault of a tool.
Pending(j) ==
    Busy /\ j = job /\ (child[j].told \/ IF pc = "check" THEN result = "fault" ELSE child[j].code = "fault")

\* A FAIL, or no matter (FaultsAreReported).
Reported(j) ==
    \/ <<"fail", j>> \in findings
    \/ abort /\ j \notin Endless
    \/ j = "y-cruncher" /\ (j \in late \/ <<"gap", "phase">> \in findings)

\* What is known and not yet reported is what the phase is about to look at.
Faults == \A j \in faulty : Reported(j) \/ Pending(j)

\* The tools still to look at, of those that the combined phase has started.
Held == (IF pc \in {"gather", "collect"} THEN Range(todo) ELSE {})
            \cup (IF pc = "collect" THEN {job} ELSE {})

\* Tools that are behind, for a phase that has nothing to report.
Behind ==
    CASE phase = "combined" ->
           IF pc \in {"start", "next"} \/ (Busy /\ job = "stressapptest") THEN {}
           ELSE {"stressapptest"} \cup (Range(Plan(phase, missing)) \ Held)
      [] phase = "memory" ->
           IF pc \in {"leave", "over"} THEN {"stressapptest", "vm"}
           ELSE {"stressapptest", "vm"} \ (Range(todo) \cup IF Busy THEN {job} ELSE {})
      [] OTHER -> IF pc \in {"leave", "over"} THEN Range(Plan(phase, missing)) ELSE {}

Settled ==
    IF phase = "cpu"
    THEN \/ \E j \in Cpu : j \in verified
         \/ pc = "next" /\ clock = 0
         \/ Busy /\ child[job].since = 0
    ELSE \A j \in Behind : Credited(j)

Silent == ~abort /\ ~Unfinished => Settled

\* A load of the transients that ended before its time has been reported.
Curtailed ==
    pc = "check" /\ job = "transient" /\ ~abort /\ ~child[job].signalled =>
        InTime(job) \/ <<"gap", job>> \in findings

\* The loads of the combined phase are looked at after its tool.
Relisted == phase = "combined" /\ Busy /\ job = "stressapptest" => todo = Plan(phase, missing)

WInv == /\ Shape /\ Timed /\ Sound /\ Answered /\ Certified /\ Dropped /\ Earned /\ Faults
        /\ Silent /\ Curtailed /\ Relisted

-----------------------------------------------------------------------------
(* The names of the tools *)

Others == {"vm", "matrix-fallback", "transient", "stressapptest", "y-cruncher", "mprime"}

LEMMA Names ==
    /\ Jobs = Cpu \cup Others \cup Loads
    /\ \A j \in Cpu : j \notin Others \cup Loads \cup {"phase", NoJob}
    /\ StressNG = Cpu \cup {"vm", "matrix-fallback", "transient"}
    /\ Cpu # {}
<1>1. /\ Range(Stressors) \cap {"vm", "matrix-fallback", "transient", "stressapptest", "y-cruncher",
                               "mprime", "disk", "iperf3", "phase", "no job"} = {}
      /\ Stressors \in Seq(STRING) /\ Stressors # <<>>
  BY WorkloadsAssumption
<1>2. Cpu # {}
  <2>1. Len(Stressors) \in Nat \ {0}
    BY <1>1, EmptySeq
  <2>2. DOMAIN Stressors = 1..Len(Stressors)
    BY <1>1, LenProperties
  <2>3. 1 \in DOMAIN Stressors
    BY <2>1, <2>2
  <2> QED BY <2>3 DEF Cpu, Range
<1> QED BY <1>1, <1>2 DEF Jobs, Others, Loads, StressNG, NoJob, Cpu

LEMMA Numbers ==
    /\ Duration \in Nat \ {0} /\ Slice \in 1..Duration /\ SatShare \in 1..Duration
    /\ Slack \in Nat \ {0} /\ Grace \in Nat \ {0} /\ Wrap \in Nat \ {0}
    /\ Phases \subseteq {"cpu", "memory", "mprime", "ycruncher", "transient", "idle", "combined"}
  BY WorkloadsAssumption

LEMMA PlanRanges ==
    ASSUME NEW m \in BOOLEAN
    PROVE  /\ Range(Plan("cpu", m)) = Cpu
           /\ Range(Plan("memory", m)) = {"stressapptest", "vm"}
           /\ Range(Plan("mprime", m)) = IF m THEN {"matrix-fallback"} ELSE {"mprime"}
           /\ Range(Plan("ycruncher", m)) = {"y-cruncher"}
           /\ Range(Plan("transient", m)) = {"transient"}
           /\ Range(Plan("idle", m)) = {}
           /\ Range(Plan("combined", m)) = Background(m)
  BY DEF Plan, Range, Cpu, Background

-----------------------------------------------------------------------------
(* What a step does to the children *)

\* How one changes.
Ended(c, code, complete) == [c EXCEPT !.run = "exited", !.code = code, !.complete = complete]
Killed(c)  == [c EXCEPT !.run = "exited", !.code = "signal"]
Stuck(c)   == [c EXCEPT !.run = "stuck"]
Telling(c) == [c EXCEPT !.told = TRUE]
Tested(c)  == [c EXCEPT !.complete = TRUE]
Flipped(c) == [c EXCEPT !.frozen = ~@]

LEMMA Fields ==
    ASSUME NEW c \in Processes
    PROVE  /\ LET d == Signalled(c)
              IN  /\ d.run = c.run /\ d.code = c.code /\ d.told = c.told /\ d.complete = c.complete
                  /\ d.since = c.since /\ d.asked = c.asked /\ d.signalled /\ ~d.frozen
           /\ \A code, complete :
                 LET d == Ended(c, code, complete)
                 IN  /\ d.run = "exited" /\ d.code = code /\ d.complete = complete /\ d.told = c.told
                     /\ d.since = c.since /\ d.asked = c.asked
                     /\ d.signalled = c.signalled /\ d.frozen = c.frozen
           /\ LET d == Killed(c)
              IN  /\ d.run = "exited" /\ d.code = "signal" /\ d.complete = c.complete
                  /\ d.told = c.told /\ d.since = c.since /\ d.asked = c.asked
                  /\ d.signalled = c.signalled /\ d.frozen = c.frozen
           /\ LET d == Stuck(c)
              IN  /\ d.run = "stuck" /\ d.code = c.code /\ d.complete = c.complete
                  /\ d.told = c.told /\ d.since = c.since /\ d.asked = c.asked
                  /\ d.signalled = c.signalled /\ d.frozen = c.frozen
           /\ LET d == Telling(c)
              IN  /\ d.run = c.run /\ d.code = c.code /\ d.complete = c.complete /\ d.told
                  /\ d.since = c.since /\ d.asked = c.asked
                  /\ d.signalled = c.signalled /\ d.frozen = c.frozen
           /\ LET d == Tested(c)
              IN  /\ d.run = c.run /\ d.code = c.code /\ d.complete /\ d.told = c.told
                  /\ d.since = c.since /\ d.asked = c.asked
                  /\ d.signalled = c.signalled /\ d.frozen = c.frozen
           /\ LET d == Flipped(c)
              IN  /\ d.run = c.run /\ d.code = c.code /\ d.complete = c.complete /\ d.told = c.told
                  /\ d.since = c.since /\ d.asked = c.asked /\ d.signalled = c.signalled
                  /\ d.frozen = ~c.frozen
  BY DEF Processes, Signalled, Ended, Killed, Stuck, Telling, Tested, Flipped

\* Of the children only j changes.
Becomes(j, c) ==
    /\ child' \in [Jobs -> Processes] /\ child'[j] = c
    /\ \A k \in Jobs : k # j => child'[k] = child[k]

Fresh(seconds) == [NoChild EXCEPT !.run = "running", !.since = clock, !.asked = seconds]

LEMMA LaunchStarts ==
    ASSUME Typed, NEW j \in Jobs, NEW s \in Nat, Launch(j, s)
    PROVE  Becomes(j, Fresh(s))
<1>1. Fresh(s) \in Processes
  BY DEF Typed, Fresh, NoChild, Processes, AllCodes
<1> QED BY <1>1 DEF Typed, Launch, Becomes, Fresh

Halts(j) ==
    /\ job' = j
    /\ \/ /\ Running(j) /\ Becomes(j, Signalled(child[j]))
          /\ pc' = "grace" /\ until' = clock + Grace
       \/ ~Running(j) /\ child' = child /\ pc' = "stopped" /\ until' = until

LEMMA StopHalts ==
    ASSUME Typed, NEW j \in Jobs, BeginStop(j)
    PROVE  Halts(j)
<1>0. child[j] \in Processes
  BY DEF Typed
<1>1. Signalled(child[j]) \in Processes
  BY <1>0 DEF Signalled, Processes
<1> QED BY <1>1 DEF Typed, BeginStop, Becomes, Halts

LEMMA CloseCloses ==
    ASSUME Typed, NEW j \in Jobs, child' = Closed(j)
    PROVE  Becomes(j, IF Exited(j) THEN NoChild ELSE child[j])
<1>1. NoChild \in Processes
  BY DEF NoChild, Processes, AllCodes
<1> QED BY <1>1 DEF Typed, Closed, Becomes

LEMMA TellTells ==
    ASSUME Typed, NEW j \in Jobs, Tell(j)
    PROVE  Becomes(j, Telling(child[j]))
<1>0. child[j] \in Processes
  BY DEF Typed
<1>1. Telling(child[j]) \in Processes
  BY <1>0 DEF Processes, Telling
<1> QED BY <1>1 DEF Typed, Tell, Becomes, Telling

LEMMA PassPasses ==
    ASSUME Typed, PassSelfTest
    PROVE  Becomes("mprime", Tested(child["mprime"]))
<1>1. "mprime" \in Jobs
  BY Names DEF Others
<1>0. child["mprime"] \in Processes
  BY <1>1 DEF Typed
<1>2. Tested(child["mprime"]) \in Processes
  BY <1>0 DEF Processes, Tested
<1> QED BY <1>1, <1>2 DEF Typed, PassSelfTest, Becomes, Tested

LEMMA FreshFields ==
    ASSUME NEW s \in Nat
    PROVE  LET d == Fresh(s)
           IN  /\ d.run = "running" /\ d.code = "none" /\ ~d.told /\ ~d.complete /\ ~d.frozen
               /\ ~d.signalled /\ d.since = clock /\ d.asked = s
  BY DEF Fresh, NoChild

LEMMA NoChildFields ==
    /\ NoChild.run = "none" /\ NoChild.code = "none" /\ ~NoChild.told /\ ~NoChild.complete
    /\ ~NoChild.frozen /\ ~NoChild.signalled /\ NoChild.since = 0 /\ NoChild.asked = 0
  BY DEF NoChild

LEMMA ExitEnds ==
    ASSUME Typed, NEW j \in Jobs, NEW code \in Codes(j), NEW complete \in BOOLEAN,
           Exit(j, code, complete)
    PROVE  code \in AllCodes \ {"none"} /\ Becomes(j, Ended(child[j], code, complete))
<1>1. code \in AllCodes \ {"none"}
  BY DEF Codes, AllCodes
<1>0. child[j] \in Processes
  BY DEF Typed
<1>2. Ended(child[j], code, complete) \in Processes
  BY <1>0, <1>1 DEF Ended, Processes
<1> QED BY <1>1, <1>2 DEF Typed, Exit, Ended, Becomes

LEMMA PulseFlips ==
    ASSUME Typed, job \in Jobs, Pulse
    PROVE  Becomes(job, Flipped(child[job]))
<1>0. child[job] \in Processes
  BY DEF Typed
<1>1. Flipped(child[job]) \in Processes
  BY <1>0 DEF Processes, Flipped
<1> QED BY <1>1 DEF Typed, Pulse, Becomes, Flipped

LEMMA EndGraceKills ==
    ASSUME Typed, job \in Jobs, EndGrace
    PROVE  \/ Exited(job) /\ UNCHANGED <<child, unwell>>
           \/ /\ ~Exited(job) /\ unwell' = unwell \cup {job}
              /\ \/ Becomes(job, Killed(child[job]))
                 \/ Becomes(job, Stuck(child[job]))
<1>0. child[job] \in Processes
  BY DEF Typed
<1>1. /\ Killed(child[job]) \in Processes
      /\ Stuck(child[job]) \in Processes
  BY <1>0 DEF Processes, AllCodes, Killed, Stuck
<1> QED BY <1>1 DEF Typed, EndGrace, Becomes, Killed, Stuck

-----------------------------------------------------------------------------
(* The moves of a phase and of its tools *)

Elsewhere == UNCHANGED <<phase, missing, clock, abort, i, paused>>

\* A tool is started in the foreground.
Starts(j, seconds) ==
    /\ pc = "next" /\ phase \notin {"idle", "transient"} /\ seconds \in Nat
    /\ j \in Tools(phase, missing) /\ j \in Jobs /\ j \notin Loads
    /\ phase \notin {"cpu", "memory"} => seconds = Duration /\ clock = 0
    /\ Becomes(j, Fresh(seconds))
    /\ job' = j /\ pc' = "wait" /\ result' = "none" /\ hung' = FALSE
    /\ until' = IF j = "mprime" THEN Duration ELSE clock + seconds + Slack
    /\ Elsewhere /\ UNCHANGED world

\* One is started in the background.
StartsLoad(j) ==
    /\ phase = "combined" /\ pc = "next" /\ clock = 0 /\ j \in Loads /\ j \in Jobs
    /\ Becomes(j, Fresh(Duration))
    /\ Elsewhere /\ UNCHANGED <<pc, job, until, result, hung, world>>

\* None is started.
Passes ==
    /\ pc = "next" /\ pc' \in {"next", "leave"}
    /\ unwell' \in {unwell, unwell \cup {"phase"}}
    /\ Elsewhere /\ UNCHANGED <<job, until, result, hung, child, verified, faulty, late>>

LEMMA ForegroundStarts ==
    ASSUME Typed, NEW j \in Jobs, NEW s \in Nat, Foreground(j, s), pc = "next",
           j \in Tools(phase, missing), j \notin Loads, phase \notin {"idle", "transient"},
           Elsewhere, UNCHANGED world,
           phase \notin {"cpu", "memory"} => s = Duration /\ clock = 0
    PROVE  Starts(j, s)
<1>1. Becomes(j, Fresh(s))
  BY LaunchStarts DEF Foreground
<1> QED BY <1>1 DEF Foreground, Starts

LEMMA RemainingFacts ==
    ASSUME clock \in Nat
    PROVE  /\ Remaining \in Nat /\ Least(Slice, Remaining) \in Nat
           /\ clock = 0 => Remaining = Duration
           /\ Remaining = 0 <=> clock >= Duration
           /\ Remaining > 0 => Least(Slice, Remaining) > 0
  BY Numbers DEF Remaining, Least

LEMMA CpuRuns ==
    ASSUME Shape, CpuRun
    PROVE  Passes \/ \E j \in Cpu, s \in Nat : s > 0 /\ Starts(j, s)
<1> DEFINE j == todo[(i % Len(todo)) + 1]
           s == Least(Slice, Remaining)
<1>0. Typed /\ clock \in Nat /\ i \in Nat /\ todo \in Seq(Cpu)
  BY Numbers DEF Shape, Typed, Noted, Listed, CpuRun
<1>1. CASE Remaining > 0 /\ ~abort /\ todo # <<>> /\ Foreground(j, s)
  <2>1. Len(todo) \in Nat \ {0}
    BY <1>0, <1>1, EmptySeq
  <2>2. (i % Len(todo)) + 1 \in 1..Len(todo)
    BY <1>0, <2>1
  <2>3. j \in Cpu /\ j \in Jobs /\ j \notin Loads
    BY <1>0, <2>2, ElementOfSeq, Names
  <2>4. s \in Nat /\ s > 0
    BY <1>0, <1>1, RemainingFacts
  <2>5. j \in Tools(phase, missing)
    BY <2>3 DEF CpuRun, Tools
  <2> HIDE DEF j, s
  <2>6. Starts(j, s)
    BY <1>0, <1>1, <2>3, <2>4, <2>5, ForegroundStarts DEF CpuRun, Elsewhere
  <2> QED BY <2>3, <2>4, <2>6
<1>2. CASE /\ pc' = "leave"
           /\ UNCHANGED <<job, until, result, hung, child>>
  BY <1>2 DEF CpuRun, Passes, Elsewhere, world
<1> QED BY <1>1, <1>2 DEF CpuRun

LEMMA MemoryRuns ==
    ASSUME Shape, MemoryRun
    PROVE  Passes \/ \E j \in {"stressapptest", "vm"}, s \in Nat : Starts(j, s)
<1>0. Typed /\ clock \in Nat /\ Remaining \in Nat /\ SatShare \in Nat
  BY Numbers, RemainingFacts DEF Shape, Typed
<1>1. CASE Foreground("stressapptest", SatShare)
  BY <1>0, <1>1, ForegroundStarts, Names DEF MemoryRun, Elsewhere, Tools, Others, Loads
<1>2. CASE Foreground("vm", Remaining)
  BY <1>0, <1>2, ForegroundStarts, Names DEF MemoryRun, Elsewhere, Tools, Others, Loads
<1>3. CASE /\ pc' \in {pc, "leave"} /\ UNCHANGED <<job, until, result, hung, child>>
  BY <1>3 DEF MemoryRun, Passes, Elsewhere, world
<1> QED BY <1>1, <1>2, <1>3 DEF MemoryRun

LEMMA YCruncherRuns ==
    ASSUME Shape, YCruncherRun
    PROVE  Passes \/ Starts("y-cruncher", Duration)
<1>0. Typed /\ clock = 0 /\ Remaining = Duration /\ Duration \in Nat
  BY Numbers, RemainingFacts DEF Shape, Typed, Prompt, YCruncherRun
<1>1. CASE Foreground("y-cruncher", Remaining)
  BY <1>0, <1>1, ForegroundStarts, Names DEF YCruncherRun, Elsewhere, Tools, Others, Loads
<1>2. CASE /\ pc' = "leave" /\ UNCHANGED <<job, until, result, hung, child>>
  BY <1>2 DEF YCruncherRun, Passes, Elsewhere, world
<1> QED BY <1>1, <1>2 DEF YCruncherRun

LEMMA MprimeRuns ==
    ASSUME Shape, MprimeRun
    PROVE  Starts(IF missing THEN "matrix-fallback" ELSE "mprime", Duration)
<1>0. Typed /\ clock = 0 /\ Remaining = Duration /\ Duration \in Nat
  BY Numbers, RemainingFacts DEF Shape, Typed, Prompt, MprimeRun
<1>1. Head(todo) = IF missing THEN "matrix-fallback" ELSE "mprime"
  BY <1>0 DEF Shape, Listed, MprimeRun, Plan, Typed
<1> QED BY <1>0, <1>1, ForegroundStarts, Names DEF MprimeRun, Elsewhere, Tools, Others, Loads

\* The loads of the combined phase are started one by one, then the tool.
LEMMA CombinedRuns ==
    ASSUME Shape, CombinedRun
    PROVE  \/ todo = <<>> /\ Starts("stressapptest", Duration)
           \/ \E j \in Background(missing) :
                 StartsLoad(j) /\ Range(todo) \subseteq Range(todo') \cup {j} /\ UNCHANGED findings
<1>0. Typed /\ clock = 0 /\ Remaining = Duration /\ Duration \in Nat
  BY Numbers, RemainingFacts DEF Shape, Typed, Prompt, CombinedRun
<1>1. CASE todo = <<>> /\ Foreground("stressapptest", Remaining)
  BY <1>0, <1>1, ForegroundStarts, Names DEF CombinedRun, Elsewhere, Tools, Others, Loads
<1>2. CASE todo # <<>> /\ todo' = Tail(todo) /\ Launch(Head(todo), Remaining)
           /\ UNCHANGED <<pc, job, until, result, hung, findings>>
  <2>1. \/ ~missing /\ todo = <<"disk", "iperf3">> /\ Head(todo) = "disk" /\ todo' = <<"iperf3">>
        \/ ~missing /\ todo = <<"iperf3">> /\ Head(todo) = "iperf3" /\ todo' = <<>>
        \/ missing /\ todo = <<"disk">> /\ Head(todo) = "disk" /\ todo' = <<>>
    <3>1. \/ ~missing /\ todo = <<"disk", "iperf3">>
          \/ ~missing /\ todo = <<"iperf3">>
          \/ missing /\ todo = <<"disk">>
      BY <1>2 DEF Shape, Listed, CombinedRun
    <3>2. /\ Head(<<"disk", "iperf3">>) = "disk" /\ Tail(<<"disk", "iperf3">>) = <<"iperf3">>
          /\ Head(<<"iperf3">>) = "iperf3" /\ Tail(<<"iperf3">>) = <<>>
          /\ Head(<<"disk">>) = "disk" /\ Tail(<<"disk">>) = <<>>
      OBVIOUS
    <3> QED BY <1>2, <3>1, <3>2
  <2>2. Head(todo) \in Background(missing) /\ Head(todo) \in Jobs /\ Head(todo) \in Loads
    BY <2>1, Names DEF Background, Loads
  <2>3. Range(todo) \subseteq Range(todo') \cup {Head(todo)}
    BY <2>1 DEF Range
  <2>4. Becomes(Head(todo), Fresh(Duration))
    BY <1>0, <1>2, <2>2, LaunchStarts
  <2> QED BY <1>0, <1>2, <2>2, <2>3, <2>4 DEF CombinedRun, Elsewhere, StartsLoad
<1> QED BY <1>1, <1>2 DEF CombinedRun

Closes(j) == Becomes(j, IF Exited(j) THEN NoChild ELSE child[j])

\* A tool the phase looks after is one of those it may have.
LEMMA JobIsTool ==
    ASSUME Shape
    PROVE  /\ Busy \/ pc = "collect" => job \in Jobs
           /\ phase = "transient" /\ Busy => job = "transient"
           /\ phase = "cpu" /\ Busy => job \in Cpu
           /\ phase = "idle" => ~Busy
<1>0. phase \in {"cpu", "memory", "mprime", "ycruncher", "transient", "idle", "combined"}
  BY Numbers DEF Shape, Typed
<1>1. /\ Tools(phase, missing) \subseteq Jobs
      /\ phase = "transient" => Tools(phase, missing) = {"transient"}
      /\ phase = "cpu" => Tools(phase, missing) = Cpu
      /\ phase = "idle" => Tools(phase, missing) = {}
  BY <1>0, Names DEF Tools, Others
<1>2. Background(missing) \subseteq Jobs /\ Loads \subseteq Jobs
  BY Names DEF Background, Loads
<1> QED BY <1>0, <1>1, <1>2 DEF Shape, Focused

PulsesBegin ==
    /\ phase = "transient" /\ pc = "next" /\ clock = 0
    /\ Becomes("transient", Fresh(Duration))
    /\ job' = "transient" /\ pc' = "pulse" /\ until' = Duration
    /\ Elsewhere /\ UNCHANGED <<todo, result, hung, findings, world>>

LEMMA TransientDoes ==
    ASSUME Shape, TransientRun
    PROVE  PulsesBegin
  BY Names, Numbers, LaunchStarts DEF PulsesBegin, Shape, Prompt, TransientRun, Others, Elsewhere

Flips ==
    /\ phase = "transient" /\ pc = "pulse" /\ Busy /\ job = "transient" /\ Running(job)
    /\ Becomes(job, Flipped(child[job]))
    /\ Elsewhere /\ UNCHANGED <<pc, todo, job, until, result, hung, findings, world>>

LEMMA PulseDoes ==
    ASSUME Shape, Pulse
    PROVE  Flips
<1>1. phase = "transient" /\ Busy
  BY DEF Shape, Situated, Pulse, Busy, Soak
<1>2. job = "transient" /\ job \in Jobs
  BY <1>1, JobIsTool
<1>3. Running(job)
  BY <1>1, <1>2 DEF Shape, Attended, OnlyTheTool, InHand, Pulse, Woken, NoJob, Waits
<1> QED BY <1>1, <1>2, <1>3, PulseFlips DEF Flips, Shape, Pulse, main, Elsewhere

PulsesEnd ==
    /\ phase = "transient" /\ pc = "pulse" /\ Busy /\ job = "transient"
    /\ clock >= until \/ abort \/ Exited(job)
    /\ result' = child[job].code
    /\ \/ Exited(job) /\ pc' = "check" /\ UNCHANGED <<child, until>>
       \/ /\ Running(job) /\ pc' = "interrupt" /\ until' = clock + Slack
          /\ Becomes(job, Signalled(child[job]))
    /\ Elsewhere /\ UNCHANGED <<todo, job, hung, world>>

LEMMA EndPulsesDoes ==
    ASSUME Shape, EndPulses
    PROVE  PulsesEnd
<1>1. phase = "transient" /\ Busy
  BY DEF Shape, Situated, EndPulses, Busy, Soak
<1>2. job = "transient" /\ job \in Jobs
  BY <1>1, JobIsTool
<1>3. Running(job) \/ Exited(job)
  BY <1>1, <1>2 DEF Shape, Attended, OnlyTheTool, InHand, EndPulses, NoJob, Waits
<1>4. child[job] \in Processes /\ child \in [Jobs -> Processes]
  BY <1>2 DEF Shape, Typed
<1>5. Signalled(child[job]) \in Processes
  BY <1>4 DEF Signalled, Processes
<1> QED BY <1>1, <1>2, <1>3, <1>4, <1>5 DEF PulsesEnd, EndPulses, Elsewhere, Becomes, Woken,
           Exited

Interrupted ==
    /\ phase = "transient" /\ pc = "interrupt" /\ Busy /\ job = "transient"
    /\ result' = child[job].code
    /\ \/ Exited(job) /\ pc' = "check" /\ UNCHANGED <<job, until, child, unwell>>
       \/ ~Exited(job) /\ Running(job) /\ Halts(job) /\ unwell' = unwell \cup {job}
    /\ Elsewhere /\ UNCHANGED <<todo, hung, findings, verified, faulty, late>>

LEMMA InterruptReturnsDoes ==
    ASSUME Shape, InterruptReturns
    PROVE  Interrupted
<1>1. phase = "transient" /\ Busy
  BY DEF Shape, Situated, InterruptReturns, Busy, Soak
<1>2. job = "transient" /\ job \in Jobs
  BY <1>1, JobIsTool
<1>3. Running(job) \/ Exited(job)
  BY <1>1, <1>2 DEF Shape, Attended, OnlyTheTool, InHand, InterruptReturns, NoJob, Waits
<1> QED BY <1>1, <1>2, <1>3, StopHalts DEF Interrupted, Shape, InterruptReturns, Elsewhere

Waited ==
    /\ pc = "wait" /\ Busy /\ job \in Tools(phase, missing) /\ job \in Jobs
    /\ result' = child[job].code
    /\ \/ Exited(job) /\ pc' = "check"
       \/ Running(job) /\ pc' = "expired" /\ (clock >= until \/ abort)
    /\ Elsewhere /\ UNCHANGED <<todo, job, until, hung, child, findings, world>>

LEMMA WaitReturnsDoes ==
    ASSUME Shape, WaitReturns
    PROVE  Waited
<1>1. Busy
  BY DEF Shape, Focused, WaitReturns, Busy, Soak
<1>2. job \in Tools(phase, missing) /\ job \in Jobs
  BY <1>1, JobIsTool DEF Shape, Focused, WaitReturns
<1>3. Running(job) \/ Exited(job)
  BY <1>1 DEF Shape, Attended, OnlyTheTool, InHand, WaitReturns, Waits
<1> QED BY <1>1, <1>2, <1>3 DEF Waited, WaitReturns, Woken, Elsewhere

Expired ==
    /\ pc = "expired" /\ Busy /\ job \in Tools(phase, missing) /\ job \in Jobs
    /\ hung' = (job \notin {"y-cruncher", "mprime"} /\ ~abort)
    /\ Halts(job) /\ (Running(job) \/ Exited(job))
    /\ Elsewhere /\ UNCHANGED <<todo, result, findings, world>>

LEMMA ExpireDoes ==
    ASSUME Shape, Expire
    PROVE  Expired
<1>1. Busy
  BY DEF Busy, Soak, Expire
<1>2. job \in Tools(phase, missing) /\ job \in Jobs
  BY <1>1, JobIsTool DEF Shape, Focused, Expire
<1>3. Running(job) \/ Exited(job)
  BY <1>1 DEF Shape, Attended, OnlyTheTool, InHand, Expire
<1> QED BY <1>1, <1>2, <1>3, StopHalts DEF Expired, Shape, Expire, Elsewhere

GraceEnds ==
    /\ pc = "grace" /\ Busy /\ job \in Jobs /\ pc' = "stopped"
    /\ \/ Exited(job) /\ UNCHANGED <<child, unwell>>
       \/ /\ Running(job) /\ unwell' = unwell \cup {job}
          /\ \/ Becomes(job, Killed(child[job]))
             \/ Becomes(job, Stuck(child[job]))
    /\ Elsewhere
    /\ UNCHANGED <<todo, job, until, result, hung, findings, verified, faulty, late>>

LEMMA EndGraceDoes ==
    ASSUME Shape, EndGrace
    PROVE  GraceEnds
<1>1. Busy
  BY DEF Busy, Soak, EndGrace
<1>2. job \in Jobs /\ (Running(job) \/ Exited(job))
  BY <1>1, JobIsTool DEF Shape, Attended, OnlyTheTool, InHand, EndGrace, Waits
<1> QED BY <1>1, <1>2, EndGraceKills DEF GraceEnds, Shape, EndGrace, Elsewhere

Reviewed == {"y-cruncher", "mprime", "transient"}

Stopped ==
    /\ pc = "stopped" /\ Busy /\ job \in Tools(phase, missing) /\ job \in Jobs
    /\ job \notin Loads
    /\ findings' = findings \cup (IF hung THEN {<<"fail", job>>} ELSE {})
                            \cup (IF job = "transient" THEN {<<"warn", job>>} ELSE {})
    /\ \/ job \in Reviewed /\ pc' = "check" /\ UNCHANGED child
       \/ job \notin Reviewed /\ pc' = Resume /\ Closes(job)
    /\ UNCHANGED <<phase, missing, clock, abort, todo, job, until, result, hung, paused, world>>

LEMMA AfterStopDoes ==
    ASSUME Shape, AfterStop
    PROVE  Stopped
<1>1. Busy
  BY DEF Busy, Soak, AfterStop
<1>2. job \in Tools(phase, missing) /\ job \in Jobs
  BY <1>1, JobIsTool DEF Shape, Focused, AfterStop
<1> QED BY <1>1, <1>2, CloseCloses DEF Stopped, Shape, AfterStop, Reviewed, Closes

\* A check, and one that is lost to an OSError.
Checked ==
    /\ pc = "check" /\ Busy /\ job \in Tools(phase, missing) /\ job \in Jobs
    /\ \/ /\ findings' = findings \cup {<<severity, job>> : severity \in Conclusions(job)}
          /\ UNCHANGED unwell
       \/ /\ job = "y-cruncher" /\ findings' = findings \cup {<<"gap", "phase">>}
          /\ unwell' = unwell \cup {"phase"}
    /\ pc' = Resume /\ Closes(job)
    /\ UNCHANGED <<phase, missing, clock, abort, job, until, result, hung, paused, verified, faulty, late>>

LEMMA CheckDoes ==
    ASSUME Shape, Check
    PROVE  Checked
<1>1. Busy
  BY DEF Busy, Soak, Check
<1>2. job \in Tools(phase, missing) /\ job \in Jobs
  BY <1>1, JobIsTool DEF Shape, Focused, Check
<1> QED BY <1>1, <1>2, CloseCloses DEF Checked, Shape, Check, Closes, world

LEMMA LoseDoes ==
    ASSUME Shape, LoseResult
    PROVE  Checked /\ phase = "ycruncher"
<1>1. Busy
  BY DEF Busy, Soak, LoseResult
<1>2. job \in Tools(phase, missing) /\ job \in Jobs
  BY <1>1, JobIsTool DEF Shape, Focused, LoseResult
<1>3. phase = "ycruncher"
  BY <1>2, Names, Numbers DEF LoseResult, Shape, Typed, Tools, Others
<1> QED BY <1>1, <1>2, <1>3, CloseCloses DEF Checked, Shape, LoseResult, Closes, Resume

Leaves ==
    /\ pc = "leave" \/ (pc = "stopped" /\ job \in Loads)
    /\ \/ \E j \in Loads : j \in Jobs /\ Running(j) /\ Halts(j) /\ UNCHANGED paused
       \/ /\ \A j \in Loads : ~Running(j)
          /\ pc' = "over" /\ paused' = FALSE /\ UNCHANGED <<job, until, child>>
    /\ UNCHANGED <<phase, missing, clock, abort, todo, i, result, hung, findings, world>>

LEMMA LeaveDoes ==
    ASSUME Shape, Leave
    PROVE  Leaves
<1>1. ASSUME NEW j \in Loads, Running(j), BeginStop(j)
      PROVE  j \in Jobs /\ Halts(j)
  BY <1>1, Names, StopHalts DEF Shape
<1> QED BY <1>1 DEF Leaves, Leave

Run == CpuRun \/ MemoryRun \/ YCruncherRun \/ MprimeRun \/ CombinedRun \/ Raise

LEMMA RunMoves ==
    ASSUME Shape, Run
    PROVE  \/ Passes
           \/ \E j \in Jobs, s \in Nat : Starts(j, s)
           \/ \E j \in Background(missing) : StartsLoad(j)
<1>1. Duration \in Nat
  BY Numbers
<1>2. CASE Raise
  BY <1>2 DEF Raise, Passes, Elsewhere
<1> QED BY <1>1, <1>2, CpuRuns, MemoryRuns, YCruncherRuns, MprimeRuns, CombinedRuns
        DEF Run, Starts

Tells(j) ==
    /\ j \notin Loads /\ Running(j) /\ Busy /\ j = job
    /\ ~child[j].frozen /\ ~child[j].told
    /\ Becomes(j, Telling(child[j]))
    /\ faulty' = faulty \cup {j} /\ unwell' = unwell \cup {j}
    /\ Elsewhere
    /\ UNCHANGED <<pc, todo, job, until, result, hung, findings, verified, late>>

LEMMA TellDoes ==
    ASSUME Shape, NEW j \in Jobs, Tell(j)
    PROVE  Tells(j)
<1>1. Busy /\ j = job
  BY DEF Shape, Attended, OnlyTheTool, InHand, Tell
<1> QED BY <1>1, TellTells DEF Tells, Shape, Tell, main, Elsewhere

SelfTested ==
    /\ Running("mprime") /\ Busy /\ job = "mprime" /\ "mprime" \in Jobs
    /\ Becomes("mprime", Tested(child["mprime"]))
    /\ verified' = verified \cup {"mprime"}
    /\ Elsewhere
    /\ UNCHANGED <<pc, todo, job, until, result, hung, findings, faulty, late, unwell>>

LEMMA PassSelfTestDoes ==
    ASSUME Shape, PassSelfTest
    PROVE  SelfTested
<1>1. "mprime" \in Jobs \ Loads
  BY Names DEF Others, Loads
<1>2. Busy /\ job = "mprime"
  BY <1>1 DEF Shape, Attended, OnlyTheTool, InHand, PassSelfTest
<1> QED BY <1>1, <1>2, PassPasses DEF SelfTested, Shape, PassSelfTest, main, Elsewhere

\* The run was whole.
Whole(j, code, complete) == code = "ok" /\ complete /\ (InTime(j) \/ child[j].signalled)

Exits(j, code, complete) ==
    /\ Running(j) /\ ~child[j].frozen /\ code \in AllCodes \ {"none"}
    /\ code \in Codes(j)
    /\ j \notin Loads => Busy /\ j = job
    /\ child[j].signalled => code \in {"ok", "signal"}
    /\ code = "unsupported" => clock = child[j].since /\ j \notin verified
    /\ j # "mprime" /\ complete => code = "ok" /\ (j \in Loads => InTime(j))
    /\ j = "mprime" => complete = child[j].complete
    /\ Becomes(j, Ended(child[j], code, complete))
    /\ verified' = IF j = "mprime"
                   THEN IF child[j].signalled \/ clock + 1 >= Duration THEN verified
                        ELSE verified \ {j}
                   ELSE IF Whole(j, code, complete) /\ ~child[j].told THEN verified \cup {j}
                        ELSE verified
    /\ faulty' = IF code = "fault" THEN faulty \cup {j} ELSE faulty
    /\ unwell' = IF Whole(j, code, complete)
                    \/ (child[j].signalled /\ (j \in Endless => complete))
                 THEN unwell ELSE unwell \cup {j}
    /\ Elsewhere
    /\ UNCHANGED <<pc, todo, job, until, result, hung, findings, late>>

LEMMA ExitDoes ==
    ASSUME Shape, NEW j \in Jobs, NEW code \in Codes(j), NEW complete \in BOOLEAN,
           Exit(j, code, complete)
    PROVE  Exits(j, code, complete)
<1>1. j \notin Loads => Busy /\ j = job
  BY DEF Shape, Attended, OnlyTheTool, InHand, Exit
<1> QED BY <1>1, ExitEnds DEF Exits, Shape, Exit, main, Elsewhere, Whole

LEMMA ExitSendsNothing ==
    ASSUME child \in [Jobs -> Processes], NEW j \in Jobs, NEW code, NEW complete,
           Exits(j, code, complete)
    PROVE  \A k \in Jobs : child'[k].signalled = child[k].signalled
<1>1. Becomes(j, Ended(child[j], code, complete))
  BY DEF Exits
<1>2. Ended(child[j], code, complete).signalled = child[j].signalled
  BY Fields
<1> QED BY <1>1, <1>2 DEF Becomes

Move ==
    \/ Passes
    \/ \E j \in Jobs, s \in Nat : Starts(j, s)
    \/ \E j \in Background(missing) : StartsLoad(j)
    \/ PulsesBegin \/ Flips \/ PulsesEnd \/ Interrupted
    \/ Pause \/ IdleEnds \/ Gather \/ Collect
    \/ Waited \/ Expired \/ GraceEnds \/ Stopped \/ Checked \/ Leaves
    \/ Tick \/ Abort \/ SelfTested
    \/ \E j \in Jobs : Tells(j)
    \/ \E j \in Jobs, code \in AllCodes, complete \in BOOLEAN : Exits(j, code, complete)
    \/ UNCHANGED vars

LEMMA Moves ==
    ASSUME Shape, [Next]_vars
    PROVE  Move
<1>1. CASE Run
  BY <1>1, RunMoves DEF Move
<1>2. CASE TransientRun \/ Pulse \/ EndPulses \/ InterruptReturns \/ WaitReturns \/ Expire
  BY <1>2, TransientDoes, PulseDoes, EndPulsesDoes, InterruptReturnsDoes, WaitReturnsDoes,
     ExpireDoes
     DEF Move
<1>3. CASE EndGrace \/ AfterStop \/ Check \/ LoseResult \/ Leave \/ PassSelfTest
  BY <1>3, EndGraceDoes, AfterStopDoes, CheckDoes, LoseDoes, LeaveDoes, PassSelfTestDoes DEF Move
<1>4. CASE Pause \/ IdleEnds \/ Gather \/ Collect \/ Tick \/ Abort \/ UNCHANGED vars
  BY <1>4 DEF Move
<1>5. ASSUME NEW j \in Jobs, Tell(j)
      PROVE  Move
  BY <1>5, TellDoes DEF Move
<1>6. ASSUME NEW j \in Jobs, NEW code \in Codes(j), NEW complete \in BOOLEAN,
             Exit(j, code, complete)
      PROVE  Move
  <2>1. Exits(j, code, complete)
    BY <1>6, ExitDoes
  <2>2. code \in AllCodes
    BY <2>1 DEF Exits
  <2> QED BY <2>1, <2>2 DEF Move
<1> QED BY <1>1, <1>2, <1>3, <1>4, <1>5, <1>6 DEF Next, Main, Environment, Run

-----------------------------------------------------------------------------
(* Every step preserves the shape *)

LEMMA Guards ==
    /\ CpuRun => phase = "cpu" /\ pc = "next"
    /\ MemoryRun => phase = "memory" /\ pc = "next"
    /\ YCruncherRun => phase = "ycruncher" /\ pc = "next"
    /\ MprimeRun => phase = "mprime" /\ pc = "next"
    /\ TransientRun => phase = "transient" /\ pc = "next"
    /\ CombinedRun => phase = "combined" /\ pc = "next"
    /\ Pulse \/ EndPulses => pc = "pulse"
    /\ InterruptReturns => pc = "interrupt"
    /\ Pause => pc = "start"
    /\ IdleEnds \/ WaitReturns => pc = "wait"
    /\ Gather => pc = "gather"
    /\ Collect => pc = "collect"
    /\ Expire => pc = "expired"
    /\ EndGrace => pc = "grace"
    /\ AfterStop => pc = "stopped"
    /\ Check => pc = "check"
    /\ Raise => pc = "next"
    /\ LoseResult => pc = "check"
    /\ Leave => pc \in {"leave", "stopped"}
  BY DEF CpuRun, MemoryRun, YCruncherRun, MprimeRun, TransientRun, CombinedRun, Pulse, EndPulses,
     InterruptReturns, Pause, IdleEnds, WaitReturns, Gather, Collect, Expire, EndGrace, AfterStop,
     Check, Raise, LoseResult, Leave

\* The steps of the tools and of time leave the phase where it is.
LEMMA PointStays ==
    ASSUME Tick \/ Environment \/ UNCHANGED vars
    PROVE  UNCHANGED <<phase, missing, findings, pc, todo, i, job, result, hung>>
<1>1. CASE Tick \/ Abort \/ PassSelfTest \/ UNCHANGED vars
  BY <1>1 DEF Tick, Abort, PassSelfTest, main, vars
<1>2. ASSUME NEW j \in Jobs, Tell(j)
      PROVE  UNCHANGED <<phase, missing, findings, main>>
  BY <1>2 DEF Tell
<1>3. ASSUME NEW j \in Jobs, NEW code \in Codes(j), NEW complete \in BOOLEAN,
             Exit(j, code, complete)
      PROVE  UNCHANGED <<phase, missing, findings, main>>
  BY <1>3 DEF Exit
<1> QED BY <1>1, <1>2, <1>3 DEF Environment, main

LEMMA PhaseStays ==
    ASSUME [Next]_vars
    PROVE  UNCHANGED <<phase, missing>>
<1>1. CASE CpuRun \/ MemoryRun \/ YCruncherRun \/ MprimeRun \/ TransientRun \/ CombinedRun
  BY <1>1 DEF CpuRun, MemoryRun, YCruncherRun, MprimeRun, TransientRun, CombinedRun
<1>2. CASE Pulse \/ EndPulses \/ InterruptReturns \/ Pause \/ IdleEnds \/ Gather \/ Collect
  BY <1>2 DEF Pulse, EndPulses, InterruptReturns, Pause, IdleEnds, Gather, Collect
<1>3. CASE WaitReturns \/ Expire \/ EndGrace \/ AfterStop \/ Check \/ Raise \/ LoseResult \/ Leave
  BY <1>3 DEF WaitReturns, Expire, EndGrace, AfterStop, Check, Raise, LoseResult, Leave
<1> QED BY <1>1, <1>2, <1>3, PointStays DEF Next, Main

LEMMA TodoStays ==
    ASSUME [Next]_vars, ~(MemoryRun \/ CombinedRun \/ Gather \/ Check)
    PROVE  UNCHANGED todo
<1>1. CASE CpuRun \/ YCruncherRun \/ MprimeRun \/ TransientRun \/ Pulse \/ EndPulses
  BY <1>1 DEF CpuRun, YCruncherRun, MprimeRun, TransientRun, Pulse, EndPulses, main
<1>2. CASE InterruptReturns \/ Pause \/ IdleEnds \/ Collect \/ WaitReturns \/ Expire
  BY <1>2 DEF InterruptReturns, Pause, IdleEnds, Collect, WaitReturns, Expire
<1>3. CASE EndGrace \/ AfterStop \/ Raise \/ LoseResult \/ Leave
  BY <1>3 DEF EndGrace, AfterStop, Raise, LoseResult, Leave
<1> QED BY <1>1, <1>2, <1>3, PointStays DEF Next, Main

LEMMA IndexStays ==
    ASSUME [Next]_vars, ~(AfterStop \/ Check)
    PROVE  UNCHANGED i
<1>1. CASE CpuRun \/ MemoryRun \/ YCruncherRun \/ MprimeRun \/ TransientRun \/ CombinedRun
  BY <1>1 DEF CpuRun, MemoryRun, YCruncherRun, MprimeRun, TransientRun, CombinedRun
<1>2. CASE Pulse \/ EndPulses \/ InterruptReturns \/ Pause \/ IdleEnds \/ Gather \/ Collect
  BY <1>2 DEF Pulse, EndPulses, InterruptReturns, Pause, IdleEnds, Gather, Collect, main
<1>3. CASE WaitReturns \/ Expire \/ EndGrace \/ Raise \/ LoseResult \/ Leave
  BY <1>3 DEF WaitReturns, Expire, EndGrace, Raise, LoseResult, Leave
<1> QED BY <1>1, <1>2, <1>3, PointStays DEF Next, Main

LEMMA NotesStay ==
    ASSUME [Next]_vars,
           ~(CpuRun \/ MemoryRun \/ YCruncherRun \/ MprimeRun \/ CombinedRun \/ IdleEnds \/ Raise),
           ~(EndPulses \/ AfterStop \/ Collect \/ Check \/ LoseResult)
    PROVE  UNCHANGED findings
<1>1. CASE TransientRun \/ Pulse \/ InterruptReturns \/ Pause \/ Gather
  BY <1>1 DEF TransientRun, Pulse, InterruptReturns, Pause, Gather
<1>2. CASE WaitReturns \/ Expire \/ EndGrace \/ Leave
  BY <1>2 DEF WaitReturns, Expire, EndGrace, Leave
<1> QED BY <1>1, <1>2, PointStays DEF Next, Main

LEMMA ConclusionsAreSeverities ==
    ASSUME NEW j
    PROVE  Conclusions(j) \subseteq Severities
<1>1. ASSUME NEW c, NEW s \in Severities
      PROVE  If(c, s) \subseteq Severities
  BY DEF If
<1>2. "fail" \in Severities /\ "gap" \in Severities /\ "warn" \in Severities
  BY DEF Severities
<1>3. CheckStressAppTest(j) \subseteq Severities
  BY <1>1, <1>2 DEF CheckStressAppTest
<1>4. CheckYCruncher(j) \subseteq Severities
  BY <1>1, <1>2 DEF CheckYCruncher
<1>5. CheckMprime(j) \subseteq Severities
  BY <1>1, <1>2 DEF CheckMprime
<1>6. CheckStressNG(j) \subseteq Severities
  BY <1>1, <1>2 DEF CheckStressNG
<1> QED BY <1>3, <1>4, <1>5, <1>6 DEF Conclusions

LEMMA NotedNext ==
    ASSUME Shape, [Next]_vars
    PROVE  Noted'
<1> DEFINE Notes == Severities \X (Jobs \cup {"phase"})
<1>a. i \in 0..(Wrap - 1) /\ findings \subseteq Notes /\ Wrap \in Nat \ {0}
  BY Numbers DEF Shape, Noted
<1>b. Busy \/ pc = "collect" => job \in Jobs
  BY JobIsTool
<1>c. (i + 1) % Wrap \in 0..(Wrap - 1)
  BY <1>a
<1>1. i' \in 0..(Wrap - 1)
  <2>1. i' \in {i, (i + 1) % Wrap}
    <3>1. CASE AfterStop \/ Check
      BY <3>1 DEF AfterStop, Check
    <3>2. CASE ~(AfterStop \/ Check)
      BY <3>2, IndexStays
    <3> QED BY <3>1, <3>2
  <2> QED BY <1>a, <1>c, <2>1
<1>2. findings' \subseteq Notes
  <2>1. CASE \/ CpuRun \/ MemoryRun \/ YCruncherRun \/ MprimeRun \/ CombinedRun \/ IdleEnds
             \/ Raise \/ LoseResult
    BY <1>a, <2>1 DEF CpuRun, MemoryRun, YCruncherRun, MprimeRun, CombinedRun, IdleEnds, Raise,
                      LoseResult, Severities
  <2>2. CASE EndPulses
    BY <1>a, <1>b, <2>2, EndPulsesDoes DEF EndPulses, PulsesEnd, Severities
  <2>3. CASE AfterStop
    BY <1>a, <1>b, <2>3, AfterStopDoes DEF Stopped, Severities
  <2>4. CASE Collect
    BY <1>a, <1>b, <2>4 DEF Collect, Severities
  <2>5. CASE Check
    <3>1. Conclusions(job) \subseteq Severities
      BY ConclusionsAreSeverities
    <3>2. job \in Jobs /\ findings' = findings \cup {<<severity, job>> : severity \in Conclusions(job)}
      BY <2>5, CheckDoes DEF Checked, Check
    <3>3. \A severity \in Conclusions(job) : <<severity, job>> \in Notes
      BY <3>1, <3>2
    <3> QED BY <1>a, <3>2, <3>3
  <2>6. CASE UNCHANGED findings
    BY <1>a, <2>6
  <2> QED BY <2>1, <2>2, <2>3, <2>4, <2>5, <2>6, NotesStay
<1> QED BY <1>1, <1>2 DEF Noted

\* A phase goes on to look after a tool only by starting it.
LEMMA SameTool ==
    ASSUME Shape, Move, phase = "memory", pc # "next", Busy'
    PROVE  Busy /\ job' = job
<1>a. \A j \in Loads : ~Running(j)
  BY DEF Shape, Attended, OnlyItsLoads
<1>b. pc \notin {"start", "gather", "collect", "pulse", "interrupt"} /\ ~Soak /\ (Busy => job \notin Loads)
  BY DEF Shape, Situated, Soak, Focused, Tools, Loads
<1>1. CASE Passes
  BY <1>a, <1>b, <1>1 DEF Passes, Elsewhere, Busy, Soak
<1>2. ASSUME NEW j \in Jobs, NEW s \in Nat, Starts(j, s)
      PROVE  Busy /\ job' = job
  BY <1>a, <1>b, <1>2 DEF Starts, Elsewhere, Busy, Soak
<1>3. ASSUME NEW j \in Background(missing), StartsLoad(j)
      PROVE  Busy /\ job' = job
  BY <1>a, <1>b, <1>3 DEF StartsLoad, Elsewhere, Background, Busy, Soak
<1>4. CASE PulsesBegin
  BY <1>a, <1>b, <1>4 DEF PulsesBegin, Elsewhere, Busy, Soak
<1>5. CASE Flips
  BY <1>a, <1>b, <1>5 DEF Flips, Elsewhere, Busy, Soak
<1>6. CASE PulsesEnd
  BY <1>a, <1>b, <1>6 DEF PulsesEnd, Elsewhere, Busy, Soak
<1>7. CASE Interrupted
  BY <1>a, <1>b, <1>7 DEF Interrupted, Elsewhere, Halts, Busy, Soak
<1>8. CASE Pause
  BY <1>a, <1>b, <1>8 DEF Pause, Busy, Soak
<1>9. CASE IdleEnds
  BY <1>a, <1>b, <1>9 DEF IdleEnds, Busy, Soak
<1>10. CASE Gather
  BY <1>a, <1>b, <1>10 DEF Gather, Busy, Soak
<1>11. CASE Collect
  BY <1>a, <1>b, <1>11 DEF Collect, Busy, Soak
<1>12. CASE Waited
  BY <1>a, <1>b, <1>12 DEF Waited, Elsewhere, Busy, Soak
<1>13. CASE Expired
  BY <1>a, <1>b, <1>13 DEF Expired, Elsewhere, Halts, Busy, Soak
<1>14. CASE GraceEnds
  BY <1>a, <1>b, <1>14 DEF GraceEnds, Elsewhere, Busy, Soak
<1>15. CASE Stopped
  BY <1>a, <1>b, <1>15 DEF Stopped, Closes, Resume, Reviewed, Busy, Soak
<1>16. CASE Checked
  BY <1>a, <1>b, <1>16 DEF Checked, Closes, Resume, Busy, Soak
<1>17. CASE Leaves
  BY <1>a, <1>b, <1>17 DEF Leaves, Halts, Busy, Soak
<1>18. CASE Tick
  BY <1>a, <1>b, <1>18 DEF Tick, main, Busy, Soak
<1>19. CASE Abort
  BY <1>a, <1>b, <1>19 DEF Abort, main, Busy, Soak
<1>20. CASE SelfTested
  BY <1>a, <1>b, <1>20 DEF SelfTested, Elsewhere, Busy, Soak
<1>21. ASSUME NEW j \in Jobs, Tells(j)
      PROVE  Busy /\ job' = job
  BY <1>a, <1>b, <1>21 DEF Tells, Elsewhere, Busy, Soak
<1>22. ASSUME NEW j \in Jobs, NEW code \in AllCodes, NEW complete \in BOOLEAN,
             Exits(j, code, complete)
      PROVE  Busy /\ job' = job
  BY <1>a, <1>b, <1>22 DEF Exits, Elsewhere, Busy, Soak
<1>23. CASE UNCHANGED vars
  BY <1>a, <1>b, <1>23 DEF vars, main, Busy, Soak
<1> QED BY <1>1, <1>2, <1>3, <1>4, <1>5, <1>6, <1>7, <1>8, <1>9, <1>10, <1>11, <1>12, <1>13,
           <1>14, <1>15, <1>16, <1>17, <1>18, <1>19, <1>20, <1>21, <1>22, <1>23 DEF Move

LEMMA RemoveAtRemoves ==
    ASSUME NEW S, NEW s \in Seq(S), NEW n \in 1..Len(s)
    PROVE  RemoveAt(s, n) \in Seq(S) /\ Range(s) \subseteq Range(RemoveAt(s, n)) \cup {s[n]}
<1> DEFINE a == SubSeq(s, 1, n - 1)
           b == SubSeq(s, n + 1, Len(s))
<1>0. Len(s) \in Nat /\ n \in Nat
  BY LenProperties
<1>1. /\ a \in Seq(S) /\ Len(a) = n - 1 /\ \A k \in 1..(n - 1) : a[k] = s[k]
  BY <1>0, SubSeqProperties
<1>2. /\ b \in Seq(S) /\ Len(b) = Len(s) - n /\ \A k \in 1..(Len(s) - n) : b[k] = s[n + k]
  BY <1>0, SubSeqProperties
<1> HIDE DEF a, b
<1>3. /\ a \o b \in Seq(S) /\ Len(a \o b) = Len(s) - 1
      /\ \A k \in 1..(Len(s) - 1) : (a \o b)[k] = IF k < n THEN s[k] ELSE s[k + 1]
  <2>1. /\ a \o b \in Seq(S) /\ Len(a \o b) = Len(a) + Len(b)
        /\ \A k \in 1..(Len(a) + Len(b)) : (a \o b)[k] = IF k <= Len(a) THEN a[k] ELSE b[k - Len(a)]
    BY <1>1, <1>2, ConcatProperties
  <2>2. Len(a) + Len(b) = Len(s) - 1 /\ Len(a) = n - 1
    BY <1>0, <1>1, <1>2
  <2>3. ASSUME NEW k \in 1..(Len(s) - 1)
        PROVE  (a \o b)[k] = IF k < n THEN s[k] ELSE s[k + 1]
    <3>1. (a \o b)[k] = IF k <= n - 1 THEN a[k] ELSE b[k - (n - 1)]
      BY <2>1, <2>2
    <3>2. CASE k < n
      <4>1. k \in 1..(n - 1)
        BY <1>0, <3>2
      <4> QED BY <1>0, <1>1, <3>1, <3>2, <4>1
    <3>3. CASE ~(k < n)
      <4>1. k - (n - 1) \in 1..(Len(s) - n) /\ n + (k - (n - 1)) = k + 1 /\ ~(k <= n - 1)
        BY <1>0, <3>3
      <4> QED BY <1>2, <3>1, <3>3, <4>1
    <3> QED BY <3>2, <3>3
  <2> QED BY <2>1, <2>2, <2>3
<1>4. RemoveAt(s, n) = a \o b
  BY DEF RemoveAt, a, b
<1>5. ASSUME NEW x \in Range(s)
      PROVE  x \in Range(a \o b) \cup {s[n]}
  <2>1. PICK k \in 1..Len(s) : x = s[k]
    BY <1>0, LenProperties DEF Range
  <2>a. \A q \in 1..(Len(s) - 1) : (a \o b)[q] \in Range(a \o b)
    <3>1. DOMAIN (a \o b) = 1..(Len(s) - 1)
      BY <1>3, LenProperties
    <3> QED BY <3>1 DEF Range
  <2>2. CASE k < n
    <3>1. k \in 1..(Len(s) - 1) /\ (a \o b)[k] = s[k]
      BY <1>0, <1>3, <2>1, <2>2
    <3> QED BY <2>1, <2>a, <3>1
  <2>3. CASE k > n
    <3>1. k - 1 \in 1..(Len(s) - 1) /\ (a \o b)[k - 1] = s[k]
      <4>1. k - 1 \in 1..(Len(s) - 1) /\ ~(k - 1 < n) /\ (k - 1) + 1 = k
        BY <1>0, <2>1, <2>3
      <4> QED BY <1>3, <4>1
    <3> QED BY <2>1, <2>a, <3>1
  <2> QED BY <1>0, <2>1, <2>2, <2>3
<1> QED BY <1>3, <1>4, <1>5

LEMMA ListedNext ==
    ASSUME Shape, Move, [Next]_vars
    PROVE  Listed'
<1>a. UNCHANGED <<phase, missing>>
  BY PhaseStays
<1>b. phase \in {"cpu", "memory", "mprime", "ycruncher", "transient", "idle", "combined"}
  BY Numbers DEF Shape, Typed
<1>1. CASE phase = "cpu"
  <2>1. ~(MemoryRun \/ CombinedRun \/ Gather)
    BY <1>1 DEF Shape, Situated, MemoryRun, CombinedRun, Gather
  <2>2. todo \in Seq(Cpu)
    BY <1>1 DEF Shape, Listed
  <2>3. CASE Check
    BY <1>1, <1>a, <2>2, <2>3, RemoveAtRemoves DEF Check, Listed
  <2>4. CASE ~Check
    BY <1>1, <1>a, <2>1, <2>2, <2>4, TodoStays DEF Listed
  <2> QED BY <2>3, <2>4
<1>2. CASE phase = "memory"
  <2>1. ~(CombinedRun \/ Gather) /\ (Check => UNCHANGED todo)
    BY <1>2 DEF Shape, Situated, CombinedRun, Gather, Check
  <2>2. \/ todo = <<"stressapptest", "vm">> /\ pc \in {"next", "leave", "over"}
        \/ todo = <<"vm">> /\ (Busy => job = "stressapptest")
        \/ todo = <<>> /\ (Busy => job = "vm")
    BY <1>2 DEF Shape, Listed
  <2>3. CASE MemoryRun
    <3>1. /\ Len(<<"stressapptest", "vm">>) = 2 /\ Len(<<"vm">>) = 1 /\ Len(<<>>) = 0
          /\ Tail(<<"stressapptest", "vm">>) = <<"vm">>
      OBVIOUS
    <3>2. \/ todo = <<"stressapptest", "vm">> /\ todo' = <<"vm">>
             /\ (pc' = "next" \/ (pc' = "wait" /\ job' = "stressapptest"))
          \/ todo = <<"vm">> /\ todo' = <<>> /\ pc' = "wait" /\ job' = "vm"
          \/ UNCHANGED todo /\ pc' = "leave"
      <4>2. CASE todo = <<"stressapptest", "vm">>
        BY <2>3, <3>1, <4>2 DEF MemoryRun, Foreground
      <4>3. CASE todo = <<"vm">>
        BY <2>3, <3>1, <4>3 DEF MemoryRun, Foreground
      <4>4. CASE todo = <<>>
        BY <2>3, <3>1, <4>4 DEF MemoryRun, Foreground
      <4> QED BY <2>2, <4>2, <4>3, <4>4
    <3> QED BY <1>2, <1>a, <2>2, <3>2 DEF Listed, Busy, Soak
  <2>4. CASE ~MemoryRun
    <3>1. UNCHANGED todo
      BY <2>1, <2>4, TodoStays
    <3>2. CASE pc = "next"
      <4>1. pc' \in {"next", "leave"}
        <5>1. CASE Main
          <6>1. Raise
            BY <1>2, <2>4, <3>2, <5>1, Guards DEF Main
          <6> QED BY <6>1 DEF Raise
        <5>2. CASE Tick \/ Environment \/ UNCHANGED vars
          BY <3>2, <5>2, PointStays
        <5> QED BY <5>1, <5>2 DEF Next
      <4> QED BY <1>2, <1>a, <2>2, <3>1, <4>1 DEF Listed, Busy
    <3>3. CASE pc # "next"
      <4>1. Busy' => Busy /\ job' = job
        BY <1>2, <3>3, SameTool
      <4>2. pc \in {"leave", "over"} => pc' \in {"leave", "over"}
        <5>1. \A j \in Loads : ~Running(j)
          BY <1>2 DEF Shape, Attended, OnlyItsLoads
        <5>2. CASE Main /\ pc \in {"leave", "over"}
          <6>1. Leave
            BY <5>2, Guards DEF Main
          <6> QED BY <5>1, <6>1 DEF Leave
        <5>3. CASE Tick \/ Environment \/ UNCHANGED vars
          BY <5>3, PointStays
        <5> QED BY <5>2, <5>3 DEF Next
      <4> QED BY <1>2, <1>a, <2>2, <3>1, <3>3, <4>1, <4>2 DEF Listed
    <3> QED BY <3>2, <3>3
  <2> QED BY <2>3, <2>4
<1>3. CASE phase = "combined"
  <2>1. \/ todo = <<"disk", "iperf3">> /\ ~missing
        \/ todo = <<"iperf3">> /\ ~missing /\ pc # "start"
        \/ todo = <<"disk">> /\ missing
        \/ todo = <<>> /\ pc # "start"
    BY <1>3 DEF Shape, Listed
  <2>2. pc' = "start" => pc = "start" /\ UNCHANGED todo
    <3>1. pc' = "start" => pc = "start"
      BY DEF Move, Passes, Starts, StartsLoad, PulsesBegin, Flips, PulsesEnd, Interrupted, Pause,
         IdleEnds,
           Gather, Collect, Waited, Expired, Halts, GraceEnds, Stopped, Checked, Leaves, Tick, Abort,
           SelfTested, Tells, Exits, Resume, main, vars
    <3>2. pc = "start" => ~(MemoryRun \/ CombinedRun \/ Gather \/ Check)
      BY DEF MemoryRun, CombinedRun, Gather, Check
    <3> QED BY <3>1, <3>2, TodoStays
  <2>3. \/ UNCHANGED todo
        \/ todo # <<>> /\ todo' = Tail(todo) /\ pc' # "start"
        \/ todo' = Plan(phase, missing) /\ pc' # "start"
    <3>1. ~MemoryRun /\ (Check => UNCHANGED todo)
      BY <1>3 DEF MemoryRun, Check
    <3>2. CASE CombinedRun \/ Gather
      BY <3>2 DEF CombinedRun, Gather, Foreground
    <3> QED BY <3>1, <3>2, TodoStays
  <2>4. /\ Tail(<<"disk", "iperf3">>) = <<"iperf3">> /\ Tail(<<"iperf3">>) = <<>>
        /\ Tail(<<"disk">>) = <<>>
    OBVIOUS
  <2>5. Plan(phase, missing) = IF missing THEN <<"disk">> ELSE <<"disk", "iperf3">>
    BY <1>3 DEF Plan
  <2>6. missing \in BOOLEAN
    BY DEF Shape, Typed
  <2> QED BY <1>3, <1>a, <2>1, <2>2, <2>3, <2>4, <2>5, <2>6 DEF Listed
<1>4. CASE phase \notin {"cpu", "memory", "combined"}
  <2>1. ~(MemoryRun \/ CombinedRun \/ Gather) /\ (Check => UNCHANGED todo)
    BY <1>b, <1>4 DEF Shape, Situated, MemoryRun, CombinedRun, Gather, Check
  <2> QED BY <1>b, <1>4, <1>a, <2>1, TodoStays DEF Shape, Listed, Plan
<1> QED BY <1>1, <1>2, <1>3, <1>4

\* A load that was started is not forgotten.
LEMMA LoadsKept ==
    ASSUME Shape, Move, phase = "combined", Early'
    PROVE  /\ \A k \in Background(missing) : child[k].run # "none" => child'[k].run # "none"
           /\ pc \notin {"start", "next"} => Early
<1> DEFINE Goal == /\ \A k \in Background(missing) : child[k].run # "none" => child'[k].run # "none"
                   /\ pc \notin {"start", "next"} => Early
<1>a. child \in [Jobs -> Processes] /\ Situated /\ Focused /\ (Busy \/ pc = "collect" => job \in Jobs)
  BY JobIsTool DEF Shape, Typed
<1>b. Jobs = Cpu \cup Others \cup Loads /\ (\A j \in Cpu : j \notin Others \cup Loads)
  BY Names
<1>c. \A j \in Loads : j \in Jobs
  BY <1>b
<1>d. Tools(phase, missing) = {"stressapptest"} /\ Background(missing) \subseteq Loads
  BY DEF Tools, Background, Loads
<1>e. (Busy => job \notin Loads \/ pc \in {"grace", "stopped"}) /\ pc \notin {"pulse", "interrupt"} /\ ~Soak
  BY <1>a, <1>d DEF Focused, Situated, Loads, Soak
<1>1. CASE Passes
  BY <1>a, <1>c, <1>d, <1>e, <1>1 DEF Passes, Elsewhere, Early, Busy, Soak, Loads, Background,
     Running, Exited
<1>2. ASSUME NEW j \in Jobs, NEW s \in Nat, Starts(j, s)
      PROVE  Goal
  BY <1>a, <1>c, <1>d, <1>e, <1>2 DEF Starts, Elsewhere, Becomes, Fresh, NoChild, Early, Busy,
     Soak, Loads, Background, Running, Exited
<1>3. ASSUME NEW j \in Background(missing), StartsLoad(j)
      PROVE  Goal
  BY <1>a, <1>c, <1>d, <1>e, <1>3 DEF StartsLoad, Elsewhere, Becomes, Fresh, NoChild, Background,
     Early, Busy, Soak, Loads, Background, Running, Exited
<1>4. CASE PulsesBegin
  BY <1>a, <1>c, <1>d, <1>e, <1>4 DEF PulsesBegin, Elsewhere, Becomes, Fresh, NoChild, Early,
     Busy, Soak, Loads, Background, Running, Exited
<1>5. CASE Flips
  BY <1>a, <1>c, <1>d, <1>e, <1>5 DEF Flips, Elsewhere, Becomes, Early, Busy, Soak, Loads,
     Background, Running, Exited
<1>6. CASE PulsesEnd
  BY <1>a, <1>c, <1>d, <1>e, <1>6 DEF PulsesEnd, Elsewhere, Becomes, Signalled, Early, Busy, Soak,
     Loads, Background, Running, Exited
<1>7. CASE Interrupted
  BY <1>a, <1>c, <1>d, <1>e, <1>7 DEF Interrupted, Elsewhere, Becomes, Signalled, Halts, Early,
     Busy, Soak, Loads, Background, Running, Exited
<1>8. CASE Pause
  BY <1>a, <1>c, <1>d, <1>e, <1>8 DEF Pause, Early, Busy, Soak, Loads, Background, Running, Exited
<1>9. CASE IdleEnds
  BY <1>a, <1>c, <1>d, <1>e, <1>9 DEF IdleEnds, Early, Busy, Soak, Loads, Background, Running,
     Exited
<1>10. CASE Gather
  BY <1>a, <1>c, <1>d, <1>e, <1>10 DEF Gather, Early, Busy, Soak, Loads, Background, Running,
     Exited
<1>11. CASE Collect
  BY <1>a, <1>c, <1>d, <1>e, <1>11 DEF Collect, Early, Busy, Soak, Loads, Background, Running,
     Exited
<1>12. CASE Waited
  BY <1>a, <1>c, <1>d, <1>e, <1>12 DEF Waited, Elsewhere, Early, Busy, Soak, Loads, Background,
     Running, Exited
<1>13. CASE Expired
  BY <1>a, <1>c, <1>d, <1>e, <1>13 DEF Expired, Elsewhere, Becomes, Signalled, Halts, Early, Busy,
     Soak, Loads, Background, Running, Exited
<1>14. CASE GraceEnds
  BY <1>a, <1>c, <1>d, <1>e, <1>14 DEF GraceEnds, Elsewhere, Becomes, Early, Busy, Soak, Loads,
     Background, Running, Exited
<1>15. CASE Stopped
  BY <1>a, <1>c, <1>d, <1>e, <1>15 DEF Stopped, Closes, Becomes, NoChild, Resume, Reviewed, Early,
     Busy, Soak, Loads, Background, Running, Exited
<1>16. CASE Checked
  BY <1>a, <1>c, <1>d, <1>e, <1>16 DEF Checked, Closes, Becomes, NoChild, Resume, Early, Busy,
     Soak, Loads, Background, Running, Exited
<1>17. CASE Leaves
  BY <1>a, <1>c, <1>d, <1>e, <1>17 DEF Leaves, Becomes, Signalled, Halts, Early, Busy, Soak,
     Loads, Background, Running, Exited
<1>18. CASE Tick
  BY <1>a, <1>c, <1>d, <1>e, <1>18 DEF Tick, main, Early, Busy, Soak, Loads, Background, Running,
     Exited
<1>19. CASE Abort
  BY <1>a, <1>c, <1>d, <1>e, <1>19 DEF Abort, main, Early, Busy, Soak, Loads, Background, Running,
     Exited
<1>20. CASE SelfTested
  BY <1>a, <1>c, <1>d, <1>e, <1>20 DEF SelfTested, Elsewhere, Becomes, Early, Busy, Soak, Loads,
     Background, Running, Exited
<1>21. ASSUME NEW j \in Jobs, Tells(j)
      PROVE  Goal
  BY <1>a, <1>c, <1>d, <1>e, <1>21 DEF Tells, Elsewhere, Becomes, Early, Busy, Soak, Loads,
     Background, Running, Exited
<1>22. ASSUME NEW j \in Jobs, NEW code \in AllCodes, NEW complete \in BOOLEAN,
             Exits(j, code, complete)
      PROVE  Goal
  <2>1. \A k \in Jobs : child[k].run # "none" => child'[k].run # "none"
    BY <1>a, <1>22, Fields DEF Exits, Becomes
  <2> QED BY <1>c, <1>d, <1>22, <2>1 DEF Exits, Elsewhere, Early, Busy, Soak
<1>23. CASE UNCHANGED vars
  BY <1>a, <1>c, <1>d, <1>e, <1>23 DEF vars, main, Early, Busy, Soak, Loads, Background, Running,
     Exited
<1> QED BY <1>1, <1>2, <1>3, <1>4, <1>5, <1>6, <1>7, <1>8, <1>9, <1>10, <1>11, <1>12, <1>13,
           <1>14, <1>15, <1>16, <1>17, <1>18, <1>19, <1>20, <1>21, <1>22, <1>23 DEF Move

LEMMA LaunchedNext ==
    ASSUME Shape, Move, [Next]_vars
    PROVE  Launched'
<1> SUFFICES ASSUME phase = "combined", Early', NEW k \in Background(missing)
             PROVE  (pc = "start" \/ (pc = "next" /\ k \in Range(todo)))' \/ child'[k].run # "none"
  BY PhaseStays DEF Launched
<1>a. /\ child[k].run # "none" => child'[k].run # "none"
      /\ pc \notin {"start", "next"} => Early
  BY LoadsKept
<1>b. Early => pc = "start" \/ (pc = "next" /\ k \in Range(todo)) \/ child[k].run # "none"
  BY DEF Shape, Launched
<1>c. missing \in BOOLEAN
  BY DEF Shape, Typed
<1>1. CASE pc = "start"
  <2>1. CASE Main
    <3>1. Pause
      BY <1>1, <2>1, Guards DEF Main
    <3>2. todo = Plan("combined", missing) /\ UNCHANGED todo
      BY <1>1, <3>1 DEF Shape, Listed, Pause, Plan
    <3>3. k \in Range(todo)
      BY <1>c, <3>2, PlanRanges
    <3> QED BY <3>1, <3>2, <3>3 DEF Pause
  <2>2. CASE Tick \/ Environment \/ UNCHANGED vars
    BY <1>1, <2>2, PointStays
  <2> QED BY <2>1, <2>2 DEF Next
<1>2. CASE pc = "next"
  <2>0. Early
    BY <1>2 DEF Early, Busy
  <2>1. CASE CombinedRun
    <3>1. CASE todo = <<>>
      <4>1. k \notin Range(todo)
        BY <3>1 DEF Range
      <4> QED BY <1>a, <1>b, <1>2, <2>0, <4>1
    <3>2. ASSUME NEW j \in Background(missing), StartsLoad(j), Range(todo) \subseteq Range(todo') \cup {j}
          PROVE  (pc = "next" /\ k \in Range(todo))' \/ child'[k].run # "none"
      <4>1. child'[j].run = "running" /\ pc' = "next"
        BY <1>2, <3>2, Numbers, FreshFields DEF StartsLoad, Becomes
      <4> QED BY <1>a, <1>b, <1>2, <2>0, <3>2, <4>1
    <3> QED BY <2>1, <3>1, <3>2, CombinedRuns
  <2>2. CASE Main /\ ~CombinedRun
    <3>1. Raise
      BY <1>2, <2>2, Guards DEF Main
    <3> QED BY <3>1 DEF Raise, Early
  <2>3. CASE Tick \/ Environment \/ UNCHANGED vars
    BY <1>a, <1>b, <1>2, <2>0, <2>3, PointStays
  <2> QED BY <2>1, <2>2, <2>3 DEF Next
<1>3. CASE pc \notin {"start", "next"}
  BY <1>a, <1>b, <1>3
<1> QED BY <1>1, <1>2, <1>3

LEMMA FocusedNext ==
    ASSUME Shape, Move
    PROVE  Focused'
<1>a. /\ Situated /\ Focused
      /\ Busy \/ pc = "collect" => job \in Jobs
  BY JobIsTool DEF Shape, Typed, Attended
<1>b. Jobs = Cpu \cup Others \cup Loads /\ \A j \in Cpu : j \notin Others \cup Loads
  BY Names
<1>c. phase \in {"cpu", "memory", "mprime", "ycruncher", "transient", "idle", "combined"}
  BY Numbers DEF Shape, Typed
<1>1. CASE Passes \/ PulsesBegin \/ Flips \/ PulsesEnd \/ Interrupted
  BY <1>a, <1>b, <1>c, <1>1 DEF Passes, Elsewhere, PulsesBegin, Becomes, Fresh, NoChild, Flips,
     PulsesEnd, Signalled, Interrupted, Halts, Focused, Situated, Busy, Soak, Tools, Others, Loads
<1>2. ASSUME NEW j \in Jobs, NEW s \in Nat, Starts(j, s)
      PROVE  Focused'
  BY <1>a, <1>b, <1>c, <1>2 DEF Starts, Elsewhere, Becomes, Fresh, NoChild, Focused, Situated,
     Busy, Soak, Tools, Others, Loads
<1>3. ASSUME NEW j \in Background(missing), StartsLoad(j)
      PROVE  Focused'
  BY <1>a, <1>b, <1>c, <1>3 DEF StartsLoad, Elsewhere, Becomes, Fresh, NoChild, Background,
     Focused, Situated, Busy, Soak, Tools, Others, Loads
<1>4. CASE Pause
  <2>1. phase \in {"idle", "combined"} /\ job = NoJob
    BY <1>a, <1>c, <1>4 DEF Pause, Situated, Focused
  <2> QED BY <1>4, <2>1 DEF Pause, Focused, Busy, Soak
<1>5. CASE IdleEnds \/ Collect \/ Waited \/ Expired \/ GraceEnds
  BY <1>a, <1>b, <1>c, <1>5 DEF IdleEnds, Collect, Waited, Elsewhere, Expired, Becomes, Signalled,
     Halts, GraceEnds, Focused, Situated, Busy, Soak, Tools, Others, Loads
<1>6. CASE Gather
  <2>1. phase = "combined"
    BY <1>a, <1>c, <1>6 DEF Gather, Situated
  <2>2. ASSUME todo # <<>>, job' = Head(todo)
        PROVE  job' \in Background(missing)
    <3>1. \/ todo = <<"disk", "iperf3">> /\ ~missing
          \/ todo = <<"iperf3">> /\ ~missing
          \/ todo = <<"disk">> /\ missing
      BY <2>1, <2>2 DEF Shape, Listed
    <3>2. Head(<<"disk", "iperf3">>) = "disk" /\ Head(<<"iperf3">>) = "iperf3" /\ Head(<<"disk">>)
       = "disk"
      OBVIOUS
    <3> QED BY <2>2, <3>1, <3>2 DEF Background
  <2> QED BY <1>a, <1>6, <2>1, <2>2 DEF Gather, Focused, Busy, Soak
<1>7. CASE Stopped \/ Checked \/ Tick \/ Abort \/ SelfTested
  BY <1>a, <1>b, <1>c, <1>7 DEF Stopped, Closes, Becomes, NoChild, Resume, Reviewed, Checked,
     Tick, main, Abort, SelfTested, Elsewhere, Focused, Situated, Busy, Soak, Tools, Others, Loads
<1>8. CASE Leaves
  <2>1. ASSUME NEW j \in Loads, j \in Jobs, Running(j), Halts(j)
        PROVE  Focused'
    <3>1. phase = "combined" /\ pc' = "grace" /\ job' = j
      BY <2>1 DEF Halts, Shape, Attended, OnlyItsLoads
    <3> QED BY <1>a, <1>8, <2>1, <3>1 DEF Leaves, Focused, Busy, Soak
  <2>2. CASE pc' = "over" /\ paused' = FALSE
    BY <1>a, <1>c, <1>8, <2>2 DEF Leaves, Focused, Busy, Soak
  <2> QED BY <1>8, <2>1, <2>2 DEF Leaves
<1>9. ASSUME NEW j \in Jobs, Tells(j)
      PROVE  Focused'
  BY <1>a, <1>b, <1>c, <1>9 DEF Tells, Elsewhere, Becomes, Focused, Situated, Busy, Soak, Tools,
     Others, Loads
<1>10. ASSUME NEW j \in Jobs, NEW code \in AllCodes, NEW complete \in BOOLEAN,
             Exits(j, code, complete)
      PROVE  Focused'
  BY <1>a, <1>b, <1>c, <1>10 DEF Exits, Elsewhere, Becomes, Ended, Focused, Situated, Busy, Soak,
     Tools, Others, Loads
<1>11. CASE UNCHANGED vars
  BY <1>a, <1>b, <1>c, <1>11 DEF vars, main, Focused, Situated, Busy, Soak, Tools, Others, Loads
<1> QED BY <1>1, <1>2, <1>3, <1>4, <1>5, <1>6, <1>7, <1>8, <1>9, <1>10, <1>11 DEF Move

LEMMA TypedNext ==
    ASSUME Shape, Move
    PROVE  Typed'
<1>a. /\ Typed
      /\ Busy \/ pc = "collect" => job \in Jobs
  BY JobIsTool DEF Shape, Typed, Attended
<1>b. Jobs = Cpu \cup Others \cup Loads /\ \A j \in Cpu : j \notin Others \cup Loads
  BY Names
<1>c. phase \in {"cpu", "memory", "mprime", "ycruncher", "transient", "idle", "combined"}
  BY Numbers DEF Shape, Typed
<1>d. \A j \in Jobs : child[j].code \in AllCodes
  BY <1>a DEF Typed, Processes
<1>e. Duration \in Nat /\ Slack \in Nat /\ Grace \in Nat /\ clock \in Nat /\ until \in Nat
  BY <1>a, Numbers DEF Typed
<1>1. CASE Passes \/ PulsesBegin
  BY <1>a, <1>b, <1>c, <1>1, Numbers DEF Passes, Elsewhere, PulsesBegin, Becomes, Fresh, NoChild,
     Typed, Waits, Points, AllCodes, Endless, Overdue, world, Others, Loads
<1>2. ASSUME NEW j \in Jobs, NEW s \in Nat, Starts(j, s)
      PROVE  Typed'
  <2>1. until' \in Nat
    BY <1>e, <1>2 DEF Starts
  <2>2. pc' \in Points /\ result' \in AllCodes
    BY <1>2 DEF Starts, Points, Waits, AllCodes
  <2> QED BY <1>a, <1>2, <2>1, <2>2 DEF Starts, Typed, Becomes, Elsewhere, world
<1>3. ASSUME NEW j \in Background(missing), StartsLoad(j)
      PROVE  Typed'
  BY <1>a, <1>b, <1>c, <1>3, Numbers DEF StartsLoad, Elsewhere, Becomes, Fresh, NoChild,
     Background, Typed, Waits, Points, AllCodes, Endless, Overdue, world, Others, Loads
<1>4. CASE Flips \/ Pause \/ IdleEnds
  BY <1>a, <1>b, <1>c, <1>4, Numbers DEF Flips, Elsewhere, Becomes, Pause, IdleEnds, Typed, Waits,
     Points, AllCodes, Endless, Overdue, world, Others, Loads
<1>5. CASE PulsesEnd
  <2>1. until' \in Nat
    BY <1>e, <1>5 DEF PulsesEnd
  <2>2. pc' \in Points /\ result' \in AllCodes
    BY <1>a, <1>d, <1>5 DEF PulsesEnd, Points, Waits
  <2> QED BY <1>a, <1>5, <2>1, <2>2 DEF PulsesEnd, Typed, Becomes, Elsewhere, world
<1>6. CASE Interrupted
  <2>1. until' \in Nat
    BY <1>e, <1>6 DEF Interrupted, Halts
  <2>2. pc' \in Points /\ result' \in AllCodes
    BY <1>a, <1>d, <1>6 DEF Interrupted, Halts, Points, Waits
  <2>3. child' \in [Jobs -> Processes] /\ job' \in Jobs
    BY <1>a, <1>6 DEF Interrupted, Halts, Becomes, Typed
  <2> QED BY <1>a, <1>6, <2>1, <2>2, <2>3 DEF Interrupted, Typed, Elsewhere
<1>7. CASE Gather
  <2>1. until' \in Nat /\ pc' \in Points
    BY <1>e, <1>7 DEF Gather, Points, Waits
  <2>2. job' \in Jobs \cup {NoJob}
    <3>1. CASE todo = <<>>
      BY <1>a, <1>7, <3>1 DEF Gather, Typed
    <3>2. CASE todo # <<>>
      <4>1. pc' = "collect" /\ Focused'
        BY <1>7, <3>2, FocusedNext DEF Move, Gather
      <4>2. job' \in Background(missing)' /\ UNCHANGED missing
        BY <1>7, <4>1 DEF Focused, Gather
      <4> QED BY <1>b, <4>2 DEF Background, Loads
    <3> QED BY <3>1, <3>2
  <2> QED BY <1>a, <1>7, <2>1, <2>2 DEF Gather, Typed, world
<1>8. CASE Collect
  BY <1>a, <1>b, <1>c, <1>8, Numbers DEF Collect, Typed, Waits, Points, AllCodes, Endless,
     Overdue, world, Others, Loads
<1>9. CASE Waited
  <2>1. pc' \in Points /\ result' \in AllCodes
    BY <1>a, <1>d, <1>9 DEF Waited, Points, Waits
  <2> QED BY <1>a, <1>9, <2>1 DEF Waited, Typed, Elsewhere, world
<1>10. CASE Expired
  BY <1>a, <1>b, <1>c, <1>10, Numbers DEF Expired, Elsewhere, Becomes, Signalled, Halts, Typed,
     Waits, Points, AllCodes, Endless, Overdue, world, Others, Loads
<1>11. CASE GraceEnds \/ Stopped \/ Checked
  BY <1>a, <1>b, <1>c, <1>11, Numbers DEF GraceEnds, Elsewhere, Becomes, Stopped, Closes, NoChild,
     Resume, Reviewed, Checked, Typed, Waits, Points, AllCodes, Endless, Overdue, world, Others,
     Loads
<1>12. CASE Leaves
  <2>1. ASSUME NEW j \in Loads, j \in Jobs, Running(j), Halts(j), UNCHANGED paused
        PROVE  Typed'
    <3>1. until' \in Nat /\ pc' \in Points /\ child' \in [Jobs -> Processes] /\ job' = j
      BY <1>e, <2>1 DEF Halts, Becomes, Points, Waits
    <3> QED BY <1>a, <1>12, <2>1, <3>1 DEF Leaves, Typed, world
  <2>2. CASE pc' = "over" /\ paused' = FALSE /\ UNCHANGED <<job, until, child>>
    BY <1>a, <1>12, <2>2 DEF Leaves, Typed, Points, world
  <2> QED BY <1>12, <2>1, <2>2 DEF Leaves
<1>13. CASE Tick
  BY <1>a, <1>b, <1>c, <1>13, Numbers DEF Tick, main, Typed, Waits, Points, AllCodes, Endless,
     Overdue, world, Others, Loads
<1>14. CASE Abort
  BY <1>a, <1>b, <1>c, <1>14, Numbers DEF Abort, main, Typed, Waits, Points, AllCodes, Endless,
     Overdue, world, Others, Loads
<1>15. CASE SelfTested \/ UNCHANGED vars
  BY <1>a, <1>b, <1>c, <1>15, Numbers DEF SelfTested, Elsewhere, Becomes, vars, main, Typed,
     Waits, Points, AllCodes, Endless, Overdue, world, Others, Loads
<1>16. ASSUME NEW j \in Jobs, Tells(j)
      PROVE  Typed'
  BY <1>a, <1>b, <1>c, <1>16, Numbers DEF Tells, Elsewhere, Becomes, Typed, Waits, Points,
     AllCodes, Endless, Overdue, world, Others, Loads
<1>17. ASSUME NEW j \in Jobs, NEW code \in AllCodes, NEW complete \in BOOLEAN,
             Exits(j, code, complete)
      PROVE  Typed'
  BY <1>a, <1>b, <1>c, <1>17, Numbers DEF Exits, Elsewhere, Becomes, Ended, Typed, Waits, Points,
     AllCodes, Endless, Overdue, world, Others, Loads
<1> QED BY <1>1, <1>2, <1>3, <1>4, <1>5, <1>6, <1>7, <1>8, <1>9, <1>10, <1>11, <1>12, <1>13,
       <1>14, <1>15, <1>16, <1>17 DEF Move

LEMMA SituatedNext ==
    ASSUME Shape, Move
    PROVE  Situated'
<1>a. /\ Situated /\ Focused /\ Typed
      /\ Busy \/ pc = "collect" => job \in Jobs
  BY JobIsTool DEF Shape, Typed, Attended
<1>b. Jobs = Cpu \cup Others \cup Loads /\ \A j \in Cpu : j \notin Others \cup Loads
  BY Names
<1>c. phase \in {"cpu", "memory", "mprime", "ycruncher", "transient", "idle", "combined"}
  BY Numbers DEF Shape, Typed
<1>1. CASE Passes \/ PulsesBegin \/ Flips \/ PulsesEnd \/ Interrupted
  BY <1>a, <1>b, <1>c, <1>1 DEF Passes, Elsewhere, PulsesBegin, Becomes, Fresh, NoChild, Flips,
     PulsesEnd, Signalled, Interrupted, Halts, Situated, Focused, Busy, Soak, Points, Loads,
     Waits, Tools, Others
<1>2. ASSUME NEW j \in Jobs, NEW s \in Nat, Starts(j, s)
      PROVE  Situated'
  BY <1>a, <1>b, <1>c, <1>2 DEF Starts, Elsewhere, Becomes, Fresh, NoChild, Situated, Focused,
     Busy, Soak, Points, Loads, Waits, Tools, Others
<1>3. ASSUME NEW j \in Background(missing), StartsLoad(j)
      PROVE  Situated'
  BY <1>a, <1>b, <1>c, <1>3 DEF StartsLoad, Elsewhere, Becomes, Fresh, NoChild, Background,
     Situated, Focused, Busy, Soak, Points, Loads, Waits, Tools, Others
<1>4. CASE Pause \/ IdleEnds \/ Gather \/ Collect \/ Waited
  BY <1>a, <1>b, <1>c, <1>4 DEF Pause, IdleEnds, Gather, Collect, Waited, Elsewhere, Situated,
     Focused, Busy, Soak, Points, Loads, Waits, Tools, Others
<1>5. CASE Expired \/ GraceEnds \/ Stopped \/ Checked \/ Tick
  BY <1>a, <1>b, <1>c, <1>5 DEF Expired, Elsewhere, Becomes, Signalled, Halts, GraceEnds, Stopped,
     Closes, NoChild, Resume, Reviewed, Checked, Tick, main, Situated, Focused, Busy, Soak,
     Points, Loads, Waits, Tools, Others
<1>6. CASE Leaves
  <2>1. ASSUME NEW j \in Loads, j \in Jobs, Running(j), Halts(j)
        PROVE  Situated'
    <3>1. phase = "combined" /\ pc' = "grace" /\ job' = j
      BY <2>1 DEF Halts, Shape, Attended, OnlyItsLoads
    <3> QED BY <1>a, <1>6, <2>1, <3>1 DEF Leaves, Situated
  <2>2. CASE pc' = "over" /\ paused' = FALSE
    BY <1>a, <1>c, <1>6, <2>2 DEF Leaves, Situated, Points, Loads, Typed
  <2> QED BY <1>6, <2>1, <2>2 DEF Leaves
<1>7. CASE Abort \/ SelfTested \/ UNCHANGED vars
  BY <1>a, <1>b, <1>c, <1>7 DEF Abort, main, SelfTested, Elsewhere, Becomes, vars, Situated,
     Focused, Busy, Soak, Points, Loads, Waits, Tools, Others
<1>8. ASSUME NEW j \in Jobs, Tells(j)
      PROVE  Situated'
  BY <1>a, <1>b, <1>c, <1>8 DEF Tells, Elsewhere, Becomes, Situated, Focused, Busy, Soak, Points,
     Loads, Waits, Tools, Others
<1>9. ASSUME NEW j \in Jobs, NEW code \in AllCodes, NEW complete \in BOOLEAN,
             Exits(j, code, complete)
      PROVE  Situated'
  BY <1>a, <1>b, <1>c, <1>9 DEF Exits, Elsewhere, Becomes, Ended, Situated, Focused, Busy, Soak,
     Points, Loads, Waits, Tools, Others
<1> QED BY <1>1, <1>2, <1>3, <1>4, <1>5, <1>6, <1>7, <1>8, <1>9 DEF Move

LEMMA OnlyTheToolNext ==
    ASSUME Shape, Move
    PROVE  OnlyTheTool'
<1>a. /\ child \in [Jobs -> Processes] /\ OnlyTheTool /\ InHand /\ Situated /\ Focused
      /\ Busy \/ pc = "collect" => job \in Jobs
  BY JobIsTool DEF Shape, Typed, Attended
<1>b. Jobs = Cpu \cup Others \cup Loads /\ \A j \in Cpu : j \notin Others \cup Loads
  BY Names
<1>c. phase \in {"cpu", "memory", "mprime", "ycruncher", "transient", "idle", "combined"}
  BY Numbers DEF Shape, Typed
<1>1. CASE Passes \/ PulsesBegin \/ Flips \/ PulsesEnd \/ Interrupted
  BY <1>a, <1>b, <1>c, <1>1, FreshFields, Numbers, Fields DEF Passes, Elsewhere, PulsesBegin,
     Becomes, Flips, PulsesEnd, Interrupted, Halts, OnlyTheTool, InHand, Situated, Focused, Busy,
     Soak, Running, Exited, Others, Loads
<1>2. ASSUME NEW j \in Jobs, NEW s \in Nat, Starts(j, s)
      PROVE  OnlyTheTool'
  BY <1>a, <1>b, <1>c, <1>2, FreshFields DEF Starts, Elsewhere, Becomes, OnlyTheTool, InHand,
     Situated, Focused, Busy, Soak, Running, Exited, Others, Loads
<1>3. ASSUME NEW j \in Background(missing), StartsLoad(j)
      PROVE  OnlyTheTool'
  BY <1>a, <1>b, <1>c, <1>3, FreshFields, Numbers DEF StartsLoad, Elsewhere, Becomes, Background,
     OnlyTheTool, InHand, Situated, Focused, Busy, Soak, Running, Exited, Others, Loads
<1>4. CASE Pause \/ IdleEnds \/ Gather \/ Collect \/ Waited
  BY <1>a, <1>b, <1>c, <1>4 DEF Pause, IdleEnds, Gather, Collect, Waited, Elsewhere, OnlyTheTool,
     InHand, Situated, Focused, Busy, Soak, Running, Exited, Others, Loads
<1>5. CASE Expired \/ GraceEnds \/ Stopped \/ Checked \/ Leaves
  BY <1>a, <1>b, <1>c, <1>5, Fields, NoChildFields DEF Expired, Elsewhere, Becomes, Halts,
     GraceEnds, Stopped, Closes, Resume, Reviewed, Checked, Leaves, OnlyTheTool, InHand, Situated,
     Focused, Busy, Soak, Running, Exited, Others, Loads
<1>6. CASE Tick \/ Abort \/ SelfTested \/ UNCHANGED vars
  BY <1>a, <1>b, <1>c, <1>6, Fields DEF Tick, main, Abort, SelfTested, Elsewhere, Becomes, vars,
     OnlyTheTool, InHand, Situated, Focused, Busy, Soak, Running, Exited, Others, Loads
<1>7. ASSUME NEW j \in Jobs, Tells(j)
      PROVE  OnlyTheTool'
  BY <1>a, <1>b, <1>c, <1>7, Fields DEF Tells, Elsewhere, Becomes, OnlyTheTool, InHand, Situated,
     Focused, Busy, Soak, Running, Exited, Others, Loads
<1>8. ASSUME NEW j \in Jobs, NEW code \in AllCodes, NEW complete \in BOOLEAN,
             Exits(j, code, complete)
      PROVE  OnlyTheTool'
  BY <1>a, <1>b, <1>c, <1>8, Fields DEF Exits, Elsewhere, Becomes, OnlyTheTool, InHand, Situated,
     Focused, Busy, Soak, Running, Exited, Others, Loads
<1> QED BY <1>1, <1>2, <1>3, <1>4, <1>5, <1>6, <1>7, <1>8 DEF Move

LEMMA OnlyItsLoadsNext ==
    ASSUME Shape, Move
    PROVE  OnlyItsLoads'
<1>a. /\ child \in [Jobs -> Processes] /\ OnlyItsLoads /\ Situated
      /\ Busy \/ pc = "collect" => job \in Jobs
  BY JobIsTool DEF Shape, Typed, Attended
<1>b. Jobs = Cpu \cup Others \cup Loads /\ \A j \in Cpu : j \notin Others \cup Loads
  BY Names
<1>c. phase \in {"cpu", "memory", "mprime", "ycruncher", "transient", "idle", "combined"}
  BY Numbers DEF Shape, Typed
<1>1. CASE Passes \/ PulsesBegin \/ Flips \/ PulsesEnd \/ Interrupted
  BY <1>a, <1>b, <1>c, <1>1, FreshFields, Numbers, Fields DEF Passes, Elsewhere, PulsesBegin,
     Becomes, Flips, PulsesEnd, Interrupted, Halts, OnlyItsLoads, Situated, Busy, Soak, Running,
     Exited, Others, Loads
<1>2. ASSUME NEW j \in Jobs, NEW s \in Nat, Starts(j, s)
      PROVE  OnlyItsLoads'
  BY <1>a, <1>b, <1>c, <1>2, FreshFields DEF Starts, Elsewhere, Becomes, OnlyItsLoads, Situated,
     Busy, Soak, Running, Exited, Others, Loads
<1>3. ASSUME NEW j \in Background(missing), StartsLoad(j)
      PROVE  OnlyItsLoads'
  BY <1>a, <1>b, <1>c, <1>3, FreshFields, Numbers DEF StartsLoad, Elsewhere, Becomes, Background,
     OnlyItsLoads, Situated, Busy, Soak, Running, Exited, Others, Loads
<1>4. CASE Pause \/ IdleEnds \/ Gather \/ Collect \/ Waited
  BY <1>a, <1>b, <1>c, <1>4 DEF Pause, IdleEnds, Gather, Collect, Waited, Elsewhere, OnlyItsLoads,
     Situated, Busy, Soak, Running, Exited, Others, Loads
<1>5. CASE Expired \/ GraceEnds \/ Stopped \/ Checked \/ Leaves
  BY <1>a, <1>b, <1>c, <1>5, Fields, NoChildFields DEF Expired, Elsewhere, Becomes, Halts,
     GraceEnds, Stopped, Closes, Resume, Reviewed, Checked, Leaves, OnlyItsLoads, Situated, Busy,
     Soak, Running, Exited, Others, Loads
<1>6. CASE Tick \/ Abort \/ SelfTested \/ UNCHANGED vars
  BY <1>a, <1>b, <1>c, <1>6, Fields DEF Tick, main, Abort, SelfTested, Elsewhere, Becomes, vars,
     OnlyItsLoads, Situated, Busy, Soak, Running, Exited, Others, Loads
<1>7. ASSUME NEW j \in Jobs, Tells(j)
      PROVE  OnlyItsLoads'
  BY <1>a, <1>b, <1>c, <1>7, Fields DEF Tells, Elsewhere, Becomes, OnlyItsLoads, Situated, Busy,
     Soak, Running, Exited, Others, Loads
<1>8. ASSUME NEW j \in Jobs, NEW code \in AllCodes, NEW complete \in BOOLEAN,
             Exits(j, code, complete)
      PROVE  OnlyItsLoads'
  BY <1>a, <1>b, <1>c, <1>8, Fields DEF Exits, Elsewhere, Becomes, OnlyItsLoads, Situated, Busy,
     Soak, Running, Exited, Others, Loads
<1> QED BY <1>1, <1>2, <1>3, <1>4, <1>5, <1>6, <1>7, <1>8 DEF Move

LEMMA InHandNext ==
    ASSUME Shape, Move
    PROVE  InHand'
<1>a. /\ child \in [Jobs -> Processes] /\ OnlyTheTool /\ InHand /\ Situated /\ Focused
      /\ Busy \/ pc = "collect" => job \in Jobs
  BY JobIsTool DEF Shape, Typed, Attended
<1>b. Jobs = Cpu \cup Others \cup Loads /\ \A j \in Cpu : j \notin Others \cup Loads
  BY Names
<1>c. phase \in {"cpu", "memory", "mprime", "ycruncher", "transient", "idle", "combined"}
  BY Numbers DEF Shape, Typed
<1>1. CASE Passes \/ PulsesBegin \/ Flips \/ PulsesEnd \/ Pause
  BY <1>a, <1>b, <1>c, <1>1, FreshFields, Numbers, Fields DEF Passes, Elsewhere, PulsesBegin,
     Becomes, Flips, PulsesEnd, Pause, InHand, OnlyTheTool, Situated, Focused, Busy, Soak, Waits,
     Running, Exited, Others, Loads
<1>2. ASSUME NEW j \in Jobs, NEW s \in Nat, Starts(j, s)
      PROVE  InHand'
  BY <1>a, <1>b, <1>c, <1>2, FreshFields DEF Starts, Elsewhere, Becomes, InHand, OnlyTheTool,
     Situated, Focused, Busy, Soak, Waits, Running, Exited, Others, Loads
<1>3. ASSUME NEW j \in Background(missing), StartsLoad(j)
      PROVE  InHand'
  BY <1>a, <1>b, <1>c, <1>3, FreshFields, Numbers DEF StartsLoad, Elsewhere, Becomes, Background,
     InHand, OnlyTheTool, Situated, Focused, Busy, Soak, Waits, Running, Exited, Others, Loads
<1>4. CASE Interrupted
  <2>1. CASE Halts(job) /\ Running(job)
    BY <1>a, <1>4, <2>1, Fields DEF Interrupted, Halts, Becomes, InHand, Busy, Soak, Running,
       Exited, Waits
  <2>2. CASE Exited(job) /\ pc' = "check" /\ UNCHANGED <<job, child>>
    BY <1>4, <2>2 DEF InHand, Busy, Soak, Waits, Running, Exited
  <2> QED BY <1>4, <2>1, <2>2 DEF Interrupted
<1>5. CASE IdleEnds \/ Gather \/ Collect \/ Waited \/ Expired
  BY <1>a, <1>b, <1>c, <1>5, Fields DEF IdleEnds, Gather, Collect, Waited, Elsewhere, Expired,
     Becomes, Halts, InHand, OnlyTheTool, Situated, Focused, Busy, Soak, Waits, Running, Exited,
     Others, Loads
<1>6. CASE GraceEnds \/ Stopped \/ Checked \/ Tick \/ Abort
  BY <1>a, <1>b, <1>c, <1>6, Fields, NoChildFields DEF GraceEnds, Elsewhere, Becomes, Stopped,
     Closes, Resume, Reviewed, Checked, Tick, main, Abort, InHand, OnlyTheTool, Situated, Focused,
     Busy, Soak, Waits, Running, Exited, Others, Loads
<1>7. CASE Leaves
  <2>1. ASSUME NEW j \in Loads, j \in Jobs, Running(j), Halts(j)
        PROVE  InHand'
    BY <1>a, <2>1, Fields DEF Halts, Becomes, InHand, Busy, Soak, Running, Exited, Waits
  <2>2. CASE pc' = "over"
    BY <2>2 DEF InHand, Busy, Waits
  <2> QED BY <1>7, <2>1, <2>2 DEF Leaves
<1>8. CASE SelfTested \/ UNCHANGED vars
  BY <1>a, <1>b, <1>c, <1>8, Fields DEF SelfTested, Elsewhere, Becomes, vars, main, InHand,
     OnlyTheTool, Situated, Focused, Busy, Soak, Waits, Running, Exited, Others, Loads
<1>9. ASSUME NEW j \in Jobs, Tells(j)
      PROVE  InHand'
  BY <1>a, <1>b, <1>c, <1>9, Fields DEF Tells, Elsewhere, Becomes, InHand, OnlyTheTool, Situated,
     Focused, Busy, Soak, Waits, Running, Exited, Others, Loads
<1>10. ASSUME NEW j \in Jobs, NEW code \in AllCodes, NEW complete \in BOOLEAN,
             Exits(j, code, complete)
      PROVE  InHand'
  <2>1. child'[j].run = "exited" /\ \A k \in Jobs : k # j => child'[k] = child[k]
    BY <1>a, <1>10, Fields DEF Exits, Becomes
  <2>2. UNCHANGED <<pc, job, phase>>
    BY <1>10 DEF Exits, Elsewhere
  <2>3. CASE j = job
    BY <2>1, <2>2, <2>3 DEF InHand, Busy, Soak, Running, Exited
  <2>4. CASE j # job
    BY <1>a, <2>1, <2>2, <2>4 DEF InHand, Busy, Soak, Running, Exited
  <2> QED BY <2>3, <2>4
<1> QED BY <1>1, <1>2, <1>3, <1>4, <1>5, <1>6, <1>7, <1>8, <1>9, <1>10 DEF Move

LEMMA OnlyPulsesNext ==
    ASSUME Shape, Move
    PROVE  OnlyPulses'
<1>a. /\ child \in [Jobs -> Processes] /\ OnlyPulses /\ OnlyTheTool /\ Situated
      /\ Busy \/ pc = "collect" => job \in Jobs
  BY JobIsTool DEF Shape, Typed, Attended
<1>b. Jobs = Cpu \cup Others \cup Loads /\ \A j \in Cpu : j \notin Others \cup Loads
  BY Names
<1>c. phase \in {"cpu", "memory", "mprime", "ycruncher", "transient", "idle", "combined"}
  BY Numbers DEF Shape, Typed
<1>1. CASE Passes \/ PulsesBegin \/ Flips \/ PulsesEnd \/ Interrupted
  BY <1>a, <1>b, <1>c, <1>1, FreshFields, Numbers, Fields DEF Passes, Elsewhere, PulsesBegin,
     Becomes, Flips, PulsesEnd, Interrupted, Halts, OnlyPulses, OnlyTheTool, Situated, Busy, Soak,
     Running, Exited, Others, Loads
<1>2. ASSUME NEW j \in Jobs, NEW s \in Nat, Starts(j, s)
      PROVE  OnlyPulses'
  BY <1>a, <1>b, <1>c, <1>2, FreshFields DEF Starts, Elsewhere, Becomes, OnlyPulses, OnlyTheTool,
     Situated, Busy, Soak, Running, Exited, Others, Loads
<1>3. ASSUME NEW j \in Background(missing), StartsLoad(j)
      PROVE  OnlyPulses'
  BY <1>a, <1>b, <1>c, <1>3, FreshFields, Numbers DEF StartsLoad, Elsewhere, Becomes, Background,
     OnlyPulses, OnlyTheTool, Situated, Busy, Soak, Running, Exited, Others, Loads
<1>4. CASE Pause \/ IdleEnds \/ Gather \/ Collect \/ Waited
  BY <1>a, <1>b, <1>c, <1>4 DEF Pause, IdleEnds, Gather, Collect, Waited, Elsewhere, OnlyPulses,
     OnlyTheTool, Situated, Busy, Soak, Running, Exited, Others, Loads
<1>5. CASE Expired \/ Stopped \/ Checked \/ Tick \/ Abort
  BY <1>a, <1>b, <1>c, <1>5, Fields, NoChildFields DEF Expired, Elsewhere, Becomes, Halts,
     Stopped, Closes, Resume, Reviewed, Checked, Tick, main, Abort, OnlyPulses, OnlyTheTool,
     Situated, Busy, Soak, Running, Exited, Others, Loads
<1>6. CASE GraceEnds
  <2>0. job \in Jobs /\ child[job] \in Processes
    BY <1>a, <1>6 DEF GraceEnds
  <2>1. CASE Exited(job) /\ UNCHANGED child
    BY <1>a, <1>6, <2>1, <2>0 DEF GraceEnds, OnlyPulses, OnlyTheTool, Running, Exited, Loads
  <2>2. ASSUME NEW c, Becomes(job, c), c.frozen = child[job].frozen, c.run # "running"
        PROVE  OnlyPulses'
    <3>1. \A k \in Jobs : Running(k)' => Running(k) /\ k # job
      BY <2>0, <2>2 DEF Becomes, Running
    <3>2. \A k \in Jobs : child'[k].frozen = child[k].frozen
      BY <2>0, <2>2 DEF Becomes
    <3>3. \A k \in Jobs : Running(k) /\ k # job => k \in Loads
      BY <1>a DEF OnlyTheTool
    <3> QED BY <1>a, <3>1, <3>2, <3>3 DEF OnlyPulses, Loads
  <2>3. /\ Killed(child[job]).frozen = child[job].frozen
        /\ Killed(child[job]).run # "running"
        /\ Stuck(child[job]).frozen = child[job].frozen
        /\ Stuck(child[job]).run # "running"
    BY <2>0, Fields
  <2> QED BY <1>6, <2>1, <2>2, <2>3 DEF GraceEnds
<1>7. CASE Leaves
  <2>1. ASSUME NEW j \in Loads, j \in Jobs, Running(j), Halts(j)
        PROVE  \A k \in Jobs : (child'[k].frozen => child[k].frozen) /\ (Running(k)' =>
           Running(k))
    <3>1. ~Signalled(child[j]).frozen
      BY <1>a, <2>1, Fields
    <3> QED BY <2>1, <3>1 DEF Halts, Becomes, Running
  <2>2. \A k \in Jobs : (child'[k].frozen => child[k].frozen) /\ (Running(k)' => Running(k))
    <3>1. CASE UNCHANGED child
      BY <3>1 DEF Running
    <3> QED BY <1>7, <2>1, <3>1 DEF Leaves
  <2>3. pc # "pulse"
    BY <1>7 DEF Leaves
  <2> QED BY <1>a, <2>2, <2>3 DEF OnlyPulses
<1>8. CASE SelfTested \/ UNCHANGED vars
  BY <1>a, <1>b, <1>c, <1>8, Fields DEF SelfTested, Elsewhere, Becomes, vars, main, OnlyPulses,
     OnlyTheTool, Situated, Busy, Soak, Running, Exited, Others, Loads
<1>9. ASSUME NEW j \in Jobs, Tells(j)
      PROVE  OnlyPulses'
  BY <1>a, <1>b, <1>c, <1>9, Fields DEF Tells, Elsewhere, Becomes, OnlyPulses, OnlyTheTool,
     Situated, Busy, Soak, Running, Exited, Others, Loads
<1>10. ASSUME NEW j \in Jobs, NEW code \in AllCodes, NEW complete \in BOOLEAN,
             Exits(j, code, complete)
      PROVE  OnlyPulses'
  <2>1. \A k \in Jobs : child'[k].frozen = child[k].frozen /\ (Running(k)' => Running(k))
    BY <1>a, <1>10, Fields DEF Exits, Becomes, Running
  <2>2. pc' = pc
    BY <1>10 DEF Exits
  <2> QED BY <1>a, <2>1, <2>2 DEF OnlyPulses
<1> QED BY <1>1, <1>2, <1>3, <1>4, <1>5, <1>6, <1>7, <1>8, <1>9, <1>10 DEF Move

LEMMA UnsentNext ==
    ASSUME Shape, Move
    PROVE  Unsent'
<1>a. /\ child \in [Jobs -> Processes] /\ Unsent /\ Unanswered /\ InHand /\ Situated /\ Focused
      /\ Busy \/ pc = "collect" => job \in Jobs
  BY JobIsTool DEF Shape, Typed, Attended
<1>b. Jobs = Cpu \cup Others \cup Loads /\ \A j \in Cpu : j \notin Others \cup Loads
  BY Names
<1>c. phase \in {"cpu", "memory", "mprime", "ycruncher", "transient", "idle", "combined"}
  BY Numbers DEF Shape, Typed
<1>1. CASE Passes \/ PulsesBegin \/ Flips \/ PulsesEnd \/ Interrupted
  BY <1>a, <1>b, <1>c, <1>1, FreshFields, Numbers, Fields DEF Passes, Elsewhere, PulsesBegin,
     Becomes, Flips, PulsesEnd, Interrupted, Halts, Unsent, InHand, Situated, Focused, Early,
     Busy, Soak, Running, Exited, Others, Loads
<1>2. ASSUME NEW j \in Jobs, NEW s \in Nat, Starts(j, s)
      PROVE  Unsent'
  BY <1>a, <1>b, <1>c, <1>2, FreshFields DEF Starts, Elsewhere, Becomes, Unsent, InHand, Situated,
     Focused, Early, Busy, Soak, Running, Exited, Others, Loads
<1>3. ASSUME NEW j \in Background(missing), StartsLoad(j)
      PROVE  Unsent'
  <2>1. Duration \in Nat
    BY Numbers
  <2>2. pc = "next" /\ pc' = "next" /\ j \in Jobs /\ ~Fresh(Duration).signalled
    BY <1>3, <2>1, FreshFields DEF StartsLoad
  <2>3. \A k \in Loads : k \in Jobs /\ ~child[k].signalled
    BY <1>a, <1>b, <2>2 DEF Unsent, Early, Busy
  <2>4. \A k \in Loads : ~child'[k].signalled
    BY <1>3, <2>2, <2>3 DEF StartsLoad, Becomes
  <2> QED BY <2>2, <2>4 DEF Unsent, Early, Busy
<1>4. CASE Pause \/ IdleEnds \/ Gather \/ Collect \/ Waited
  BY <1>a, <1>b, <1>c, <1>4 DEF Pause, IdleEnds, Gather, Collect, Waited, Elsewhere, Unsent,
     InHand, Situated, Focused, Early, Busy, Soak, Running, Exited, Others, Loads
<1>5. CASE Expired \/ GraceEnds \/ Leaves \/ Tick \/ Abort
  BY <1>a, <1>b, <1>c, <1>5, Fields DEF Expired, Elsewhere, Becomes, Halts, GraceEnds, Leaves,
     Tick, main, Abort, Unsent, InHand, Situated, Focused, Early, Busy, Soak, Running, Exited,
     Others, Loads
<1>6. CASE Stopped
  <2>1. job \in Jobs /\ job \notin Loads /\ Busy /\ UNCHANGED <<job, result, phase>>
    BY <1>6, <1>b, <1>c DEF Stopped, Tools, Others, Loads
  <2>2. \A k \in Loads : k \in Jobs /\ ~child[k].signalled
    BY <1>a, <1>b, <2>1 DEF Unsent, Early, Busy
  <2>3. \A k \in Loads : ~child'[k].signalled
    BY <1>6, <2>1, <2>2 DEF Stopped, Closes, Becomes
  <2>4. pc' # "check" \/ result' = "none" \/ job' = "transient"
    BY <1>a, <1>6 DEF Stopped, Resume, Unanswered
  <2>5. pc' \notin {"wait", "expired", "pulse"}
    BY <1>6 DEF Stopped, Resume
  <2> QED BY <2>3, <2>4, <2>5 DEF Unsent
<1>7. CASE Checked
  <2>1. job \in Jobs /\ job \notin Loads /\ Busy /\ UNCHANGED <<job, result, phase>>
    BY <1>7, <1>b, <1>c DEF Checked, Tools, Others, Loads
  <2>2. \A k \in Loads : k \in Jobs /\ ~child[k].signalled
    BY <1>a, <1>b, <2>1 DEF Unsent, Early, Busy
  <2>3. \A k \in Loads : ~child'[k].signalled
    BY <1>7, <2>1, <2>2 DEF Checked, Closes, Becomes
  <2>4. pc' \notin {"wait", "expired", "pulse", "check"}
    BY <1>7 DEF Checked, Resume
  <2> QED BY <2>3, <2>4 DEF Unsent
<1>8. CASE SelfTested \/ UNCHANGED vars
  BY <1>a, <1>b, <1>c, <1>8, Fields DEF SelfTested, Elsewhere, Becomes, vars, main, Unsent,
     InHand, Situated, Focused, Early, Busy, Soak, Running, Exited, Others, Loads
<1>9. ASSUME NEW j \in Jobs, Tells(j)
      PROVE  Unsent'
  BY <1>a, <1>b, <1>c, <1>9, Fields DEF Tells, Elsewhere, Becomes, Unsent, InHand, Situated,
     Focused, Early, Busy, Soak, Running, Exited, Others, Loads
<1>10. ASSUME NEW j \in Jobs, NEW code \in AllCodes, NEW complete \in BOOLEAN,
             Exits(j, code, complete)
      PROVE  Unsent'
  <2>1. \A k \in Jobs : child'[k].signalled = child[k].signalled
    BY <1>a, <1>10, ExitSendsNothing
  <2>2. UNCHANGED <<pc, job, phase, result>>
    BY <1>10 DEF Exits, Elsewhere
  <2> QED BY <1>a, <1>b, <2>1, <2>2 DEF Unsent, Early, Busy, Soak
<1> QED BY <1>1, <1>2, <1>3, <1>4, <1>5, <1>6, <1>7, <1>8, <1>9, <1>10 DEF Move

LEMMA SentNext ==
    ASSUME Shape, Move
    PROVE  Sent'
<1>a. /\ child \in [Jobs -> Processes] /\ Sent /\ InHand /\ Situated
      /\ Busy \/ pc = "collect" => job \in Jobs
  BY JobIsTool DEF Shape, Typed, Attended
<1>b. Jobs = Cpu \cup Others \cup Loads /\ \A j \in Cpu : j \notin Others \cup Loads
  BY Names
<1>c. phase \in {"cpu", "memory", "mprime", "ycruncher", "transient", "idle", "combined"}
  BY Numbers DEF Shape, Typed
<1>1. CASE Passes \/ PulsesBegin \/ Flips \/ PulsesEnd \/ Interrupted
  BY <1>a, <1>b, <1>c, <1>1, FreshFields, Numbers, Fields DEF Passes, Elsewhere, PulsesBegin,
     Becomes, Flips, PulsesEnd, Interrupted, Halts, Sent, InHand, Situated, Busy, Soak, Running,
     Exited, Others, Loads
<1>2. ASSUME NEW j \in Jobs, NEW s \in Nat, Starts(j, s)
      PROVE  Sent'
  BY <1>a, <1>b, <1>c, <1>2, FreshFields DEF Starts, Elsewhere, Becomes, Sent, InHand, Situated,
     Busy, Soak, Running, Exited, Others, Loads
<1>3. ASSUME NEW j \in Background(missing), StartsLoad(j)
      PROVE  Sent'
  BY <1>a, <1>b, <1>c, <1>3, FreshFields, Numbers DEF StartsLoad, Elsewhere, Becomes, Background,
     Sent, InHand, Situated, Busy, Soak, Running, Exited, Others, Loads
<1>4. CASE Pause \/ IdleEnds \/ Gather \/ Collect \/ Waited
  BY <1>a, <1>b, <1>c, <1>4 DEF Pause, IdleEnds, Gather, Collect, Waited, Elsewhere, Sent, InHand,
     Situated, Busy, Soak, Running, Exited, Others, Loads
<1>5. CASE Expired
  <2>1. phase # "transient" /\ job # "transient"
    BY <1>a, <1>b, <1>c, <1>5 DEF Expired, Situated, Tools, Others
  <2> QED BY <1>a, <1>5, <2>1, Fields DEF Expired, Halts, Becomes, Sent
<1>6. CASE GraceEnds \/ Stopped \/ Checked \/ Leaves \/ Tick
  BY <1>a, <1>b, <1>c, <1>6, Fields, NoChildFields DEF GraceEnds, Elsewhere, Becomes, Stopped,
     Closes, Resume, Reviewed, Checked, Leaves, Halts, Tick, main, Sent, InHand, Situated, Busy,
     Soak, Running, Exited, Others, Loads
<1>7. CASE Abort \/ SelfTested \/ UNCHANGED vars
  BY <1>a, <1>b, <1>c, <1>7, Fields DEF Abort, main, SelfTested, Elsewhere, Becomes, vars, Sent,
     InHand, Situated, Busy, Soak, Running, Exited, Others, Loads
<1>8. ASSUME NEW j \in Jobs, Tells(j)
      PROVE  Sent'
  BY <1>a, <1>b, <1>c, <1>8, Fields DEF Tells, Elsewhere, Becomes, Sent, InHand, Situated, Busy,
     Soak, Running, Exited, Others, Loads
<1>9. ASSUME NEW j \in Jobs, NEW code \in AllCodes, NEW complete \in BOOLEAN,
             Exits(j, code, complete)
      PROVE  Sent'
  <2>1. \A k \in Jobs : child'[k].signalled = child[k].signalled
    BY <1>a, <1>9, ExitSendsNothing
  <2>2. pc \in {"interrupt", "grace"} \/ (pc = "stopped" /\ job = "transient") => Busy
    BY DEF Busy, Soak
  <2> QED BY <1>a, <1>9, <2>1, <2>2 DEF Exits, Sent
<1> QED BY <1>1, <1>2, <1>3, <1>4, <1>5, <1>6, <1>7, <1>8, <1>9 DEF Move

LEMMA CodedNext ==
    ASSUME Shape, Move
    PROVE  Coded'
<1>a. /\ child \in [Jobs -> Processes] /\ Coded /\ Situated
      /\ Busy \/ pc = "collect" => job \in Jobs
  BY JobIsTool DEF Shape, Typed, Attended
<1>b. Jobs = Cpu \cup Others \cup Loads /\ \A j \in Cpu : j \notin Others \cup Loads
  BY Names
<1>c. phase \in {"cpu", "memory", "mprime", "ycruncher", "transient", "idle", "combined"}
  BY Numbers DEF Shape, Typed
<1>d. ASSUME NEW j \in Jobs, NEW c, Becomes(j, c), c.run = "exited" <=> c.code # "none"
      PROVE  Coded'
  BY <1>a, <1>d DEF Becomes, Coded, Exited
<1>e. ASSUME NEW j \in Jobs, Halts(j)
      PROVE  Coded'
  <2>1. CASE Becomes(j, Signalled(child[j]))
    BY <1>a, <1>d, <2>1, Fields DEF Coded, Exited
  <2>2. CASE child' = child
    BY <1>a, <2>2 DEF Coded, Exited
  <2> QED BY <1>e, <2>1, <2>2 DEF Halts
<1>f. ASSUME NEW j \in Jobs, NEW s \in Nat, Becomes(j, Fresh(s))
      PROVE  Coded'
  BY <1>d, <1>f, FreshFields
<1>1. CASE Passes \/ Flips \/ Pause \/ IdleEnds \/ Gather
  BY <1>a, <1>b, <1>c, <1>1, Fields DEF Passes, Elsewhere, Flips, Becomes, Pause, IdleEnds,
     Gather, Coded, Situated, Busy, Soak, Running, Exited, Others, Loads
<1>2. ASSUME NEW j \in Jobs, NEW s \in Nat, Starts(j, s)
      PROVE  Coded'
  BY <1>f, <1>2 DEF Starts
<1>3. ASSUME NEW j \in Background(missing), StartsLoad(j)
      PROVE  Coded'
  BY <1>f, <1>3, Numbers DEF StartsLoad
<1>4. CASE PulsesBegin
  BY <1>b, <1>f, <1>4, Numbers DEF PulsesBegin, Others
<1>5. CASE PulsesEnd
  <2>1. CASE Becomes(job, Signalled(child[job]))
    BY <1>a, <1>d, <1>5, <2>1, Fields DEF PulsesEnd, Coded, Exited
  <2>2. CASE child' = child
    BY <1>a, <2>2 DEF Coded, Exited
  <2> QED BY <1>5, <2>1, <2>2 DEF PulsesEnd
<1>6. CASE Interrupted
  <2>1. CASE child' = child
    BY <1>a, <2>1 DEF Coded, Exited
  <2> QED BY <1>a, <1>e, <1>6, <2>1 DEF Interrupted
<1>7. CASE Collect \/ Waited \/ Stopped \/ Checked \/ Tick
  BY <1>a, <1>b, <1>c, <1>7, NoChildFields DEF Collect, Waited, Elsewhere, Stopped, Closes,
     Becomes, Resume, Reviewed, Checked, Tick, main, Coded, Situated, Busy, Soak, Running, Exited,
     Others, Loads
<1>8. CASE Expired
  BY <1>e, <1>8 DEF Expired
<1>9. CASE GraceEnds
  <2>0. job \in Jobs /\ child[job] \in Processes /\ (~Exited(job) => child[job].code = "none")
    BY <1>a, <1>9 DEF GraceEnds, Coded
  <2>1. CASE child' = child
    BY <1>a, <2>1 DEF Coded, Exited
  <2>2. ASSUME NEW c, Becomes(job, c), c.run = "exited" <=> c.code # "none"
        PROVE  Coded'
    BY <1>d, <2>0, <2>2
  <2>3. /\ Killed(child[job]).run = "exited"
        /\ Killed(child[job]).code = "signal"
        /\ Stuck(child[job]).run = "stuck"
        /\ Stuck(child[job]).code = child[job].code
    BY <2>0, Fields
  <2> QED BY <1>9, <2>0, <2>1, <2>2, <2>3 DEF GraceEnds, Running, Exited
<1>10. CASE Leaves
  <2>1. CASE child' = child
    BY <1>a, <2>1 DEF Coded, Exited
  <2> QED BY <1>10, <1>e, <2>1 DEF Leaves
<1>11. CASE Abort \/ SelfTested \/ UNCHANGED vars
  BY <1>a, <1>b, <1>c, <1>11, Fields DEF Abort, main, SelfTested, Elsewhere, Becomes, vars, Coded,
     Situated, Busy, Soak, Running, Exited, Others, Loads
<1>12. ASSUME NEW j \in Jobs, Tells(j)
      PROVE  Coded'
  BY <1>a, <1>b, <1>c, <1>12, Fields DEF Tells, Elsewhere, Becomes, Coded, Situated, Busy, Soak,
     Running, Exited, Others, Loads
<1>13. ASSUME NEW j \in Jobs, NEW code \in AllCodes, NEW complete \in BOOLEAN,
             Exits(j, code, complete)
      PROVE  Coded'
  <2>1. /\ Ended(child[j], code, complete).run = "exited"
        /\ Ended(child[j], code, complete).code = code /\ code # "none"
    BY <1>a, <1>13, Fields DEF Exits
  <2> QED BY <1>d, <1>13, <2>1 DEF Exits
<1> QED BY <1>1, <1>2, <1>3, <1>4, <1>5, <1>6, <1>7, <1>8, <1>9, <1>10, <1>11, <1>12, <1>13 DEF
       Move

LEMMA UnansweredNext ==
    ASSUME Shape, Move
    PROVE  Unanswered'
<1>a. /\ child \in [Jobs -> Processes] /\ Coded /\ InHand /\ Focused /\ Unanswered /\ Situated
      /\ Busy \/ pc = "collect" => job \in Jobs
  BY JobIsTool DEF Shape, Typed, Attended
<1>b. Jobs = Cpu \cup Others \cup Loads /\ \A j \in Cpu : j \notin Others \cup Loads
  BY Names
<1>c. phase \in {"cpu", "memory", "mprime", "ycruncher", "transient", "idle", "combined"}
  BY Numbers DEF Shape, Typed
<1>1. CASE Passes \/ PulsesBegin \/ Flips \/ PulsesEnd \/ Interrupted
  BY <1>a, <1>b, <1>c, <1>1, FreshFields, Numbers, Fields DEF Passes, Elsewhere, PulsesBegin,
     Becomes, Flips, PulsesEnd, Interrupted, Halts, Unanswered, Coded, Situated, Focused, InHand,
     Busy, Soak, Running, Exited, Waits, Others, Loads
<1>2. ASSUME NEW j \in Jobs, NEW s \in Nat, Starts(j, s)
      PROVE  Unanswered'
  BY <1>a, <1>b, <1>c, <1>2, FreshFields DEF Starts, Elsewhere, Becomes, Unanswered, Coded,
     Situated, Focused, InHand, Busy, Soak, Running, Exited, Waits, Others, Loads
<1>3. ASSUME NEW j \in Background(missing), StartsLoad(j)
      PROVE  Unanswered'
  BY <1>a, <1>b, <1>c, <1>3, FreshFields, Numbers DEF StartsLoad, Elsewhere, Becomes, Background,
     Unanswered, Coded, Situated, Focused, InHand, Busy, Soak, Running, Exited, Waits, Others,
     Loads
<1>4. CASE Pause \/ IdleEnds \/ Gather \/ Collect \/ Waited
  BY <1>a, <1>b, <1>c, <1>4 DEF Pause, IdleEnds, Gather, Collect, Waited, Elsewhere, Unanswered,
     Coded, Situated, Focused, InHand, Busy, Soak, Running, Exited, Waits, Others, Loads
<1>5. CASE Expired \/ GraceEnds \/ Stopped \/ Checked \/ Leaves
  BY <1>a, <1>b, <1>c, <1>5, Fields, NoChildFields DEF Expired, Elsewhere, Becomes, Halts,
     GraceEnds, Stopped, Closes, Resume, Reviewed, Checked, Leaves, Unanswered, Coded, Situated,
     Focused, InHand, Busy, Soak, Running, Exited, Waits, Others, Loads
<1>6. CASE Tick \/ Abort \/ SelfTested \/ UNCHANGED vars
  BY <1>a, <1>b, <1>c, <1>6, Fields DEF Tick, main, Abort, SelfTested, Elsewhere, Becomes, vars,
     Unanswered, Coded, Situated, Focused, InHand, Busy, Soak, Running, Exited, Waits, Others,
     Loads
<1>7. ASSUME NEW j \in Jobs, Tells(j)
      PROVE  Unanswered'
  BY <1>a, <1>b, <1>c, <1>7, Fields DEF Tells, Elsewhere, Becomes, Unanswered, Coded, Situated,
     Focused, InHand, Busy, Soak, Running, Exited, Waits, Others, Loads
<1>8. ASSUME NEW j \in Jobs, NEW code \in AllCodes, NEW complete \in BOOLEAN,
             Exits(j, code, complete)
      PROVE  Unanswered'
  BY <1>a, <1>b, <1>c, <1>8, Fields DEF Exits, Elsewhere, Becomes, Unanswered, Coded, Situated,
     Focused, InHand, Busy, Soak, Running, Exited, Waits, Others, Loads
<1> QED BY <1>1, <1>2, <1>3, <1>4, <1>5, <1>6, <1>7, <1>8 DEF Move

LEMMA PromptNext ==
    ASSUME Shape, Move
    PROVE  Prompt'
<1>a. /\ child \in [Jobs -> Processes] /\ Typed /\ Prompt /\ Situated
      /\ Busy \/ pc = "collect" => job \in Jobs
  BY JobIsTool DEF Shape, Typed, Attended
<1>b. Jobs = Cpu \cup Others \cup Loads /\ \A j \in Cpu : j \notin Others \cup Loads
  BY Names
<1>c. phase \in {"cpu", "memory", "mprime", "ycruncher", "transient", "idle", "combined"}
  BY Numbers DEF Shape, Typed
<1>1. CASE Passes \/ PulsesBegin \/ Flips \/ PulsesEnd \/ Interrupted
  BY <1>a, <1>b, <1>c, <1>1, FreshFields, Numbers, Fields DEF Passes, Elsewhere, PulsesBegin,
     Becomes, Flips, PulsesEnd, Interrupted, Halts, Prompt, Situated, Focused, Busy, Soak, Waits,
     Points, Others, Loads
<1>2. ASSUME NEW j \in Jobs, NEW s \in Nat, Starts(j, s)
      PROVE  Prompt'
  BY <1>a, <1>b, <1>c, <1>2, FreshFields DEF Starts, Elsewhere, Becomes, Prompt, Situated,
     Focused, Busy, Soak, Waits, Points, Others, Loads
<1>3. ASSUME NEW j \in Background(missing), StartsLoad(j)
      PROVE  Prompt'
  BY <1>a, <1>b, <1>c, <1>3, FreshFields, Numbers DEF StartsLoad, Elsewhere, Becomes, Background,
     Prompt, Situated, Focused, Busy, Soak, Waits, Points, Others, Loads
<1>4. CASE Pause \/ IdleEnds \/ Gather \/ Collect \/ Waited
  BY <1>a, <1>b, <1>c, <1>4 DEF Pause, IdleEnds, Gather, Collect, Waited, Elsewhere, Prompt,
     Situated, Focused, Busy, Soak, Waits, Points, Others, Loads
<1>5. CASE Expired \/ GraceEnds \/ Stopped \/ Checked \/ Leaves
  BY <1>a, <1>b, <1>c, <1>5, Fields, NoChildFields DEF Expired, Elsewhere, Becomes, Halts,
     GraceEnds, Stopped, Closes, Resume, Reviewed, Checked, Leaves, Prompt, Situated, Focused,
     Busy, Soak, Waits, Points, Others, Loads
<1>6. CASE Tick \/ Abort \/ SelfTested \/ UNCHANGED vars
  BY <1>a, <1>b, <1>c, <1>6, Fields DEF Tick, main, Abort, SelfTested, Elsewhere, Becomes, vars,
     Prompt, Situated, Focused, Busy, Soak, Waits, Points, Others, Loads
<1>7. ASSUME NEW j \in Jobs, Tells(j)
      PROVE  Prompt'
  BY <1>a, <1>b, <1>c, <1>7, Fields DEF Tells, Elsewhere, Becomes, Prompt, Situated, Focused,
     Busy, Soak, Waits, Points, Others, Loads
<1>8. ASSUME NEW j \in Jobs, NEW code \in AllCodes, NEW complete \in BOOLEAN,
             Exits(j, code, complete)
      PROVE  Prompt'
  BY <1>a, <1>b, <1>c, <1>8, Fields DEF Exits, Elsewhere, Becomes, Prompt, Situated, Focused,
     Busy, Soak, Waits, Points, Others, Loads
<1> QED BY <1>1, <1>2, <1>3, <1>4, <1>5, <1>6, <1>7, <1>8 DEF Move


LEMMA ShapeNext ==
    ASSUME Shape, [Next]_vars
    PROVE  Shape'
<1>1. Move
  BY Moves
<1>2. Attended'
  BY <1>1, OnlyTheToolNext, OnlyItsLoadsNext, InHandNext, OnlyPulsesNext DEF Attended
<1> QED BY <1>1, <1>2, TypedNext, NotedNext, ListedNext, SituatedNext, FocusedNext, LaunchedNext,
           UnsentNext, SentNext, PromptNext, CodedNext, UnansweredNext DEF Shape

LEMMA ShapeInit ==
    ASSUME Init
    PROVE  Shape
<1>a. phase \in Phases /\ missing \in BOOLEAN
  BY DEF Init
<1>b. phase \in {"cpu", "memory", "mprime", "ycruncher", "transient", "idle", "combined"}
  BY <1>a, Numbers
<1>c. /\ pc = IF phase \in {"idle", "combined"} THEN "start" ELSE "next"
      /\ ~Busy /\ ~Soak
  BY <1>b DEF Init, Busy, Soak
<1>d. NoChild \in Processes
  BY DEF NoChild, Processes, AllCodes
<1>e. \A j \in Jobs : child[j] = NoChild
  BY DEF Init
<1>1. Typed
  BY <1>a, <1>c, <1>d DEF Init, Typed, Points, AllCodes
<1>2. Noted
  BY Numbers DEF Init, Noted
<1>3. Listed
  <2>1. Stressors \in Seq(Cpu)
    <3>1. Stressors \in Seq(STRING)
      BY WorkloadsAssumption
    <3>2. \A n \in 1..Len(Stressors) : Stressors[n] \in Cpu
      BY <3>1, LenProperties DEF Cpu, Range
    <3> QED BY <3>1, <3>2, LenProperties, SeqDef
  <2> QED BY <1>a, <1>b, <1>c, <2>1 DEF Init, Listed, Plan
<1>4. Situated
  BY <1>b, <1>c DEF Situated, Points
<1>5. Focused
  BY <1>c DEF Init, Focused
<1>6. Attended
  BY <1>c, <1>e, NoChildFields, Names
     DEF Attended, OnlyTheTool, OnlyItsLoads, InHand, OnlyPulses, Running
<1>7. Launched
  BY <1>c DEF Launched
<1>8. Unsent
  BY <1>c, <1>e, NoChildFields, Names DEF Unsent
<1>9. Sent /\ Coded /\ Unanswered
  BY <1>c, <1>e, NoChildFields DEF Sent, Coded, Unanswered, Exited
<1>10. Prompt
  BY DEF Init, Prompt
<1> QED BY <1>1, <1>2, <1>3, <1>4, <1>5, <1>6, <1>7, <1>8, <1>9, <1>10 DEF Shape

LEMMA ShapeTypes ==
    ASSUME Shape
    PROVE  TypeOK
<1>1. phase \in {"cpu", "memory", "mprime", "ycruncher", "transient", "idle", "combined"}
  BY Numbers DEF Shape, Typed
<1>2. Range(todo) \subseteq Jobs
  <2>1. CASE phase = "cpu"
    <3>1. todo \in Seq(Cpu)
      BY <2>1 DEF Shape, Listed
    <3> QED BY <3>1, LenProperties, Names DEF Range
  <2>2. CASE phase \in {"memory", "combined"}
    <3>1. todo \in {<<>>, <<"vm">>, <<"stressapptest", "vm">>, <<"disk", "iperf3">>, <<"iperf3">>, <<"disk">>}
      BY <1>1, <2>2 DEF Shape, Listed
    <3> QED BY <3>1, Names DEF Range, Others, Loads
  <2>3. CASE phase \notin {"cpu", "memory", "combined"}
    <3>1. todo = Plan(phase, missing) /\ missing \in BOOLEAN
      BY <1>1, <2>3 DEF Shape, Listed, Typed
    <3> QED BY <1>1, <2>3, <3>1, PlanRanges, Names DEF Others
  <2> QED BY <2>1, <2>2, <2>3
<1>3. /\ phase \in Phases /\ {missing, abort, hung, paused} \subseteq BOOLEAN
      /\ clock \in Nat /\ until \in Nat /\ i \in 0..(Wrap - 1)
      /\ job \in Jobs \cup {NoJob}
      /\ {verified, faulty, late} \subseteq SUBSET Jobs /\ unwell \subseteq Jobs \cup {"phase"}
  BY DEF Shape, Typed, Noted
<1>4. pc \in Waits \cup {"start", "next", "check", "expired", "stopped", "gather", "leave", "over"}
  BY DEF Shape, Typed, Points
<1>5. findings \subseteq {"fail", "gap", "warn"} \X (Jobs \cup {"phase"})
  BY DEF Shape, Noted, Severities
<1>6. \A j \in Jobs : child[j].frozen => j = "transient" /\ (Running(j) => pc = "pulse")
  BY DEF Shape, Attended, OnlyPulses
<1> QED BY <1>2, <1>3, <1>4, <1>5, <1>6 DEF TypeOK

LEMMA ShapeCleansUp ==
    ASSUME Shape
    PROVE  PhaseCleansUp
<1> SUFFICES ASSUME pc = "over"
             PROVE  ~paused /\ \A j \in Jobs : ~Running(j)
  BY DEF PhaseCleansUp
<1>1. ~Busy
  BY DEF Busy
<1> QED BY <1>1 DEF Shape, Focused, Attended, OnlyTheTool, OnlyItsLoads

\* The variables of a phase hold what the code can hold.
THEOREM TypeCorrect == Spec => []TypeOK
<1>1. Init => Shape
  BY ShapeInit
<1>2. Shape /\ [Next]_vars => Shape'
  BY ShapeNext
<1>3. Shape => TypeOK
  BY ShapeTypes
<1> QED BY <1>1, <1>2, <1>3, PTL DEF Spec

\* However a phase is left, its tools and loads have been stopped and the disk tests go on
\* (ManagedProcess.stop and the finally clauses of phases.py).
THEOREM CleansUp == Spec => []PhaseCleansUp
<1>1. Init => Shape
  BY ShapeInit
<1>2. Shape /\ [Next]_vars => Shape'
  BY ShapeNext
<1>3. Shape => PhaseCleansUp
  BY ShapeCleansUp
<1> QED BY <1>1, <1>2, <1>3, PTL DEF Spec

-----------------------------------------------------------------------------
(* Every step preserves the timing *)

\* A tool was started at some time, and in all but two phases at the beginning.
LEMMA BegunNext ==
    ASSUME Shape, Begun, Move
    PROVE  Begun'
<1>a. /\ child \in [Jobs -> Processes] /\ Begun /\ Prompt /\ Situated
      /\ Busy \/ pc = "collect" => job \in Jobs
  BY JobIsTool DEF Shape, Typed, Attended
<1>b. Jobs = Cpu \cup Others \cup Loads /\ \A j \in Cpu : j \notin Others \cup Loads
  BY Names
<1>c. phase \in {"cpu", "memory", "mprime", "ycruncher", "transient", "idle", "combined"}
  BY Numbers DEF Shape, Typed
<1>d. /\ clock \in Nat /\ Duration \in Nat \ {0} /\ Slack \in Nat \ {0}
      /\ \A k \in Jobs : child[k].since \in Nat /\ child[k].asked \in Nat
      /\ \A k \in Jobs : child[k].signalled \in BOOLEAN
  BY <1>a, Numbers DEF Shape, Typed, Processes
<1>1. CASE Passes \/ PulsesBegin \/ Flips \/ PulsesEnd \/ Interrupted
  BY <1>a, <1>d, <1>b, <1>c, <1>1, FreshFields, Numbers, Fields DEF Passes, Elsewhere,
     PulsesBegin, Becomes, Flips, PulsesEnd, Interrupted, Halts, Begun, Running, Exited, world,
     Situated, Prompt, Busy, Soak, Waits, Others, Loads
<1>2. ASSUME NEW j \in Jobs, NEW s \in Nat, Starts(j, s)
      PROVE  Begun'
  BY <1>a, <1>d, <1>b, <1>c, <1>2, FreshFields DEF Starts, Elsewhere, Becomes, Begun, Running,
     Exited, world, Situated, Prompt, Busy, Soak, Waits, Others, Loads
<1>3. ASSUME NEW j \in Background(missing), StartsLoad(j)
      PROVE  Begun'
  BY <1>a, <1>d, <1>b, <1>c, <1>3, FreshFields, Numbers DEF StartsLoad, Elsewhere, Becomes,
     Background, Begun, Running, Exited, world, Situated, Prompt, Busy, Soak, Waits, Others, Loads
<1>4. CASE Pause \/ IdleEnds \/ Gather \/ Collect \/ Waited
  BY <1>a, <1>d, <1>b, <1>c, <1>4 DEF Pause, IdleEnds, Gather, Collect, Waited, Elsewhere, Begun,
     Running, Exited, world, Situated, Prompt, Busy, Soak, Waits, Others, Loads
<1>5. CASE Expired \/ GraceEnds \/ Stopped \/ Checked \/ Leaves
  BY <1>a, <1>d, <1>b, <1>c, <1>5, Fields, NoChildFields DEF Expired, Elsewhere, Becomes, Halts,
     GraceEnds, Stopped, Closes, Resume, Reviewed, Checked, Leaves, Begun, Running, Exited, world,
     Situated, Prompt, Busy, Soak, Waits, Others, Loads
<1>6. CASE Tick \/ Abort \/ SelfTested \/ UNCHANGED vars
  BY <1>a, <1>d, <1>b, <1>c, <1>6, Fields DEF Tick, main, Abort, SelfTested, Elsewhere, Becomes,
     vars, Begun, Running, Exited, world, Situated, Prompt, Busy, Soak, Waits, Others, Loads
<1>7. ASSUME NEW j \in Jobs, Tells(j)
      PROVE  Begun'
  BY <1>a, <1>d, <1>b, <1>c, <1>7, Fields DEF Tells, Elsewhere, Becomes, Begun, Running, Exited,
     world, Situated, Prompt, Busy, Soak, Waits, Others, Loads
<1>8. ASSUME NEW j \in Jobs, NEW code \in AllCodes, NEW complete \in BOOLEAN,
             Exits(j, code, complete)
      PROVE  Begun'
  BY <1>a, <1>d, <1>b, <1>c, <1>8, Fields DEF Exits, Elsewhere, Becomes, Begun, Running, Exited,
     world, Situated, Prompt, Busy, Soak, Waits, Others, Loads
<1> QED BY <1>1, <1>2, <1>3, <1>4, <1>5, <1>6, <1>7, <1>8 DEF Move

\* A tool that outlives its time becomes unwell, and then late.
LEMMA OverrunNext ==
    ASSUME Shape, Begun, Overrun, Move
    PROVE  Overrun'
<1>a. /\ child \in [Jobs -> Processes] /\ Overrun /\ Begun /\ Coded /\ OnlyTheTool /\ InHand /\
         Unsent /\ Typed
      /\ Busy \/ pc = "collect" => job \in Jobs
  BY JobIsTool DEF Shape, Typed, Attended
<1>b. Jobs = Cpu \cup Others \cup Loads /\ \A j \in Cpu : j \notin Others \cup Loads
  BY Names
<1>c. phase \in {"cpu", "memory", "mprime", "ycruncher", "transient", "idle", "combined"}
  BY Numbers DEF Shape, Typed
<1>d. /\ clock \in Nat /\ Duration \in Nat \ {0} /\ Slack \in Nat \ {0}
      /\ \A k \in Jobs : child[k].since \in Nat /\ child[k].asked \in Nat
      /\ \A k \in Jobs : child[k].signalled \in BOOLEAN
  BY <1>a, Numbers DEF Shape, Typed, Processes
<1>1. CASE Passes \/ PulsesBegin \/ Flips \/ PulsesEnd \/ Interrupted
  BY <1>a, <1>d, <1>b, <1>c, <1>1, FreshFields, Numbers, Fields DEF Passes, Elsewhere,
     PulsesBegin, Becomes, Flips, PulsesEnd, Interrupted, Halts, Overrun, world, Overdue, Begun,
     Coded, OnlyTheTool, InHand, Unsent, Early, Situated, Endless, Busy, Soak, Running, Exited,
     Others, Loads
<1>2. ASSUME NEW j \in Jobs, NEW s \in Nat, Starts(j, s)
      PROVE  Overrun'
  BY <1>a, <1>d, <1>b, <1>c, <1>2, FreshFields DEF Starts, Elsewhere, Becomes, Overrun, world,
     Overdue, Begun, Coded, OnlyTheTool, InHand, Unsent, Early, Situated, Endless, Busy, Soak,
     Running, Exited, Others, Loads
<1>3. ASSUME NEW j \in Background(missing), StartsLoad(j)
      PROVE  Overrun'
  BY <1>a, <1>d, <1>b, <1>c, <1>3, FreshFields, Numbers DEF StartsLoad, Elsewhere, Becomes,
     Background, Overrun, world, Overdue, Begun, Coded, OnlyTheTool, InHand, Unsent, Early,
     Situated, Endless, Busy, Soak, Running, Exited, Others, Loads
<1>4. CASE Pause \/ IdleEnds \/ Gather \/ Collect \/ Waited
  BY <1>a, <1>d, <1>b, <1>c, <1>4 DEF Pause, IdleEnds, Gather, Collect, Waited, Elsewhere,
     Overrun, world, Overdue, Begun, Coded, OnlyTheTool, InHand, Unsent, Early, Situated, Endless,
     Busy, Soak, Running, Exited, Others, Loads
<1>5. CASE Expired \/ GraceEnds \/ Stopped \/ Checked \/ Leaves
  BY <1>a, <1>d, <1>b, <1>c, <1>5, Fields, NoChildFields DEF Expired, Elsewhere, Becomes, Halts,
     GraceEnds, Stopped, Closes, Resume, Reviewed, Checked, Leaves, Overrun, world, Overdue,
     Begun, Coded, OnlyTheTool, InHand, Unsent, Early, Situated, Endless, Busy, Soak, Running,
     Exited, Others, Loads
<1>6. CASE Tick \/ Abort \/ SelfTested \/ UNCHANGED vars
  BY <1>a, <1>d, <1>b, <1>c, <1>6, Fields DEF Tick, main, Abort, SelfTested, Elsewhere, Becomes,
     vars, Overrun, world, Overdue, Begun, Coded, OnlyTheTool, InHand, Unsent, Early, Situated,
     Endless, Busy, Soak, Running, Exited, Others, Loads
<1>7. ASSUME NEW j \in Jobs, Tells(j)
      PROVE  Overrun'
  BY <1>a, <1>d, <1>b, <1>c, <1>7, Fields DEF Tells, Elsewhere, Becomes, Overrun, world, Overdue,
     Begun, Coded, OnlyTheTool, InHand, Unsent, Early, Situated, Endless, Busy, Soak, Running,
     Exited, Others, Loads
<1>8. ASSUME NEW j \in Jobs, NEW code \in AllCodes, NEW complete \in BOOLEAN,
             Exits(j, code, complete)
      PROVE  Overrun'
  BY <1>a, <1>d, <1>b, <1>c, <1>8, Fields DEF Exits, Elsewhere, Becomes, Overrun, world, Overdue,
     Begun, Coded, OnlyTheTool, InHand, Unsent, Early, Situated, Endless, Busy, Soak, Running,
     Exited, Others, Loads
<1> QED BY <1>1, <1>2, <1>3, <1>4, <1>5, <1>6, <1>7, <1>8 DEF Move

\* The deadlines follow from the start of the tool.
LEMMA DeadlinesNext ==
    ASSUME Shape, Begun, Deadlines, Move
    PROVE  Deadlines'
<1>a. /\ child \in [Jobs -> Processes] /\ Deadlines /\ Begun /\ Focused /\ Situated
      /\ Busy \/ pc = "collect" => job \in Jobs
  BY JobIsTool DEF Shape, Typed, Attended
<1>b. Jobs = Cpu \cup Others \cup Loads /\ \A j \in Cpu : j \notin Others \cup Loads
  BY Names
<1>c. phase \in {"cpu", "memory", "mprime", "ycruncher", "transient", "idle", "combined"}
  BY Numbers DEF Shape, Typed
<1>1. CASE Passes \/ PulsesBegin \/ Flips \/ PulsesEnd \/ Interrupted
  BY <1>a, <1>b, <1>c, <1>1, FreshFields, Numbers, Fields DEF Passes, Elsewhere, PulsesBegin,
     Becomes, Flips, PulsesEnd, Interrupted, Halts, Deadlines, Begun, Focused, Situated, Busy,
     Soak, Running, Exited, Others, Loads
<1>2. ASSUME NEW j \in Jobs, NEW s \in Nat, Starts(j, s)
      PROVE  Deadlines'
  BY <1>a, <1>b, <1>c, <1>2, FreshFields DEF Starts, Elsewhere, Becomes, Deadlines, Begun,
     Focused, Situated, Busy, Soak, Running, Exited, Others, Loads
<1>3. ASSUME NEW j \in Background(missing), StartsLoad(j)
      PROVE  Deadlines'
  BY <1>a, <1>b, <1>c, <1>3, FreshFields, Numbers DEF StartsLoad, Elsewhere, Becomes, Background,
     Deadlines, Begun, Focused, Situated, Busy, Soak, Running, Exited, Others, Loads
<1>4. CASE Pause \/ IdleEnds \/ Gather \/ Collect \/ Waited
  BY <1>a, <1>b, <1>c, <1>4 DEF Pause, IdleEnds, Gather, Collect, Waited, Elsewhere, Deadlines,
     Begun, Focused, Situated, Busy, Soak, Running, Exited, Others, Loads
<1>5. CASE Expired \/ GraceEnds \/ Stopped \/ Checked \/ Leaves
  BY <1>a, <1>b, <1>c, <1>5, Fields, NoChildFields DEF Expired, Elsewhere, Becomes, Halts,
     GraceEnds, Stopped, Closes, Resume, Reviewed, Checked, Leaves, Deadlines, Begun, Focused,
     Situated, Busy, Soak, Running, Exited, Others, Loads
<1>6. CASE Tick \/ Abort \/ SelfTested \/ UNCHANGED vars
  BY <1>a, <1>b, <1>c, <1>6, Fields DEF Tick, main, Abort, SelfTested, Elsewhere, Becomes, vars,
     Deadlines, Begun, Focused, Situated, Busy, Soak, Running, Exited, Others, Loads
<1>7. ASSUME NEW j \in Jobs, Tells(j)
      PROVE  Deadlines'
  BY <1>a, <1>b, <1>c, <1>7, Fields DEF Tells, Elsewhere, Becomes, Deadlines, Begun, Focused,
     Situated, Busy, Soak, Running, Exited, Others, Loads
<1>8. ASSUME NEW j \in Jobs, NEW code \in AllCodes, NEW complete \in BOOLEAN,
             Exits(j, code, complete)
      PROVE  Deadlines'
  BY <1>a, <1>b, <1>c, <1>8, Fields DEF Exits, Elsewhere, Becomes, Deadlines, Begun, Focused,
     Situated, Busy, Soak, Running, Exited, Others, Loads
<1> QED BY <1>1, <1>2, <1>3, <1>4, <1>5, <1>6, <1>7, <1>8 DEF Move

\* A tool is stopped for being late or at an abort.
LEMMA OutlivedNext ==
    ASSUME Shape, Timed, Move
    PROVE  Outlived'
<1>a. /\ child \in [Jobs -> Processes] /\ Outlived /\ Focused /\ Situated /\ Typed
      /\ Busy \/ pc = "collect" => job \in Jobs
  BY JobIsTool DEF Shape, Typed, Attended, Timed
<1>b. Jobs = Cpu \cup Others \cup Loads /\ \A j \in Cpu : j \notin Others \cup Loads
  BY Names
<1>c. phase \in {"cpu", "memory", "mprime", "ycruncher", "transient", "idle", "combined"}
  BY Numbers DEF Shape, Typed
<1>d. /\ clock \in Nat /\ Duration \in Nat \ {0} /\ Slack \in Nat \ {0}
      /\ \A k \in Jobs : child[k].since \in Nat /\ child[k].asked \in Nat
      /\ \A k \in Jobs : child[k].signalled \in BOOLEAN
  BY <1>a, Numbers DEF Shape, Typed, Processes
<1>1. CASE Passes \/ PulsesBegin \/ Flips \/ PulsesEnd \/ Interrupted
  BY <1>a, <1>d, <1>b, <1>c, <1>1, FreshFields, Numbers, Fields DEF Passes, Elsewhere,
     PulsesBegin, Becomes, Flips, PulsesEnd, Interrupted, Halts, Outlived, world, Late, Focused,
     Situated, Busy, Soak, Running, Exited, Endless, Others, Loads
<1>2. ASSUME NEW j \in Jobs, NEW s \in Nat, Starts(j, s)
      PROVE  Outlived'
  BY <1>a, <1>d, <1>b, <1>c, <1>2, FreshFields DEF Starts, Elsewhere, Becomes, Outlived, world,
     Late, Focused, Situated, Busy, Soak, Running, Exited, Endless, Others, Loads
<1>3. ASSUME NEW j \in Background(missing), StartsLoad(j)
      PROVE  Outlived'
  BY <1>a, <1>d, <1>b, <1>c, <1>3, FreshFields, Numbers DEF StartsLoad, Elsewhere, Becomes,
     Background, Outlived, world, Late, Focused, Situated, Busy, Soak, Running, Exited, Endless,
     Others, Loads
<1>4. CASE Pause \/ IdleEnds \/ Gather \/ Collect \/ GraceEnds
  BY <1>a, <1>d, <1>b, <1>c, <1>4, Fields DEF Pause, IdleEnds, Gather, Collect, GraceEnds,
     Elsewhere, Becomes, Outlived, world, Late, Focused, Situated, Busy, Soak, Running, Exited,
     Endless, Others, Loads
<1>5. CASE Waited
  <2>1. job \notin Endless \/ job = "mprime"
    BY <1>a, <1>b, <1>c, <1>5 DEF Waited, Tools, Situated, Endless, Others
  <2>2. ASSUME pc' = "expired"
        PROVE  abort \/ Late
    <3>1. Running(job) /\ (clock >= until \/ abort) /\ ~child[job].signalled
      BY <1>5, <2>2 DEF Waited, Shape, Unsent
    <3>2. until = IF job = "mprime" THEN Duration ELSE child[job].since + child[job].asked + Slack
      BY <1>5 DEF Waited, Timed, Deadlines, Busy
    <3>3. job \notin Endless /\ clock >= child[job].since + child[job].asked + Slack => job \in
       late
      BY <1>5, <3>1 DEF Waited, Timed, Overrun
    <3> QED BY <2>1, <3>1, <3>2, <3>3 DEF Late
  <2> QED BY <1>a, <1>5, <2>2 DEF Waited, Elsewhere, Outlived, Late, world
<1>6. CASE Expired
  <2>1. pc' \in {"grace", "stopped"} /\ UNCHANGED <<job, abort, clock, phase, world>>
    BY <1>6 DEF Expired, Halts, Elsewhere
  <2>2. abort \/ Late
    BY <1>a, <1>6 DEF Expired, Outlived
  <2>3. job # "transient" /\ job \notin Loads /\ phase # "transient"
    BY <1>a, <1>b, <1>c, <1>6 DEF Expired, Tools, Situated, Others, Loads
  <2>4. hung' = (job \notin {"y-cruncher", "mprime"} /\ ~abort)
    BY <1>6 DEF Expired
  <2> QED BY <2>1, <2>2, <2>3, <2>4 DEF Outlived, Late, world
<1>7. CASE Stopped \/ Checked \/ Leaves \/ Tick \/ Abort
  BY <1>a, <1>d, <1>b, <1>c, <1>7, NoChildFields, Fields DEF Stopped, Closes, Becomes, Resume,
     Reviewed, Checked, Leaves, Halts, Tick, main, Abort, Outlived, world, Late, Focused,
     Situated, Busy, Soak, Running, Exited, Endless, Others, Loads
<1>8. CASE SelfTested \/ UNCHANGED vars
  BY <1>a, <1>d, <1>b, <1>c, <1>8, Fields DEF SelfTested, Elsewhere, Becomes, vars, main,
     Outlived, world, Late, Focused, Situated, Busy, Soak, Running, Exited, Endless, Others, Loads
<1>9. ASSUME NEW j \in Jobs, Tells(j)
      PROVE  Outlived'
  BY <1>a, <1>d, <1>b, <1>c, <1>9, Fields DEF Tells, Elsewhere, Becomes, Outlived, world, Late,
     Focused, Situated, Busy, Soak, Running, Exited, Endless, Others, Loads
<1>10. ASSUME NEW j \in Jobs, NEW code \in AllCodes, NEW complete \in BOOLEAN,
             Exits(j, code, complete)
      PROVE  Outlived'
  BY <1>a, <1>d, <1>b, <1>c, <1>10, Fields DEF Exits, Elsewhere, Becomes, Outlived, world, Late,
     Focused, Situated, Busy, Soak, Running, Exited, Endless, Others, Loads
<1> QED BY <1>1, <1>2, <1>3, <1>4, <1>5, <1>6, <1>7, <1>8, <1>9, <1>10 DEF Move

-----------------------------------------------------------------------------
(* What the end of a tool says stays sound *)

\* What a tool tells is known.
LEMMA BlamedNext ==
    ASSUME Shape, Blamed, Move
    PROVE  Blamed'
<1>a. /\ child \in [Jobs -> Processes] /\ Blamed /\ Coded
      /\ Busy \/ pc = "collect" => job \in Jobs
  BY JobIsTool DEF Shape, Typed, Attended
<1>b. Jobs = Cpu \cup Others \cup Loads /\ \A j \in Cpu : j \notin Others \cup Loads
  BY Names
<1>c. phase \in {"cpu", "memory", "mprime", "ycruncher", "transient", "idle", "combined"}
  BY Numbers DEF Shape, Typed
<1>1. CASE Passes \/ PulsesBegin \/ Flips \/ PulsesEnd \/ Interrupted
  BY <1>a, <1>b, <1>c, <1>1, FreshFields, Numbers, Fields DEF Passes, Elsewhere, PulsesBegin,
     Becomes, Flips, PulsesEnd, Interrupted, Halts, Blamed, world, Coded, Exited, Others, Loads
<1>2. ASSUME NEW j \in Jobs, NEW s \in Nat, Starts(j, s)
      PROVE  Blamed'
  BY <1>a, <1>b, <1>c, <1>2, FreshFields DEF Starts, Elsewhere, Becomes, Blamed, world, Coded,
     Exited, Others, Loads
<1>3. ASSUME NEW j \in Background(missing), StartsLoad(j)
      PROVE  Blamed'
  BY <1>a, <1>b, <1>c, <1>3, FreshFields, Numbers DEF StartsLoad, Elsewhere, Becomes, Background,
     Blamed, world, Coded, Exited, Others, Loads
<1>4. CASE Pause \/ IdleEnds \/ Gather \/ Collect \/ Waited
  BY <1>a, <1>b, <1>c, <1>4 DEF Pause, IdleEnds, Gather, Collect, Waited, Elsewhere, Blamed,
     world, Coded, Exited, Others, Loads
<1>5. CASE Expired \/ GraceEnds \/ Stopped \/ Checked \/ Leaves
  BY <1>a, <1>b, <1>c, <1>5, Fields, NoChildFields DEF Expired, Elsewhere, Becomes, Halts,
     GraceEnds, Stopped, Closes, Resume, Reviewed, Checked, Leaves, Blamed, world, Coded, Exited,
     Others, Loads
<1>6. CASE Tick \/ Abort \/ SelfTested \/ UNCHANGED vars
  BY <1>a, <1>b, <1>c, <1>6, Fields DEF Tick, main, Abort, SelfTested, Elsewhere, Becomes, vars,
     Blamed, world, Coded, Exited, Others, Loads
<1>7. ASSUME NEW j \in Jobs, Tells(j)
      PROVE  Blamed'
  BY <1>a, <1>b, <1>c, <1>7, Fields DEF Tells, Elsewhere, Becomes, Blamed, world, Coded, Exited,
     Others, Loads
<1>8. ASSUME NEW j \in Jobs, NEW code \in AllCodes, NEW complete \in BOOLEAN,
             Exits(j, code, complete)
      PROVE  Blamed'
  <2>1. /\ child'[j].told = child[j].told /\ child'[j].code = code
        /\ \A k \in Jobs : k # j => child'[k] = child[k]
    BY <1>a, <1>8, Fields DEF Exits, Becomes
  <2>2. code = "fault" => j \in faulty' /\ j \in unwell'
    BY <1>8 DEF Exits, Whole
  <2>3. faulty \subseteq faulty' /\ faulty' \subseteq faulty \cup {j} /\ unwell \subseteq unwell'
    BY <1>8 DEF Exits
  <2>4. code # "fault" => faulty' = faulty
    BY <1>8 DEF Exits
  <2> QED BY <1>a, <2>1, <2>2, <2>3, <2>4 DEF Blamed
<1> QED BY <1>1, <1>2, <1>3, <1>4, <1>5, <1>6, <1>7, <1>8 DEF Move

\* A tool that is checked has ended, or was stopped late.
LEMMA AnsweredNext ==
    ASSUME Shape, Outlived, Answered, Move
    PROVE  Answered'
<1>a. /\ child \in [Jobs -> Processes] /\ Answered /\ Focused /\ Situated /\ InHand /\ Coded /\
         Unanswered /\ Outlived
      /\ Busy \/ pc = "collect" => job \in Jobs
  BY JobIsTool DEF Shape, Typed, Attended
<1>b. Jobs = Cpu \cup Others \cup Loads /\ \A j \in Cpu : j \notin Others \cup Loads
  BY Names
<1>c. phase \in {"cpu", "memory", "mprime", "ycruncher", "transient", "idle", "combined"}
  BY Numbers DEF Shape, Typed
<1>1. CASE Passes \/ PulsesBegin \/ Flips \/ PulsesEnd \/ Interrupted
  BY <1>a, <1>b, <1>c, <1>1, FreshFields, Numbers, Fields DEF Passes, Elsewhere, PulsesBegin,
     Becomes, Flips, PulsesEnd, Interrupted, Halts, Answered, Waits, world, Late, Focused,
     Situated, InHand, Coded, Unanswered, Outlived, Busy, Soak, Running, Exited, Others, Loads
<1>2. ASSUME NEW j \in Jobs, NEW s \in Nat, Starts(j, s)
      PROVE  Answered'
  BY <1>a, <1>b, <1>c, <1>2, FreshFields DEF Starts, Elsewhere, Becomes, Answered, Waits, world,
     Late, Focused, Situated, InHand, Coded, Unanswered, Outlived, Busy, Soak, Running, Exited,
     Others, Loads
<1>3. ASSUME NEW j \in Background(missing), StartsLoad(j)
      PROVE  Answered'
  BY <1>a, <1>b, <1>c, <1>3, FreshFields, Numbers DEF StartsLoad, Elsewhere, Becomes, Background,
     Answered, Waits, world, Late, Focused, Situated, InHand, Coded, Unanswered, Outlived, Busy,
     Soak, Running, Exited, Others, Loads
<1>4. CASE Pause \/ IdleEnds \/ Gather \/ Collect \/ Waited
  BY <1>a, <1>b, <1>c, <1>4 DEF Pause, IdleEnds, Gather, Collect, Waited, Elsewhere, Answered,
     Waits, world, Late, Focused, Situated, InHand, Coded, Unanswered, Outlived, Busy, Soak,
     Running, Exited, Others, Loads
<1>5. CASE Expired \/ GraceEnds \/ Stopped \/ Checked \/ Leaves
  BY <1>a, <1>b, <1>c, <1>5, Fields, NoChildFields DEF Expired, Elsewhere, Becomes, Halts,
     GraceEnds, Stopped, Closes, Resume, Reviewed, Checked, Leaves, Answered, Waits, world, Late,
     Focused, Situated, InHand, Coded, Unanswered, Outlived, Busy, Soak, Running, Exited, Others,
     Loads
<1>6. CASE Tick \/ Abort \/ SelfTested \/ UNCHANGED vars
  BY <1>a, <1>b, <1>c, <1>6, Fields DEF Tick, main, Abort, SelfTested, Elsewhere, Becomes, vars,
     Answered, Waits, world, Late, Focused, Situated, InHand, Coded, Unanswered, Outlived, Busy,
     Soak, Running, Exited, Others, Loads
<1>7. ASSUME NEW j \in Jobs, Tells(j)
      PROVE  Answered'
  BY <1>a, <1>b, <1>c, <1>7, Fields DEF Tells, Elsewhere, Becomes, Answered, Waits, world, Late,
     Focused, Situated, InHand, Coded, Unanswered, Outlived, Busy, Soak, Running, Exited, Others,
     Loads
<1>8. ASSUME NEW j \in Jobs, NEW code \in AllCodes, NEW complete \in BOOLEAN,
             Exits(j, code, complete)
      PROVE  Answered'
  BY <1>a, <1>b, <1>c, <1>8, Fields DEF Exits, Elsewhere, Becomes, Answered, Waits, world, Late,
     Focused, Situated, InHand, Coded, Unanswered, Outlived, Busy, Soak, Running, Exited, Others,
     Loads
<1> QED BY <1>1, <1>2, <1>3, <1>4, <1>5, <1>6, <1>7, <1>8 DEF Move

\* A process that ended before its time, or badly, is not well.
LEMMA AllFitNext ==
    ASSUME Shape, AllFit, Move
    PROVE  AllFit'
<1>a. /\ child \in [Jobs -> Processes] /\ AllFit /\ Coded
      /\ Busy \/ pc = "collect" => job \in Jobs
  BY JobIsTool DEF Shape, Typed, Attended
<1>b. Jobs = Cpu \cup Others \cup Loads /\ \A j \in Cpu : j \notin Others \cup Loads
  BY Names
<1>c. phase \in {"cpu", "memory", "mprime", "ycruncher", "transient", "idle", "combined"}
  BY Numbers DEF Shape, Typed
<1>d. /\ clock \in Nat /\ Duration \in Nat \ {0} /\ Slack \in Nat \ {0}
      /\ \A k \in Jobs : child[k].since \in Nat /\ child[k].asked \in Nat
      /\ \A k \in Jobs : child[k].signalled \in BOOLEAN
  BY <1>a, Numbers DEF Shape, Typed, Processes
<1>e. ASSUME UNCHANGED <<child, clock>>, unwell \subseteq unwell'
      PROVE  AllFit'
  BY <1>a, <1>e DEF AllFit, Fit, Exited, InTime
<1>f. ASSUME NEW k \in Jobs, Running(k), Becomes(k, Signalled(child[k])),
             UNCHANGED clock, unwell \subseteq unwell'
      PROVE  AllFit'
  <2>1. LET d == child'[k] IN d.run = "running" /\ d.code = "none" /\ d.complete = child[k].complete
    BY <1>a, <1>f, Fields DEF Becomes, Coded, Running, Exited
  <2>2. Fit(k)'
    BY <1>a, <1>f, <2>1 DEF AllFit, Fit, Running, Exited
  <2> QED BY <1>a, <1>f, <2>2 DEF AllFit, Fit, Becomes, Exited, InTime
<1>1. CASE Passes \/ PulsesBegin \/ Flips \/ Pause \/ IdleEnds
  BY <1>a, <1>d, <1>b, <1>c, <1>1, FreshFields, Numbers, Fields DEF Passes, Elsewhere,
     PulsesBegin, Becomes, Flips, Pause, IdleEnds, AllFit, Fit, world, InTime, Running, Exited,
     Others, Loads
<1>2. ASSUME NEW j \in Jobs, NEW s \in Nat, Starts(j, s)
      PROVE  AllFit'
  BY <1>a, <1>d, <1>b, <1>c, <1>2, FreshFields DEF Starts, Elsewhere, Becomes, AllFit, Fit, world,
     InTime, Running, Exited, Others, Loads
<1>3. ASSUME NEW j \in Background(missing), StartsLoad(j)
      PROVE  AllFit'
  BY <1>a, <1>d, <1>b, <1>c, <1>3, FreshFields, Numbers DEF StartsLoad, Elsewhere, Becomes,
     Background, AllFit, Fit, world, InTime, Running, Exited, Others, Loads
<1>4. CASE PulsesEnd
  BY <1>a, <1>e, <1>f, <1>4 DEF PulsesEnd, Elsewhere, world
<1>5. CASE Interrupted
  BY <1>a, <1>e, <1>f, <1>5 DEF Interrupted, Halts, Elsewhere
<1>6. CASE Gather \/ Collect \/ Waited \/ GraceEnds \/ Stopped
  BY <1>a, <1>d, <1>b, <1>c, <1>6, Fields, NoChildFields DEF Gather, Collect, Waited, Elsewhere,
     GraceEnds, Becomes, Stopped, Closes, Resume, Reviewed, AllFit, Fit, world, InTime, Running,
     Exited, Others, Loads
<1>7. CASE Expired
  BY <1>a, <1>e, <1>f, <1>7 DEF Expired, Halts, Elsewhere, world
<1>8. CASE Checked \/ Tick \/ Abort \/ SelfTested \/ UNCHANGED vars
  BY <1>a, <1>d, <1>b, <1>c, <1>8, NoChildFields, Fields DEF Checked, Closes, Becomes, Resume,
     Tick, main, Abort, SelfTested, Elsewhere, vars, AllFit, Fit, world, InTime, Running, Exited,
     Others, Loads
<1>9. CASE Leaves
  BY <1>e, <1>f, <1>9 DEF Leaves, Halts, world
<1>10. ASSUME NEW j \in Jobs, Tells(j)
      PROVE  AllFit'
  BY <1>a, <1>d, <1>b, <1>c, <1>10, Fields DEF Tells, Elsewhere, Becomes, AllFit, Fit, world,
     InTime, Running, Exited, Others, Loads
<1>11. ASSUME NEW j \in Jobs, NEW code \in AllCodes, NEW complete \in BOOLEAN,
             Exits(j, code, complete)
      PROVE  AllFit'
  <2>1. LET d == child'[j]
        IN  /\ d.run = "exited" /\ d.code = code /\ d.complete = complete
            /\ d.since = child[j].since /\ d.asked = child[j].asked
            /\ d.signalled = child[j].signalled
    BY <1>a, <1>11, Fields DEF Exits, Becomes
  <2>2. code = "fault" => j \in StressNG \cup {"y-cruncher"}
    BY <1>11 DEF Exits, Codes
  <2>3. \/ j \in unwell'
        \/ code = "ok" /\ complete /\ (InTime(j) \/ child[j].signalled)
        \/ child[j].signalled /\ (j \in Endless => complete)
    BY <1>11 DEF Exits, Whole
  <2>4. /\ child[j].signalled => code \in {"ok", "signal"}
        /\ j # "mprime" /\ complete => code = "ok"
        /\ UNCHANGED clock /\ unwell \subseteq unwell'
        /\ \A k \in Jobs : k # j => child'[k] = child[k]
    BY <1>11 DEF Exits, Elsewhere, Becomes
  <2>5. Fit(j)'
    BY <2>1, <2>2, <2>3, <2>4 DEF Fit, Exited, InTime
  <2> QED BY <1>a, <2>4, <2>5 DEF AllFit, Fit, Exited, InTime
<1> QED BY <1>1, <1>2, <1>3, <1>4, <1>5, <1>6, <1>7, <1>8, <1>9, <1>10, <1>11 DEF Move

\* The history of verified runs agrees with what the tools left behind.
LEMMA CertifiedNext ==
    ASSUME Shape, AllFit, Certified, Move
    PROVE  Certified'
<1>a. /\ child \in [Jobs -> Processes] /\ Certified /\ InHand /\ OnlyTheTool /\ Coded /\ Situated /\ Focused
      /\ Busy \/ pc = "collect" => job \in Jobs
  BY JobIsTool DEF Shape, Typed, Attended
<1>b. Jobs = Cpu \cup Others \cup Loads /\ \A j \in Cpu : j \notin Others \cup Loads
  BY Names
<1>c. phase \in {"cpu", "memory", "mprime", "ycruncher", "transient", "idle", "combined"}
  BY Numbers DEF Shape, Typed
<1>d. /\ clock \in Nat /\ Duration \in Nat \ {0} /\ Slack \in Nat \ {0}
      /\ \A k \in Jobs : child[k].since \in Nat /\ child[k].asked \in Nat
      /\ \A k \in Jobs : child[k].signalled \in BOOLEAN
  BY <1>a, Numbers DEF Shape, Typed, Processes
<1>e. "mprime" \in Jobs \ Loads /\ \A k \in Loads : k \in Jobs
  BY <1>b DEF Others, Loads
<1>1. CASE Passes
  BY <1>a, <1>d, <1>e, <1>b, <1>c, <1>1 DEF Passes, Elsewhere, Certified, Woken, NoJob, InTime,
     Waits, Situated, InHand, OnlyTheTool, Coded, Focused, Busy, Soak, Running, Exited, world,
     Others, Loads
<1>2. ASSUME NEW j \in Jobs, NEW s \in Nat, Starts(j, s)
      PROVE  Certified'
  BY <1>a, <1>d, <1>e, <1>b, <1>c, <1>2, FreshFields DEF Starts, Elsewhere, Becomes, Certified,
     Woken, NoJob, InTime, Waits, Situated, InHand, OnlyTheTool, Coded, Focused, Busy, Soak,
     Running, Exited, world, Others, Loads
<1>3. ASSUME NEW j \in Background(missing), StartsLoad(j)
      PROVE  Certified'
  BY <1>a, <1>d, <1>e, <1>b, <1>c, <1>3, FreshFields, Numbers DEF StartsLoad, Elsewhere, Becomes,
     Background, Certified, Woken, NoJob, InTime, Waits, Situated, InHand, OnlyTheTool, Coded,
     Focused, Busy, Soak, Running, Exited, world, Others, Loads
<1>4. CASE PulsesBegin
  BY <1>a, <1>d, <1>e, <1>b, <1>c, <1>4, FreshFields, Numbers DEF PulsesBegin, Elsewhere, Becomes,
     Certified, Woken, NoJob, InTime, Waits, Situated, InHand, OnlyTheTool, Coded, Focused, Busy,
     Soak, Running, Exited, world, Others, Loads
<1>5. CASE Flips
  BY <1>a, <1>d, <1>e, <1>b, <1>c, <1>5, Fields DEF Flips, Elsewhere, Becomes, Certified, Woken,
     NoJob, InTime, Waits, Situated, InHand, OnlyTheTool, Coded, Focused, Busy, Soak, Running,
     Exited, world, Others, Loads
<1>6. CASE PulsesEnd
  BY <1>a, <1>d, <1>e, <1>b, <1>c, <1>6, Fields DEF PulsesEnd, Elsewhere, Becomes, Certified,
     Woken, NoJob, InTime, Waits, Situated, InHand, OnlyTheTool, Coded, Focused, Busy, Soak,
     Running, Exited, world, Others, Loads
<1>7. CASE Interrupted
  BY <1>a, <1>d, <1>e, <1>b, <1>c, <1>7, Fields DEF Interrupted, Elsewhere, Becomes, Halts,
     Certified, Woken, NoJob, InTime, Waits, Situated, InHand, OnlyTheTool, Coded, Focused, Busy,
     Soak, Running, Exited, world, Others, Loads
<1>8. CASE Pause \/ IdleEnds \/ Gather \/ Collect \/ Waited
  BY <1>a, <1>d, <1>e, <1>b, <1>c, <1>8 DEF Pause, IdleEnds, Gather, Collect, Waited, Elsewhere,
     Certified, Woken, NoJob, InTime, Waits, Situated, InHand, OnlyTheTool, Coded, Focused, Busy,
     Soak, Running, Exited, world, Others, Loads
<1>9. CASE Expired
  BY <1>a, <1>d, <1>e, <1>b, <1>c, <1>9, Fields DEF Expired, Elsewhere, Becomes, Halts, Certified,
     Woken, NoJob, InTime, Waits, Situated, InHand, OnlyTheTool, Coded, Focused, Busy, Soak,
     Running, Exited, world, Others, Loads
<1>10. CASE GraceEnds
  BY <1>a, <1>d, <1>e, <1>b, <1>c, <1>10, Fields DEF GraceEnds, Elsewhere, Becomes, Certified,
     Woken, NoJob, InTime, Waits, Situated, InHand, OnlyTheTool, Coded, Focused, Busy, Soak,
     Running, Exited, world, Others, Loads
<1>11. CASE Stopped
  BY <1>a, <1>d, <1>e, <1>b, <1>c, <1>11, NoChildFields DEF Stopped, Closes, Becomes, Resume,
     Reviewed, Certified, Woken, NoJob, InTime, Waits, Situated, InHand, OnlyTheTool, Coded,
     Focused, Busy, Soak, Running, Exited, world, Others, Loads
<1>12. CASE Checked
  BY <1>a, <1>d, <1>e, <1>b, <1>c, <1>12, NoChildFields DEF Checked, Closes, Becomes, Resume,
     Certified, Woken, NoJob, InTime, Waits, Situated, InHand, OnlyTheTool, Coded, Focused, Busy,
     Soak, Running, Exited, world, Others, Loads
<1>13. CASE Leaves
  <2>1. ASSUME NEW j \in Loads, j \in Jobs, Running(j), Halts(j)
        PROVE  Certified'
    <3>1. LET d == child'[j]
          IN  d.run = "running" /\ d.told = child[j].told /\ d.complete = child[j].complete
      BY <1>a, <2>1, Fields DEF Halts, Becomes, Running
    <3>2. job' = j /\ (\A k \in Jobs : k # j => child'[k] = child[k]) /\ UNCHANGED <<clock, verified>>
      BY <1>13, <2>1 DEF Halts, Becomes, Leaves, world
    <3>3. child["mprime"].complete => "mprime" \in verified
      BY <1>a, <1>e, <1>13 DEF Leaves, Certified, Busy
    <3> QED BY <1>a, <1>e, <3>1, <3>2, <3>3 DEF Certified, Exited
  <2>2. CASE pc' = "over" /\ UNCHANGED child
    BY <1>a, <1>e, <1>13, <2>2 DEF Leaves, Certified, Busy, Exited, world
  <2> QED BY <1>13, <2>1, <2>2 DEF Leaves
<1>14. CASE Tick
  <2>1. Busy => job # NoJob
    BY <1>a, Names DEF Others, Loads, NoJob
  <2>2. Busy => ~Exited(job)
    BY <1>14, <2>1 DEF Tick, Woken
  <2>3. UNCHANGED <<child, pc, job, phase, verified>>
    BY <1>14 DEF Tick, main
  <2> QED BY <1>a, <2>2, <2>3 DEF Certified, Busy, Soak, Exited
<1>15. CASE Abort
  BY <1>a, <1>d, <1>e, <1>b, <1>c, <1>15 DEF Abort, main, Certified, Woken, NoJob, InTime, Waits,
     Situated, InHand, OnlyTheTool, Coded, Focused, Busy, Soak, Running, Exited, world, Others,
     Loads
<1>16. CASE SelfTested
  BY <1>a, <1>d, <1>e, <1>b, <1>c, <1>16, Fields DEF SelfTested, Elsewhere, Becomes, Certified,
     Woken, NoJob, InTime, Waits, Situated, InHand, OnlyTheTool, Coded, Focused, Busy, Soak,
     Running, Exited, world, Others, Loads
<1>17. ASSUME NEW j \in Jobs, Tells(j)
      PROVE  Certified'
  <2>1. LET d == child'[j]
        IN  d.run = "running" /\ d.complete = child[j].complete
    BY <1>a, <1>17, Fields DEF Tells, Becomes, Running
  <2>2. /\ j = job /\ j \notin Loads /\ Running(j)
        /\ UNCHANGED <<clock, pc, job, phase, verified>>
        /\ \A k \in Jobs : k # j => child'[k] = child[k]
    BY <1>17 DEF Tells, Becomes, Elsewhere
  <2> QED BY <1>a, <1>e, <2>1, <2>2 DEF Certified, Busy, Soak, Running, Exited
<1>18. ASSUME NEW j \in Jobs, NEW code \in AllCodes, NEW complete \in BOOLEAN,
             Exits(j, code, complete)
      PROVE  Certified'
  <2>1. LET d == child'[j]
        IN  /\ d.run = "exited" /\ d.code = code /\ d.complete = complete
            /\ d.told = child[j].told
            /\ d.since = child[j].since /\ d.asked = child[j].asked
            /\ d.signalled = child[j].signalled
    BY <1>a, <1>18, Fields DEF Exits, Becomes
  <2>2. /\ UNCHANGED <<clock, pc, job, phase>> /\ Running(j)
        /\ \A k \in Jobs : k # j => child'[k] = child[k]
        /\ \A k \in Jobs \ {j} : k \in verified => k \in verified'
    BY <1>18 DEF Exits, Elsewhere, Becomes
  <2>3. Busy' <=> Busy
    BY <2>2 DEF Busy, Soak
  <2>4. Busy /\ j = job /\ j # "mprime" /\ code = "ok" /\ complete /\ ~child[j].told
            /\ (InTime(j) \/ child[j].signalled) => j \in verified'
    BY <1>18 DEF Exits, Whole
  <2>5. code = "unsupported" => clock = child[j].since
    BY <1>18 DEF Exits
  <2>6. child'["mprime"].complete =>
           \/ "mprime" \in verified'
           \/ Exited("mprime")' /\ Busy' /\ job' = "mprime" /\ clock' + 1 < Duration
    <3>1. CASE j = "mprime"
      <4>1. complete = child[j].complete
        BY <1>18, <3>1 DEF Exits
      <4>2. complete => j \in verified
        BY <1>a, <2>2, <3>1, <4>1 DEF Certified, Running, Exited
      <4>3. Busy /\ job = "mprime"
        BY <1>18, <3>1 DEF Exits, Loads
      <4>4. clock + 1 >= Duration \/ clock + 1 < Duration
        BY <1>d
      <4>5. j \in verified => j \in verified' \/ clock + 1 < Duration
        BY <1>18, <3>1, <4>4 DEF Exits
      <4> QED BY <2>1, <2>2, <2>3, <3>1, <4>2, <4>3, <4>5 DEF Exited
    <3>2. CASE j # "mprime"
      <4>1. "mprime" \in Jobs
        BY <1>b DEF Others
      <4> QED BY <1>a, <2>2, <2>3, <3>2, <4>1 DEF Certified, Exited
    <3> QED BY <3>1, <3>2
  <2>7. \A k \in Loads : ~child'[k].told /\ (child'[k].complete => k \in verified')
    <3>1. ~child[j].told \/ j \notin Loads
      BY <1>a, <1>18 DEF Certified
    <3>2. j \in Loads /\ complete => j \in verified'
      BY <1>18, <3>1 DEF Exits, Whole, Loads
    <3>3. \A k \in Loads : k \in Jobs
      BY <1>b
    <3> QED BY <1>a, <2>1, <2>2, <3>2, <3>3 DEF Certified
  <2>8. CASE j = job
    BY <2>1, <2>2, <2>3, <2>4, <2>5, <2>6, <2>7, <2>8 DEF Certified, Exited, InTime
  <2>9. CASE j # job
    BY <1>a, <2>2, <2>3, <2>6, <2>7, <2>9 DEF Certified, Exited, InTime
  <2> QED BY <2>8, <2>9
<1>19. CASE UNCHANGED vars
  BY <1>a, <1>d, <1>e, <1>b, <1>c, <1>19 DEF vars, main, Certified, Woken, NoJob, InTime, Waits,
     Situated, InHand, OnlyTheTool, Coded, Focused, Busy, Soak, Running, Exited, world, Others,
     Loads
<1> QED BY <1>1, <1>2, <1>3, <1>4, <1>5, <1>6, <1>7, <1>8, <1>9, <1>10, <1>11, <1>12, <1>13,
       <1>14, <1>15, <1>16, <1>17, <1>18, <1>19 DEF Move

-----------------------------------------------------------------------------
(* What is known is reported *)

\* Findings are not taken back.
LEMMA NotesGrow ==
    ASSUME [Next]_vars
    PROVE  findings \subseteq findings'
<1>1. CASE CpuRun \/ MemoryRun \/ YCruncherRun \/ MprimeRun \/ CombinedRun \/ IdleEnds \/ Raise
  BY <1>1 DEF CpuRun, MemoryRun, YCruncherRun, MprimeRun, CombinedRun, IdleEnds, Raise
<1>2. CASE EndPulses \/ AfterStop \/ Collect \/ Check \/ LoseResult
  BY <1>2 DEF EndPulses, AfterStop, Collect, Check, LoseResult
<1> QED BY <1>1, <1>2, NotesStay

\* A fault that the phase is about to look at is reported.
LEMMA PendingIsReported ==
    ASSUME Shape, Timed, Sound, Answered, Certified, Move, findings \subseteq findings',
           NEW j \in Jobs, Pending(j)
    PROVE  (Reported(j) \/ Pending(j))'
<1>a. /\ child \in [Jobs -> Processes] /\ child[j] \in Processes
      /\ Busy /\ j = job /\ (pc # "check" => child[j].told \/ child[j].code = "fault")
      /\ pc = "check" => child[j].told \/ result = "fault"
      /\ pc \in {"wait", "expired", "check", "grace", "stopped", "pulse", "interrupt"}
  BY DEF Shape, Typed, Pending, Busy
<1>b. child[j].code = "fault" =>
        Exited(j) /\ j \in StressNG \cup {"y-cruncher"} /\ ~child[j].signalled
  BY DEF Shape, Coded, Sound, AllFit, Fit
<1>c. j \in StressNG \cup {"y-cruncher"} => j \notin Loads \cup {"mprime", "stressapptest"}
  BY Names DEF Loads, Others
<1>d. pc' \in {"wait", "expired", "check", "grace", "stopped", "pulse", "interrupt"} /\ UNCHANGED phase
      => Busy' \/ pc' = "wait"
  BY DEF Busy, Soak
<1>1. CASE Flips \/ Tick \/ UNCHANGED vars
  BY <1>a, <1>1, Fields DEF Flips, Tick, vars, main, Elsewhere, Becomes, Pending, Busy, Soak
<1>2. CASE PulsesEnd \/ Interrupted \/ Waited
  BY <1>a, <1>b, <1>d, <1>2, Fields DEF PulsesEnd, Interrupted, Waited, Elsewhere, Becomes, Halts,
     Exited, Running, Pending
<1>3. CASE Expired
  BY <1>a, <1>b, <1>d, <1>3, Fields DEF Expired, Elsewhere, Becomes, Halts, Exited, Running,
     Pending
<1>4. CASE GraceEnds
  BY <1>a, <1>b, <1>d, <1>4, Fields DEF GraceEnds, Elsewhere, Becomes, Exited, Running, Pending
<1>5. CASE Stopped
  <2>1. CASE job \in Reviewed /\ child[j].told
    <3>1. pc' = "check" /\ UNCHANGED <<child, job, phase>>
      BY <1>5, <2>1 DEF Stopped
    <3> QED BY <1>a, <2>1, <3>1 DEF Pending, Busy, Soak
  <2>2. CASE job \in Reviewed /\ child[j].code = "fault"
    <3>1. job = "y-cruncher"
      BY <1>a, <1>b, <1>c, <1>5, <2>2 DEF Shape, Sent, Stopped, Reviewed
    <3>2. (abort \/ Late) /\ job \notin Endless
      BY <1>5, <3>1 DEF Timed, Outlived, Stopped, Loads, Endless
    <3> QED BY <1>a, <1>5, <3>1, <3>2 DEF Stopped, Reported, Late, world
  <2>3. CASE job \notin Reviewed
    <3>1. abort \/ hung
      BY <1>5, <2>3 DEF Timed, Outlived, Stopped, Reviewed
    <3>2. job \notin Endless
      BY <2>3 DEF Reviewed, Endless
    <3> QED BY <1>a, <1>5, <3>1, <3>2 DEF Stopped, Reported
  <2> QED BY <1>a, <1>5, <2>1, <2>2, <2>3 DEF Stopped
<1>6. CASE Checked
  <2>a. CASE job = "y-cruncher" /\ <<"gap", "phase">> \in findings'
    BY <1>a, <2>a DEF Reported
  <2> SUFFICES ASSUME findings' = findings \cup {<<severity, job>> : severity \in Conclusions(job)}
               PROVE  Reported(j)'
    BY <1>6, <2>a DEF Checked
  <2>0. findings' = findings \cup {<<severity, job>> : severity \in Conclusions(job)} /\ abort' = abort
    BY <1>6 DEF Checked
  <2>1. child[j].told => "fail" \in Conclusions(j)
    BY DEF Conclusions, CheckStressAppTest, CheckYCruncher, CheckMprime, CheckStressNG, If
  <2>2. CASE child[j].told
    BY <1>a, <2>0, <2>1, <2>2 DEF Reported
  <2>3. CASE result = "fault"
    <3>1. child[j].code = "fault"
      BY <1>a, <1>6, <2>3 DEF Answered, Checked
    <3>2. j \notin {"mprime", "stressapptest"}
      BY <1>b, <1>c, <3>1
    <3>3. "fail" \in Conclusions(j) \/ (j = "y-cruncher" /\ abort)
      BY <2>3, <3>2 DEF Conclusions, CheckYCruncher, CheckStressNG, If
    <3> QED BY <1>a, <2>0, <3>3 DEF Reported, Endless
  <2> QED BY <1>a, <1>6, <2>2, <2>3 DEF Checked
<1>7. CASE Leaves
  <2>1. job \in Loads
    BY <1>a, <1>7 DEF Leaves
  <2> QED BY <1>a, <1>b, <1>c, <1>7, <2>1 DEF Leaves, Certified
<1>8. CASE Abort
  <2>1. abort' /\ (Pending(j) => Pending(j)')
    BY <1>8 DEF Abort, main, Pending, Busy, Soak
  <2> QED BY <2>1
<1>9. CASE SelfTested
  BY <1>a, <1>9, Fields DEF SelfTested, Elsewhere, Becomes, Pending, Busy, Soak
<1>10. ASSUME NEW k \in Jobs, Tells(k)
       PROVE  Pending(j)'
  BY <1>a, <1>10, Fields DEF Tells, Elsewhere, Becomes, Pending, Busy, Soak
<1>11. ASSUME NEW k \in Jobs, NEW code \in AllCodes, NEW complete \in BOOLEAN,
              Exits(k, code, complete)
       PROVE  Pending(j)'
  <2>1. /\ child'[k].told = child[k].told /\ Running(k)
        /\ \A l \in Jobs : l # k => child'[l] = child[l]
        /\ UNCHANGED <<pc, job, phase, result>>
    BY <1>a, <1>11, Fields DEF Exits, Becomes, Elsewhere
  <2>2. child'[j].told = child[j].told
    BY <1>a, <2>1
  <2>3. child[j].code = "fault" => child'[j].code = "fault"
    BY <1>a, <1>b, <2>1 DEF Running, Exited
  <2>4. pc = "check" => ~Running(j)
    BY <1>a DEF Shape, Attended, InHand
  <2> QED BY <1>a, <2>1, <2>2, <2>3, <2>4 DEF Pending, Busy, Soak
<1>12. ~(Passes \/ PulsesBegin \/ Pause \/ IdleEnds \/ Gather \/ Collect)
  BY <1>a DEF Passes, PulsesBegin, Pause, IdleEnds, Gather, Collect, Busy, Soak
<1>13. /\ ~\E k \in Jobs, s \in Nat : Starts(k, s)
       /\ ~\E k \in Background(missing) : StartsLoad(k)
  BY <1>a DEF Starts, StartsLoad
<1> QED BY <1>1, <1>2, <1>3, <1>4, <1>5, <1>6, <1>7, <1>8, <1>9, <1>10, <1>11, <1>12, <1>13 DEF
           Move

\* What has been reported stays so.
LEMMA ReportedStays ==
    ASSUME Typed, Move, findings \subseteq findings', NEW j, Reported(j)
    PROVE  Reported(j)'
<1>1. (abort => abort') /\ late \subseteq late'
  BY DEF Move, Passes, Starts, StartsLoad, PulsesBegin, Flips, PulsesEnd, Interrupted, Pause,
     IdleEnds, Gather, Collect, Waited, Expired, GraceEnds, Stopped, Checked, Leaves, Tick, Abort,
     SelfTested, Tells, Exits, Elsewhere, vars, world
<1> QED BY <1>1 DEF Reported

\* No fault is lost between its report and the finding.
LEMMA FaultsNext ==
    ASSUME Shape, Timed, Sound, Answered, Certified, Faults, [Next]_vars
    PROVE  Faults'
<1>1. Move /\ findings \subseteq findings'
  BY Moves, NotesGrow
<1> SUFFICES ASSUME NEW j \in faulty'
             PROVE  (Reported(j) \/ Pending(j))'
  BY DEF Faults
<1>2. CASE j \in faulty
  <2>1. j \in Jobs
    BY <1>2 DEF Shape, Typed
  <2> QED BY <1>1, <1>2, <2>1, PendingIsReported, ReportedStays DEF Faults, Shape
<1>3. CASE j \notin faulty
  <2>1. \/ \E k \in Jobs : Tells(k)
        \/ \E k \in Jobs, code \in AllCodes, complete \in BOOLEAN : Exits(k, code, complete)
    BY <1>1, <1>3 DEF Move, Passes, Starts, StartsLoad, PulsesBegin, Flips, PulsesEnd,
       Interrupted, Waited, Expired, GraceEnds, SelfTested, Tick, Abort, vars, world, Stopped,
       Checked, Leaves, Pause, IdleEnds, Gather, Collect
  <2>a. child \in [Jobs -> Processes]
    BY DEF Shape, Typed
  <2>2. ASSUME NEW k \in Jobs, Tells(k)
        PROVE  Pending(j)'
    <3>1. j = k /\ k = job
      BY <1>3, <2>2 DEF Tells
    <3> QED BY <2>a, <2>2, <3>1, Fields DEF Tells, Elsewhere, Becomes, Pending, Busy, Soak
  <2>3. ASSUME NEW k \in Jobs, NEW code \in AllCodes, NEW complete \in BOOLEAN,
               Exits(k, code, complete)
        PROVE  Pending(j)'
    <3>1. j = k /\ code = "fault"
      BY <1>3, <2>3 DEF Exits
    <3>2. k \notin Loads
      BY <2>3, <3>1, Names DEF Exits, Codes, Loads
    <3>3. Busy /\ k = job /\ pc # "check" /\ child'[k].code = "fault" /\ UNCHANGED <<pc, job, phase, result>>
      BY <2>a, <2>3, <3>1, <3>2, Fields DEF Exits, Elsewhere, Becomes, Shape, Attended, InHand
    <3> QED BY <3>1, <3>3 DEF Pending, Busy, Soak
  <2> QED BY <2>1, <2>2, <2>3
<1> QED BY <1>2, <1>3

-----------------------------------------------------------------------------
(* What is reported is earned *)

\* What has gone wrong is not forgotten.
LEMMA WorldGrows ==
    ASSUME Move
    PROVE  (abort => abort') /\ faulty \subseteq faulty' /\ late \subseteq late' /\ unwell \subseteq unwell'
<1>1. (abort => abort') /\ late \subseteq late'
  BY DEF Move, Passes, Starts, StartsLoad, PulsesBegin, Flips, PulsesEnd, Interrupted, Pause,
     IdleEnds, Gather, Collect, Waited, Expired, GraceEnds, Stopped, Checked, Leaves, Tick, Abort,
     SelfTested, Tells, Exits, Elsewhere, vars, world
<1>2. faulty \subseteq faulty'
  BY DEF Move, Passes, Starts, StartsLoad, PulsesBegin, Flips, PulsesEnd, Interrupted, Pause,
     IdleEnds, Gather, Collect, Waited, Expired, GraceEnds, Stopped, Checked, Leaves, Tick, Abort,
     SelfTested, Tells, Exits, vars, world
<1>3. unwell \subseteq unwell'
  BY DEF Move, Passes, Starts, StartsLoad, PulsesBegin, Flips, PulsesEnd, Interrupted, Pause,
     IdleEnds, Gather, Collect, Waited, Expired, GraceEnds, Stopped, Checked, Leaves, Tick, Abort,
     SelfTested, Tells, Exits, vars, world
<1> QED BY <1>1, <1>2, <1>3

\* A stressor that leaves the rotation could not run.
LEMMA DroppedNext ==
    ASSUME Shape, Sound, Answered, Dropped, [Next]_vars
    PROVE  Dropped'
<1>1. UNCHANGED <<phase, missing>> /\ unwell \subseteq unwell'
  BY PhaseStays, Moves, WorldGrows
<1> SUFFICES ASSUME phase = "cpu"
             PROVE  Cpu \ Range(todo') \subseteq unwell'
  BY <1>1 DEF Dropped
<1>2. Cpu \ Range(todo) \subseteq unwell
  BY DEF Dropped
<1>3. CASE Check /\ result \in {"odd", "unsupported"}
  <2>1. PICK n \in 1..Len(todo) : todo[n] = job /\ todo' = RemoveAt(todo, n)
    BY <1>3 DEF Check
  <2>2. Range(todo) \subseteq Range(todo') \cup {job}
    BY <2>1, RemoveAtRemoves DEF Shape, Listed
  <2>3. Busy /\ job \in Cpu /\ job \in Jobs
    BY <1>3, JobIsTool DEF Check, Busy, Soak
  <2>4. job \notin {"y-cruncher", "mprime", "transient"}
    BY <2>3, Names DEF Others
  <2>5. Exited(job) /\ child[job].code = result
    BY <1>3, <2>4 DEF Answered, Check
  <2>6. job \in unwell
    BY <1>3, <2>3, <2>5 DEF Sound, AllFit, Fit
  <2> QED BY <1>1, <1>2, <2>2, <2>6
<1>4. CASE ~Check \/ result \notin {"odd", "unsupported"}
  <2>1. ~(MemoryRun \/ CombinedRun \/ Gather)
    BY Guards DEF Shape, Situated
  <2>2. UNCHANGED todo
    BY <1>4, <2>1, TodoStays DEF Check
  <2> QED BY <1>1, <1>2, <2>2
<1> QED BY <1>3, <1>4

\* The case of FindingsAreEarned.
Deserved(f) ==
    CASE f[1] = "fail" -> f[2] \in faulty \cup late
      [] f = <<"gap", "phase">> /\ phase = "cpu" -> Range(Stressors) \subseteq unwell
      [] OTHER -> f[2] \in unwell \/ (abort /\ f = <<"gap", "y-cruncher">>)

\* What was deserved stays so.
LEMMA DeservedStays ==
    ASSUME Shape, [Next]_vars, NEW f, Deserved(f)
    PROVE  Deserved(f)'
<1>1. Move /\ UNCHANGED phase
  BY Moves, PhaseStays
<1> QED BY <1>1, WorldGrows DEF Deserved

\* A check makes a gap only of a tool that was not well, or of an aborted y-cruncher.
LEMMA GapsAreDeserved ==
    ASSUME Shape, Timed, Sound, Answered, pc = "check", job \in Jobs, job \notin unwell,
           abort => job # "y-cruncher"
    PROVE  "gap" \notin Conclusions(job)
<1>1. clock \in Nat /\ Duration \in Nat /\ child[job].since \in Nat /\ child[job].asked \in Nat
  BY Numbers DEF Shape, Typed, Processes
<1>2. Busy /\ (result # "none" /\ job # "transient" => ~child[job].signalled)
  BY DEF Shape, Unsent, Busy, Soak
<1>3. Fit(job)
  BY DEF Sound, AllFit
<1>4. Exited(job) \/ job \in unwell
  BY <1>2, <1>3 DEF Shape, Typed, Processes, Attended, InHand, Fit, Running, Exited
<1> SUFFICES ASSUME "gap" \in Conclusions(job)
             PROVE  FALSE
  OBVIOUS
<1>5. CASE job = "mprime"
  <2>1. ~abort /\ ((result # "none" /\ clock + 1 < Duration) \/ ~child[job].complete)
    BY <1>5 DEF Conclusions, CheckMprime, If
  <2>2. child[job].complete
    BY <1>3, <1>4, <1>5 DEF Fit, Endless
  <2>3. ~child[job].signalled
    <3>1. result # "none"
      BY <2>1, <2>2
    <3> QED BY <1>2, <1>5, <3>1
  <2>4. InTime(job)
    BY <1>3, <1>4, <2>3 DEF Fit
  <2>5. child[job].since = 0 /\ child[job].asked = Duration
    <3>1. phase \notin {"cpu", "memory"}
      BY <1>2, <1>5, Names DEF Shape, Focused, Tools, Others
    <3> QED BY <1>4, <1>5, <3>1 DEF Timed, Begun, Exited
  <2> QED BY <1>1, <2>1, <2>2, <2>4, <2>5 DEF InTime
<1>6. CASE job = "transient"
  <2>1. Exited(job) /\ result = child[job].code
    BY <1>6 DEF Answered
  <2>2. result # "ok" \/ ~child[job].complete
    BY <1>6, Names DEF Conclusions, CheckStressNG, If
  <2> QED BY <1>3, <1>6, <2>1, <2>2 DEF Fit, Endless
<1>7. CASE job \notin {"mprime", "transient"}
  <2>1. result # "ok" \/ ~child[job].complete \/ ~InTime(job)
    BY <1>7 DEF Conclusions, CheckStressAppTest, CheckYCruncher, CheckStressNG, Short,
       CoverageGaps, If
  <2>2. Exited(job) /\ result = child[job].code
    BY <1>7 DEF Answered, Late, Timed, Overrun
  <2>3. ~child[job].signalled
    BY <1>2, <1>7, <2>2 DEF Shape, Coded
  <2> QED BY <1>3, <2>1, <2>2, <2>3 DEF Fit
<1> QED BY <1>5, <1>6, <1>7

\* A FAIL of a check follows a fault.
LEMMA FailsAreDeserved ==
    ASSUME Sound, Answered, pc = "check", job \in Jobs, "fail" \in Conclusions(job)
    PROVE  job \in faulty
<1>1. child[job].told \/ result = "fault"
  BY DEF Conclusions, CheckStressAppTest, CheckYCruncher, CheckMprime, CheckStressNG, If
<1>2. result = "fault" => child[job].code = "fault"
  BY DEF Answered
<1> QED BY <1>1, <1>2 DEF Sound, Blamed

\* A warning of a check follows an exit for want of support.
LEMMA WarningsAreDeserved ==
    ASSUME Sound, Answered, pc = "check", job \in Jobs, "warn" \in Conclusions(job)
    PROVE  job \in unwell
<1>1. result = "unsupported"
  BY DEF Conclusions, CheckStressAppTest, CheckYCruncher, CheckMprime, CheckStressNG, If
<1>2. Exited(job) /\ child[job].code = "unsupported"
  BY <1>1 DEF Answered
<1> QED BY <1>2 DEF Sound, AllFit, Fit

\* A load that has not ended well by the time it is looked at.
LEMMA LoadGapsAreDeserved ==
    ASSUME Shape, Timed, Sound, Collect, ~abort,
           child[job].code # "ok" \/ ~child[job].complete
    PROVE  job \in unwell
<1>1. /\ phase = "combined" /\ job \in Background(missing) /\ job \in Jobs /\ job \in Loads /\ job # NoJob
      /\ pc = "collect" /\ ~Busy /\ Woken
  BY Names DEF Shape, Focused, Collect, Background, Loads, NoJob, Busy
<1>2. child[job].run # "none" /\ ~child[job].signalled
  BY <1>1 DEF Shape, Launched, Unsent, Early
<1>3. child[job] \in Processes /\ clock \in Nat /\ Duration \in Nat /\ Slack \in Nat \ {0}
  BY <1>1, Numbers DEF Shape, Typed
<1>4. CASE Running(job)
  <2>1. clock >= Duration + Slack
    BY <1>1, <1>4 DEF Woken, Exited, Running, Timed, Deadlines
  <2>2. child[job].since = 0 /\ child[job].asked = Duration
    BY <1>1, <1>2 DEF Timed, Begun
  <2>3. job \notin Endless
    BY <1>1 DEF Loads, Endless
  <2> QED BY <1>1, <1>2, <1>3, <1>4, <2>1, <2>2, <2>3 DEF Timed, Overrun
<1>5. CASE ~Running(job)
  BY <1>1, <1>2, <1>3, <1>5 DEF Sound, AllFit, Fit, Running, Exited, Processes
<1> QED BY <1>4, <1>5

\* Each finding that is added is deserved.
LEMMA EarnedNext ==
    ASSUME Shape, Timed, Sound, Answered, Dropped, Earned, [Next]_vars
    PROVE  Earned'
<1>0. /\ Move /\ UNCHANGED <<phase, missing>> /\ unwell \subseteq unwell'
      /\ \A f \in findings : Deserved(f)'
  <2>1. Move /\ UNCHANGED <<phase, missing>> /\ unwell \subseteq unwell'
    BY Moves, PhaseStays, WorldGrows
  <2> QED BY <2>1, DeservedStays DEF Earned, FindingsAreEarned, Deserved
<1>a. "fail" # "gap" /\ "fail" # "warn" /\ "gap" # "warn" /\ "phase" \notin Jobs
  BY Names DEF Others, Loads
<1> SUFFICES ASSUME NEW f \in findings', f \notin findings
             PROVE  Deserved(f)'
  BY <1>0 DEF Earned, FindingsAreEarned, Deserved
<1>1. CASE CpuRun
  <2>1. f = <<"gap", "phase">> /\ Remaining > 0 /\ ~abort /\ phase = "cpu"
    BY <1>1 DEF CpuRun
  <2>2. todo = <<>>
    <3>1. Remaining # 0
      BY <2>1
    <3> QED BY <1>1, <2>1, <3>1 DEF CpuRun
  <2>3. Range(todo) = {}
    BY <2>2 DEF Range
  <2> QED BY <1>0, <2>1, <2>3 DEF Dropped, Deserved, Cpu
<1>2. CASE MemoryRun \/ YCruncherRun \/ MprimeRun \/ CombinedRun
  <2>1. f[1] # "fail" /\ f[2] = "phase" /\ missing /\ phase # "cpu"
    BY <1>2 DEF MemoryRun, YCruncherRun, MprimeRun, CombinedRun
  <2> QED BY <1>0, <2>1 DEF Earned, Deserved
<1>3. CASE IdleEnds \/ Raise \/ LoseResult
  <2>1. f[1] # "fail" /\ f[2] = "phase" /\ "phase" \in unwell' /\ phase # "cpu"
    BY <1>3, LoseDoes DEF IdleEnds, Raise, LoseResult
  <2> QED BY <1>0, <2>1 DEF Deserved
<1>4. CASE EndPulses
  <2>1. /\ f = <<"gap", job>> /\ Remaining > 0 /\ Exited(job) /\ pc = "pulse"
    BY <1>4 DEF EndPulses
  <2>2. Busy /\ job = "transient" /\ phase = "transient" /\ job \in Jobs
    BY <2>1, JobIsTool DEF Shape, Situated, Busy, Soak
  <2>3. ~child[job].signalled /\ child[job].since = 0 /\ child[job].asked = Duration
    BY <2>1, <2>2 DEF Shape, Unsent, Timed, Begun, Exited
  <2>4. ~InTime(job)
    BY <2>1, <2>3, Numbers DEF InTime, Remaining, Shape, Typed
  <2>5. job \in unwell
    BY <2>1, <2>2, <2>3, <2>4 DEF Sound, AllFit, Fit
  <2> QED BY <1>0, <1>a, <2>1, <2>2, <2>5 DEF Deserved
<1>5. CASE AfterStop
  <2>1. Stopped
    BY <1>5, AfterStopDoes
  <2>2. hung => job \in late
    <3>1. job \notin Loads /\ (job = "transient" => phase = "transient")
      BY <2>1, Names, Numbers DEF Shape, Typed, Stopped, Tools, Others
    <3> QED BY <2>1, <3>1 DEF Stopped, Timed, Outlived
  <2>3. job = "transient" => job \in unwell
    BY <2>1 DEF Stopped, Timed, Outlived
  <2>4. \/ f = <<"fail", job>> /\ hung
        \/ f = <<"warn", job>> /\ job = "transient"
    BY <1>5 DEF AfterStop
  <2>5. UNCHANGED <<faulty, late>> /\ job \in Jobs
    BY <2>1 DEF Stopped, world
  <2> QED BY <1>0, <1>a, <2>2, <2>3, <2>4, <2>5 DEF Deserved
<1>6. CASE Collect
  <2>1. f = <<"gap", job>> /\ job \in unwell
    BY <1>6, LoadGapsAreDeserved DEF Collect
  <2>2. job # "phase"
    BY <1>6, Names DEF Collect, Shape, Focused, Background
  <2> QED BY <1>0, <1>a, <2>1, <2>2 DEF Deserved
<1>7. CASE Check
  <2>1. Checked
    BY <1>7, CheckDoes
  <2>2. PICK severity \in Conclusions(job) : f = <<severity, job>>
    BY <1>7 DEF Check
  <2>3. job \in Jobs /\ job # "phase" /\ pc = "check"
    BY <1>a, <2>1 DEF Checked
  <2>4. severity \in Severities
    BY <2>2, ConclusionsAreSeverities
  <2>5. UNCHANGED <<abort, world>>
    BY <1>7 DEF Check
  <2>6. CASE severity = "fail"
    BY <2>2, <2>3, <2>5, <2>6, FailsAreDeserved DEF Deserved, world
  <2>7. CASE severity = "warn"
    BY <1>0, <1>a, <2>2, <2>3, <2>7, WarningsAreDeserved DEF Deserved
  <2>8. CASE severity = "gap"
    <3>1. job \in unwell \/ (abort /\ job = "y-cruncher")
      BY <2>2, <2>3, <2>8, GapsAreDeserved
    <3> QED BY <1>0, <1>a, <2>2, <2>3, <2>5, <2>8, <3>1 DEF Deserved
  <2> QED BY <2>4, <2>6, <2>7, <2>8 DEF Severities
<1>8. CASE ~(CpuRun \/ MemoryRun \/ YCruncherRun \/ MprimeRun \/ CombinedRun \/ IdleEnds \/ Raise)
           /\ ~(EndPulses \/ AfterStop \/ Collect \/ Check \/ LoseResult)
  BY <1>8, NotesStay
<1> QED BY <1>1, <1>2, <1>3, <1>4, <1>5, <1>6, <1>7, <1>8

-----------------------------------------------------------------------------
(* Silence is earned *)

\* A tool in the foreground stays there until it is reported or checked.
LEMMA ForegroundStays ==
    ASSUME Shape, Move, Busy, job \notin Loads, ~Stopped, ~Checked
    PROVE  Busy' /\ job' = job /\ child'[job].since = child[job].since
<1>a. child \in [Jobs -> Processes] /\ job \in Jobs /\ child[job] \in Processes
  BY JobIsTool DEF Shape, Typed
<1>b. /\ pc \in {"wait", "expired", "check", "grace", "stopped", "pulse", "interrupt"}
      /\ ~Soak
  BY DEF Busy
<1>c. pc' \in {"wait", "expired", "check", "grace", "stopped", "pulse", "interrupt"} /\ UNCHANGED phase
        => Busy' \/ pc' = "wait"
  BY DEF Busy, Soak
<1>1. CASE Flips \/ PulsesEnd \/ Interrupted
  BY <1>a, <1>b, <1>c, <1>1, Fields DEF Flips, PulsesEnd, Interrupted, Elsewhere, Becomes, Halts
<1>2. CASE Waited \/ Expired \/ GraceEnds
  BY <1>a, <1>b, <1>c, <1>2, Fields DEF Waited, Expired, GraceEnds, Elsewhere, Becomes, Halts
<1>3. CASE Tick \/ Abort \/ SelfTested \/ UNCHANGED vars
  BY <1>a, <1>3, Fields DEF Tick, Abort, SelfTested, Elsewhere, Becomes, main, vars, Busy, Soak
<1>4. ASSUME NEW j \in Jobs, Tells(j)
      PROVE  Busy' /\ job' = job /\ child'[job].since = child[job].since
  BY <1>a, <1>4, Fields DEF Tells, Elsewhere, Becomes, Busy, Soak
<1>5. ASSUME NEW j \in Jobs, NEW code \in AllCodes, NEW complete \in BOOLEAN,
             Exits(j, code, complete)
      PROVE  Busy' /\ job' = job /\ child'[job].since = child[job].since
  <2>1. child'[job].since = child[job].since
    BY <1>a, <1>5, Fields DEF Exits, Becomes
  <2> QED BY <1>a, <1>5, <2>1 DEF Exits, Elsewhere, Busy, Soak
<1>6. ~(Passes \/ PulsesBegin \/ Pause \/ IdleEnds \/ Gather \/ Collect \/ Leaves)
  BY <1>b DEF Passes, PulsesBegin, Pause, IdleEnds, Gather, Collect, Leaves, Soak
<1>7. /\ ~\E k \in Jobs, s \in Nat : Starts(k, s)
      /\ ~\E k \in Background(missing) : StartsLoad(k)
  BY <1>b DEF Starts, StartsLoad
<1> QED BY <1>1, <1>2, <1>3, <1>4, <1>5, <1>6, <1>7 DEF Move

\* Only a start brings one there.
LEMMA ForegroundWasBusy ==
    ASSUME Shape, Move, pc # "next", Busy', job' \notin Loads
    PROVE  Busy /\ job' = job
<1>1. CASE Flips \/ PulsesEnd \/ Interrupted \/ Waited \/ Expired \/ GraceEnds \/ Stopped \/ Checked
  BY <1>1 DEF Flips, PulsesEnd, Interrupted, Waited, Expired, GraceEnds, Stopped, Checked,
     Elsewhere, Halts
<1>2. CASE Tick \/ Abort \/ SelfTested \/ UNCHANGED vars
  BY <1>2 DEF Tick, Abort, SelfTested, Elsewhere, main, vars, Busy, Soak
<1>3. ASSUME NEW j \in Jobs, Tells(j)
      PROVE  Busy /\ job' = job
  BY <1>3 DEF Tells
<1>4. ASSUME NEW j \in Jobs, NEW code \in AllCodes, NEW complete \in BOOLEAN,
             Exits(j, code, complete)
      PROVE  Busy /\ job' = job
  BY <1>4 DEF Exits, Elsewhere, Busy, Soak
<1>5. ~(Passes \/ PulsesBegin \/ Pause \/ IdleEnds \/ Gather \/ Collect)
  BY DEF Passes, PulsesBegin, Pause, IdleEnds, Gather, Collect, Busy, Soak
<1>6. ~Leaves
  BY DEF Leaves, Halts, Busy
<1>7. /\ ~\E k \in Jobs, s \in Nat : Starts(k, s)
      /\ ~\E k \in Background(missing) : StartsLoad(k)
  <2>1. pc # "next"
    OBVIOUS
  <2> QED BY <2>1 DEF Starts, StartsLoad
<1> QED BY <1>1, <1>2, <1>3, <1>4, <1>5, <1>6, <1>7 DEF Move

\* The loads are listed again when the tool in the foreground starts.
LEMMA RelistedNext ==
    ASSUME Shape, Relisted, [Next]_vars
    PROVE  Relisted'
<1>0. Move /\ UNCHANGED <<phase, missing>>
  BY Moves, PhaseStays
<1> SUFFICES ASSUME phase = "combined", Busy', job' = "stressapptest"
             PROVE  todo' = Plan(phase, missing)
  BY <1>0 DEF Relisted
<1>1. CASE pc = "next"
  <2>1. CombinedRun \/ Raise \/ UNCHANGED <<pc, phase>>
    BY <1>1, Guards, PointStays DEF Next, Main
  <2>2. ~Raise /\ ~UNCHANGED <<pc, phase>>
    BY <1>1 DEF Raise, Busy
  <2> QED BY <1>1, <2>1, <2>2 DEF CombinedRun, Busy
<1>2. CASE pc # "next"
  <2>1. Busy /\ job' = job
    BY <1>0, <1>2, ForegroundWasBusy DEF Loads
  <2>2. ~(MemoryRun \/ CombinedRun \/ Gather)
    BY <1>2, <2>1, Guards DEF Busy
  <2>3. UNCHANGED todo
    BY <2>2, TodoStays DEF Check
  <2> QED BY <2>1, <2>3 DEF Relisted
<1> QED BY <1>1, <1>2

\* The transients that end early are a gap.
LEMMA CurtailedNext ==
    ASSUME Shape, Timed, Curtailed, [Next]_vars
    PROVE  Curtailed'
<1>0. /\ Move /\ UNCHANGED <<phase, missing>> /\ findings \subseteq findings' /\ (abort => abort')
      /\ child \in [Jobs -> Processes] /\ "transient" \in Jobs \ Loads
  BY Moves, PhaseStays, NotesGrow, WorldGrows, Names DEF Shape, Typed, Others, Loads
<1> SUFFICES ASSUME pc' = "check", job' = "transient", ~abort', ~child'["transient"].signalled
             PROVE  InTime("transient")' \/ <<"gap", "transient">> \in findings'
  BY DEF Curtailed
<1>1. CASE EndPulses
  <2>1. PulsesEnd
    BY <1>1, EndPulsesDoes
  <2>2. /\ Exited("transient") /\ UNCHANGED <<clock, child>>
        /\ Remaining > 0 => <<"gap", "transient">> \in findings'
    BY <1>0, <1>1, <2>1 DEF EndPulses, PulsesEnd, Elsewhere
  <2>3. child["transient"].since = 0 /\ child["transient"].asked = Duration
    BY <1>0, <2>1, <2>2 DEF PulsesEnd, Timed, Begun, Exited
  <2> QED BY <2>2, <2>3, Numbers DEF InTime, Remaining, Shape, Typed
<1>2. CASE pc = "check"
  <2>1. Busy /\ pc # "next"
    BY <1>2 DEF Busy, Soak
  <2>2. Busy'
    BY DEF Busy, Soak
  <2>3. job = "transient"
    BY <1>0, <2>1, <2>2, ForegroundWasBusy
  <2>4. ~Running("transient")
    BY <1>2, <2>3 DEF Shape, Attended, InHand
  <2>5. UNCHANGED <<clock, findings>> /\ child'["transient"] = child["transient"]
    <3>1. CASE Abort \/ UNCHANGED vars
      BY <3>1 DEF Abort, vars
    <3>2. ASSUME NEW j \in Jobs, NEW code \in AllCodes, NEW complete \in BOOLEAN,
                 Exits(j, code, complete)
          PROVE  UNCHANGED <<clock, findings>> /\ child'["transient"] = child["transient"]
      BY <1>0, <2>3, <2>4, <3>2 DEF Exits, Elsewhere, Becomes
    <3>3. ~\E j \in Jobs : Tells(j)
      BY <2>3, <2>4 DEF Tells
    <3>4. ~(SelfTested \/ Tick \/ Checked)
      BY <1>2, <2>3 DEF SelfTested, Tick, Checked, Resume, Waits
    <3>5. ~(Flips \/ PulsesEnd \/ Interrupted \/ Waited \/ Expired \/ GraceEnds \/ Stopped)
      BY <1>2 DEF Flips, PulsesEnd, Interrupted, Waited, Expired, GraceEnds, Stopped
    <3>6. ~(Passes \/ PulsesBegin \/ Pause \/ IdleEnds \/ Gather \/ Collect \/ Leaves)
      BY <1>2 DEF Passes, PulsesBegin, Pause, IdleEnds, Gather, Collect, Leaves
    <3>7. /\ ~\E k \in Jobs, s \in Nat : Starts(k, s)
          /\ ~\E k \in Background(missing) : StartsLoad(k)
      BY <1>2 DEF Starts, StartsLoad
    <3> QED BY <1>0, <3>1, <3>2, <3>3, <3>4, <3>5, <3>6, <3>7 DEF Move
  <2> QED BY <1>0, <1>2, <2>3, <2>5 DEF Curtailed, InTime
<1>3. CASE pc # "check" /\ ~EndPulses
  <2>1. InterruptReturns \/ WaitReturns \/ AfterStop
    <3>1. CASE CpuRun \/ MemoryRun \/ YCruncherRun \/ MprimeRun \/ TransientRun \/ CombinedRun \/ Raise
      BY <3>1 DEF CpuRun, MemoryRun, YCruncherRun, MprimeRun, TransientRun, CombinedRun, Raise,
         Foreground
    <3>2. CASE \/ Pulse \/ Pause \/ IdleEnds \/ Gather \/ Collect \/ Expire \/ EndGrace \/ Check
               \/ LoseResult \/ Leave
      BY <1>3, <3>2 DEF Pulse, Pause, IdleEnds, Gather, Collect, Expire, EndGrace, Check, LoseResult,
         Leave, BeginStop, Resume, main
    <3> QED BY <1>3, <3>1, <3>2, PointStays DEF Next, Main
  <2>2. CASE InterruptReturns
    BY <1>0, <2>2, InterruptReturnsDoes DEF Interrupted, Halts, Shape, Sent
  <2>3. CASE AfterStop
    BY <1>0, <2>3, AfterStopDoes DEF Stopped, Reviewed, Resume, Shape, Sent
  <2>4. ~WaitReturns
    <3>1. WaitReturns => pc = "wait" /\ job = "transient" /\ job \in Tools(phase, missing)
      BY WaitReturnsDoes DEF Waited
    <3>2. phase # "transient" => "transient" \notin Tools(phase, missing)
      BY Names, Numbers DEF Tools, Shape, Typed, Others
    <3> QED BY <3>1, <3>2 DEF Shape, Situated
  <2> QED BY <2>1, <2>2, <2>3, <2>4
<1> QED BY <1>1, <1>2, <1>3

\* A tool of which nothing but a warning is to be said has been verified, or the machine
\* does not support it.
LEMMA CleanIsCredited ==
    ASSUME Shape, Timed, Sound, Answered, Certified, Curtailed,
           pc = "check", ~abort, job \in Tools(phase, missing), ~Unfinished,
           "fail" \notin Conclusions(job), "gap" \notin Conclusions(job)
    PROVE  \/ job \in verified
           \/ "warn" \in Conclusions(job) /\ clock = child[job].since
<1>a. /\ Busy /\ job \in Jobs /\ job \notin Loads
      /\ clock \in Nat /\ Duration \in Nat
  <2>1. Busy
    BY DEF Busy, Soak
  <2>2. job \notin Loads
    BY Names, Numbers DEF Tools, Shape, Typed, Others, Loads
  <2> QED BY <2>1, <2>2, JobIsTool, Numbers DEF Shape, Typed
<1>b. job # "mprime" /\ Exited(job) /\ child[job].code = "ok" /\ child[job].complete
        /\ ~child[job].told /\ (InTime(job) \/ child[job].signalled) => job \in verified
  BY <1>a DEF Certified
<1>1. CASE job = "mprime"
  <2>1. ~child[job].told /\ child[job].complete /\ (result # "none" => clock + 1 >= Duration)
    BY <1>a, <1>1 DEF Conclusions, CheckMprime, If
  <2>2. ~(clock + 1 < Duration)
    <3>1. Exited(job) => child[job].code # "none"
      BY <1>a DEF Shape, Coded
    <3>2. result # "none" \/ clock >= Duration
      BY <1>1, <3>1 DEF Answered, Late
    <3> QED BY <1>a, <2>1, <3>2
  <2> QED BY <1>1, <2>1, <2>2 DEF Certified
<1>2. CASE job = "y-cruncher"
  <2>1. ~child[job].told /\ result = "ok" /\ child[job].complete /\ InTime(job)
    BY <1>2 DEF Conclusions, CheckYCruncher, CoverageGaps, If
  <2>2. Exited(job) /\ child[job].code = "ok"
    BY <2>1 DEF Answered
  <2> QED BY <1>b, <1>2, <2>1, <2>2
<1>3. CASE job = "stressapptest"
  <2>1. ~child[job].told /\ result = "ok" /\ child[job].complete /\ InTime(job)
    BY <1>3 DEF Conclusions, CheckStressAppTest, Short, If
  <2>2. Exited(job) /\ child[job].code = "ok"
    BY <2>1 DEF Answered
  <2> QED BY <1>b, <1>3, <2>1, <2>2
<1>4. CASE job \notin {"mprime", "y-cruncher", "stressapptest"}
  <2>1. Conclusions(job) = CheckStressNG(job)
    BY <1>4 DEF Conclusions
  <2>2. ~(result = "fault" \/ child[job].told)
    BY <2>1 DEF CheckStressNG, If
  <2>3. CASE result = "unsupported"
    <3>1. "warn" \in Conclusions(job)
      BY <2>1, <2>2, <2>3 DEF CheckStressNG, If
    <3>2. Exited(job) /\ child[job].code = "unsupported"
      BY <2>3 DEF Answered
    <3> QED BY <1>a, <3>1, <3>2 DEF Certified
  <2>4. CASE result # "unsupported"
    <3>1. result = "ok" /\ child[job].complete
      BY <2>1, <2>2, <2>4 DEF CheckStressNG, If
    <3>2. Exited(job) /\ child[job].code = "ok"
      BY <3>1 DEF Answered
    <3>3. InTime(job) \/ child[job].signalled
      <4>1. CASE job # "transient"
        BY <2>1, <3>1, <4>1 DEF CheckStressNG, Short, If
      <4>2. CASE job = "transient"
        BY <4>2 DEF Curtailed, Unfinished
      <4> QED BY <4>1, <4>2
    <3> QED BY <1>b, <1>4, <2>2, <3>1, <3>2, <3>3
  <2> QED BY <2>3, <2>4
<1> QED BY <1>1, <1>2, <1>3, <1>4

\* So the check of one that reports neither failure nor gap credits it.
LEMMA CheckCredits ==
    ASSUME Shape, Timed, Sound, Answered, Certified, Curtailed, Check,
           ~abort, ~Unfinished'
    PROVE  (job \in verified \/ clock = child[job].since) /\ Credited(job)'
<1>1. Checked /\ findings' = findings \cup {<<severity, job>> : severity \in Conclusions(job)}
  BY CheckDoes DEF Check
<1>2. ~Unfinished
  BY <1>1 DEF Unfinished
<1>3. "fail" \notin Conclusions(job) /\ "gap" \notin Conclusions(job)
  <2>1. ASSUME NEW s \in {"fail", "gap"}
        PROVE  s \notin Conclusions(job)
    <3>1. <<s, job>> \notin findings'
      BY DEF Unfinished
    <3> QED BY <1>1, <3>1
  <2> QED BY <2>1
<1>4. \/ job \in verified
      \/ "warn" \in Conclusions(job) /\ clock = child[job].since
  BY <1>1, <1>2, <1>3, CleanIsCredited DEF Checked
<1> QED BY <1>1, <1>4 DEF Credited, Checked, world

\* A tool that was stopped is a failure, or the test aborted.
LEMMA StopIsReported ==
    ASSUME Shape, Timed, Stopped, job \notin Reviewed, ~abort
    PROVE  Unfinished'
<1>1. hung
  BY DEF Stopped, Timed, Outlived, Reviewed
<1>2. <<"fail", job>> \in findings'
  BY <1>1 DEF Stopped
<1> QED BY <1>2 DEF Unfinished

\* A verified tool stays so, except for Prime95 that ends too early.
LEMMA CreditStays ==
    ASSUME Shape, Move, findings \subseteq findings', NEW j, Credited(j), j # "mprime" \/ ~Busy
    PROVE  Credited(j)'
<1>1. \A k \in Jobs, code \in AllCodes, complete \in BOOLEAN :
         Exits(k, code, complete) => verified \ {"mprime"} \subseteq verified' /\ (~Busy => verified \subseteq verified')
  BY Names DEF Exits, Others, Loads
<1>2. verified \ {"mprime"} \subseteq verified' /\ (~Busy => verified \subseteq verified')
  BY <1>1 DEF Move, Passes, Starts, StartsLoad, PulsesBegin, Flips, PulsesEnd, Interrupted, Pause,
     IdleEnds, Gather, Collect, Waited, Expired, GraceEnds, Stopped, Checked, Leaves, Tick, Abort,
     SelfTested, Tells, vars, world
<1> QED BY <1>2 DEF Credited

\* Only the check leaves the check without a gap.
LEMMA OnlyCheckChecks ==
    ASSUME [Next]_vars, Checked, ~Unfinished'
    PROVE  Check
<1>1. pc = "check" /\ pc' # pc
  BY DEF Checked, Resume
<1>2. LoseResult => <<"gap", "phase">> \in findings'
  BY DEF LoseResult
<1> QED BY <1>1, <1>2, Guards, PointStays DEF Next, Main, Unfinished

\* The rotation has verified a stressor, or is still in its first one.
LEMMA CpuSettledNext ==
    ASSUME Shape, Timed, Sound, Answered, Certified, Curtailed, Settled, [Next]_vars,
           phase = "cpu", ~abort, ~abort', ~Unfinished'
    PROVE  Settled'
<1>0. Move /\ UNCHANGED <<phase, missing>> /\ child \in [Jobs -> Processes]
  BY Moves, PhaseStays DEF Shape, Typed
<1>1. ASSUME NEW j \in Cpu, j \in verified
      PROVE  Settled'
  <2>1. j # "mprime" /\ (\A k \in Cpu : k \in Jobs)
    BY Names DEF Others
  <2>2. j \in verified'
    BY <1>0, <1>1, <2>1 DEF Move, Passes, Starts, StartsLoad, PulsesBegin, Flips, PulsesEnd,
       Interrupted, Pause, IdleEnds, Gather, Collect, Waited, Expired, GraceEnds, Stopped,
       Checked, Leaves, Tick, Abort, SelfTested, Tells, Exits, vars, world
  <2> QED BY <1>0, <2>2 DEF Settled
<1>2. CASE pc = "next" /\ clock = 0
  <2>1. CASE CpuRun
    <3>1. Passes \/ \E j \in Cpu, s \in Nat : s > 0 /\ Starts(j, s)
      BY <2>1, CpuRuns
    <3>2. ASSUME NEW j \in Cpu, NEW s \in Nat, Starts(j, s)
          PROVE  Settled'
      <4>1. child'[j].since = 0 /\ job' = j /\ pc' = "wait"
        BY <1>2, <3>2, FreshFields DEF Starts, Becomes
      <4> QED BY <1>0, <4>1 DEF Settled, Busy, Soak
    <3>3. ~Passes
      <4>1. Remaining > 0
        BY <1>2, Numbers DEF Remaining
      <4>2. ASSUME pc' = "leave"
            PROVE  FALSE
        <5>1. <<"gap", "phase">> \in findings'
          BY <2>1, <4>1, <4>2 DEF CpuRun, Foreground
        <5> QED BY <5>1 DEF Unfinished
      <4> QED BY <2>1, <4>2 DEF CpuRun, Foreground, Passes
    <3> QED BY <3>1, <3>2, <3>3
  <2>2. CASE ~CpuRun
    <3>1. UNCHANGED <<pc, clock>>
      <4>1. Abort \/ Environment \/ Tick \/ UNCHANGED vars
        BY <1>2, <2>2, Guards DEF Next, Main, Raise
      <4>2. ~Tick
        BY <1>2 DEF Tick, Waits
      <4>3. UNCHANGED pc
        BY <4>1, <4>2, PointStays DEF Environment
      <4>4. UNCHANGED clock
        <5>1. ASSUME NEW j \in Jobs, Tell(j)
              PROVE  UNCHANGED clock
          BY <5>1 DEF Tell
        <5>2. ASSUME NEW j \in Jobs, NEW code \in Codes(j),
                     NEW complete \in BOOLEAN, Exit(j, code, complete)
              PROVE  UNCHANGED clock
          BY <5>2 DEF Exit
        <5>3. PassSelfTest \/ Abort => UNCHANGED clock
          BY DEF PassSelfTest, Abort
        <5>4. Environment => UNCHANGED clock
          BY <5>1, <5>2, <5>3 DEF Environment
        <5> QED BY <4>1, <4>2, <5>3, <5>4 DEF vars
      <4> QED BY <4>3, <4>4
    <3> QED BY <1>0, <1>2, <3>1 DEF Settled
  <2> QED BY <2>1, <2>2
<1>3. CASE Busy /\ child[job].since = 0
  <2>0. job \in Cpu /\ job \notin Loads \cup Reviewed /\ pc # "next"
    BY <1>3, JobIsTool, Names DEF Reviewed, Others, Busy
  <2>1. CASE Check
    <3>1. job \in verified' \/ (pc' = "next" /\ clock' = 0)
      <4>1. job \in verified \/ clock = 0
        BY <1>3, <2>1, CheckCredits
      <4> QED BY <2>1, <4>1 DEF Check, Resume, world
    <3> QED BY <1>0, <2>0, <3>1 DEF Settled
  <2>2. ~Stopped
    BY <2>0, StopIsReported
  <2>3. CASE ~Check
    <3>1. ~Checked
      BY <2>3, OnlyCheckChecks
    <3> QED BY <1>0, <1>3, <2>0, <2>2, <3>1, ForegroundStays DEF Settled
  <2> QED BY <2>1, <2>3
<1> QED BY <1>1, <1>2, <1>3 DEF Settled

\* A phase of one tool.
LEMMA OneToolSettledNext ==
    ASSUME Shape, Timed, Sound, Answered, Certified, Curtailed, Settled, [Next]_vars,
           phase \in {"mprime", "ycruncher", "transient", "idle"}, ~abort, ~abort', ~Unfinished'
    PROVE  Settled'
<1>0. Move /\ UNCHANGED <<phase, missing>> /\ findings \subseteq findings' /\ missing \in BOOLEAN
  BY Moves, PhaseStays, NotesGrow DEF Shape, Typed
<1>1. CASE pc' \notin {"leave", "over"}
  BY <1>0, <1>1 DEF Settled, Behind
<1>2. CASE pc \in {"leave", "over"}
  <2>1. ~Busy
    BY <1>2 DEF Busy
  <2>2. \A j \in Range(Plan(phase, missing)) : Credited(j)
    BY <1>2 DEF Settled, Behind
  <2>3. \A j \in Range(Plan(phase, missing)) : Credited(j)'
    BY <1>0, <2>1, <2>2, CreditStays
  <2> QED BY <1>0, <2>3 DEF Settled, Behind
<1>3. CASE pc \notin {"leave", "over"} /\ pc' \in {"leave", "over"}
  <2>1. CASE pc = "next"
    <3>1. YCruncherRun \/ Raise
      BY <1>3, <2>1, Guards, PointStays DEF Next, Main, MprimeRun, TransientRun, Foreground
    <3>2. <<"gap", "phase">> \in findings'
      BY <1>3, <3>1 DEF YCruncherRun, Foreground, Raise
    <3> QED BY <3>2 DEF Unfinished
  <2>2. CASE Soak
    <3>1. Range(Plan(phase, missing)) = {}
      BY <1>0, <2>2, PlanRanges DEF Soak
    <3> QED BY <1>0, <3>1 DEF Settled, Behind
  <2>3. CASE Busy
    <3>1. job \notin Loads
      BY <2>3 DEF Shape, Focused, Tools, Loads
    <3>2. Check \/ Stopped
      BY <1>0, <1>3, <2>3, <3>1, ForegroundStays, OnlyCheckChecks DEF Busy
    <3>3. ~Stopped
      <4>1. job \in Reviewed => ~Stopped
        BY <1>3 DEF Stopped
      <4> QED BY <4>1, StopIsReported
    <3>4. Credited(job)' /\ Checked
      BY <3>2, <3>3, CheckCredits, CheckDoes
    <3>5. Range(Plan(phase, missing)) = Tools(phase, missing) /\ \A j, k \in Tools(phase, missing) : j = k
      BY <1>0, PlanRanges DEF Tools
    <3> QED BY <1>0, <3>4, <3>5 DEF Settled, Behind, Checked
  <2>4. pc = "next" \/ Soak \/ Busy
    <3>1. pc # "start"
      BY <1>3, Guards, PointStays DEF Next, Main, Pause
    <3> QED BY <1>3, <3>1 DEF Shape, Situated, Busy, Waits, Points
  <2> QED BY <2>1, <2>2, <2>3, <2>4
<1> QED BY <1>1, <1>2, <1>3

\* The two tools of the memory phase.
LEMMA MemorySettledNext ==
    ASSUME Shape, Timed, Sound, Answered, Certified, Curtailed, Settled, [Next]_vars,
           phase = "memory", ~abort, ~abort', ~Unfinished'
    PROVE  Settled'
<1>0. /\ Move /\ UNCHANGED <<phase, missing>> /\ findings \subseteq findings' /\ Shape'
      /\ \A j \in Behind : Credited(j)' /\ j \in {"stressapptest", "vm"}
  <2>1. Move /\ UNCHANGED <<phase, missing>> /\ findings \subseteq findings' /\ Shape'
    BY Moves, PhaseStays, NotesGrow, ShapeNext
  <2>2. \A j \in Behind : Credited(j) /\ j \in {"stressapptest", "vm"}
    BY DEF Settled, Behind
  <2> QED BY <2>1, <2>2, CreditStays
<1>1. ASSUME Behind' \subseteq Behind
      PROVE  Settled'
  BY <1>0, <1>1 DEF Settled
<1>2. CASE pc = "next"
  <2>1. CASE MemoryRun
    <3>1. CASE Len(todo) = 2 /\ todo' = Tail(todo) /\ missing
      <4>1. <<"gap", "phase">> \in findings'
        BY <2>1, <3>1 DEF MemoryRun, Foreground
      <4> QED BY <4>1 DEF Unfinished
    <3>2. CASE Len(todo) = 2 /\ todo' = Tail(todo) /\ Foreground("stressapptest", SatShare)
      <4>1. todo' = <<"vm">>
        <5>1. todo \in {<<"stressapptest", "vm">>, <<"vm">>, <<>>}
          BY DEF Shape, Listed
        <5>2. Len(<<"vm">>) # 2 /\ Len(<<>>) # 2 /\ Tail(<<"stressapptest", "vm">>) = <<"vm">>
          OBVIOUS
        <5> QED BY <3>2, <5>1, <5>2
      <4>2. Behind' = {}
        BY <1>0, <3>2, <4>1 DEF Behind, Foreground, Busy, Soak, Range
      <4> QED BY <1>1, <4>2
    <3>3. CASE Len(todo) = 1 /\ todo' = <<>> /\ Foreground("vm", Remaining)
      <4>1. todo = <<"vm">>
        BY <3>3 DEF Shape, Listed
      <4>2. Behind' \subseteq {"stressapptest"} /\ Behind = {"stressapptest"}
        BY <1>0, <1>2, <3>3, <4>1 DEF Behind, Foreground, Busy, Soak, Range
      <4> QED BY <1>1, <4>2
    <3>4. CASE todo = <<>> /\ pc' = "leave"
      <4>1. Behind' \subseteq {"stressapptest", "vm"} /\ Behind = {"stressapptest", "vm"}
        BY <1>0, <1>2, <3>4 DEF Behind, Busy, Range
      <4> QED BY <1>1, <4>1
    <3> QED BY <2>1, <3>1, <3>2, <3>3, <3>4 DEF MemoryRun
  <2>2. CASE Raise
    <3>1. <<"gap", "phase">> \in findings'
      BY <2>2 DEF Raise
    <3> QED BY <3>1 DEF Unfinished
  <2>3. CASE ~MemoryRun /\ ~Raise
    <3>1. UNCHANGED <<phase, pc, todo, job>>
      BY <1>2, <2>3, Guards, PointStays DEF Next, Main
    <3>2. Behind' = Behind
      BY <3>1 DEF Behind, Busy, Soak
    <3> QED BY <1>1, <3>2
  <2> QED BY <2>1, <2>2, <2>3
<1>3. CASE pc # "next"
  <2>1. UNCHANGED todo
    <3>1. pc # "gather"
      BY DEF Shape, Situated
    <3> QED BY <1>3, <3>1, Guards, TodoStays DEF Check
  <2>2. CASE Busy'
    <3>1. job' \notin Loads
      BY <1>0, <2>2 DEF Shape, Focused, Tools, Loads
    <3>2. Busy /\ job' = job
      BY <1>0, <1>3, <2>2, <3>1, ForegroundWasBusy
    <3>3. Behind' = Behind
      BY <1>0, <2>1, <2>2, <3>2 DEF Behind, Busy
    <3> QED BY <1>1, <3>3
  <2>3. CASE ~Busy' /\ Busy
    <3>1. job \notin Loads \cup Reviewed
      BY <2>3 DEF Shape, Focused, Tools, Loads, Reviewed
    <3>2. ~Stopped
      BY <3>1, StopIsReported
    <3>3. Check
      BY <1>0, <2>3, <3>1, <3>2, ForegroundStays, OnlyCheckChecks
    <3>4. Credited(job)' /\ Checked
      BY <3>3, CheckCredits, CheckDoes
    <3>5. Behind' \subseteq Behind \cup {job}
      BY <1>0, <2>1, <2>3, <3>4 DEF Behind, Checked, Resume, Busy
    <3>6. Credited(job)' <=> job \in verified' \/ <<"warn", job>> \in findings'
      BY <3>4 DEF Checked, Credited
    <3> QED BY <1>0, <3>4, <3>5, <3>6 DEF Settled, Credited
  <2>4. CASE ~Busy' /\ ~Busy
    <3>1. pc \in {"leave", "over"}
      BY <1>3, <2>4 DEF Shape, Situated, Busy, Soak
    <3>2. Behind' \subseteq Behind
      BY <1>0, <3>1 DEF Behind
    <3> QED BY <1>1, <3>2
  <2> QED BY <2>2, <2>3, <2>4
<1> QED BY <1>2, <1>3

\* The tool of the combined phase and then its loads.
LEMMA CombinedSettledNext ==
    ASSUME Shape, Timed, Sound, Answered, Certified, Curtailed, Relisted, Settled, [Next]_vars,
           phase = "combined", ~abort, ~abort', ~Unfinished'
    PROVE  Settled'
<1>0. /\ Move /\ UNCHANGED <<phase, missing>> /\ findings \subseteq findings' /\ missing \in BOOLEAN
      /\ \A j \in Behind : Credited(j)'
  <2>1. Move /\ UNCHANGED <<phase, missing>> /\ findings \subseteq findings' /\ missing \in BOOLEAN
    BY Moves, PhaseStays, NotesGrow DEF Shape, Typed
  <2>2. Range(Plan(phase, missing)) \subseteq {"disk", "iperf3"}
    BY <2>1, PlanRanges DEF Background
  <2>3. \A j \in Behind : Credited(j) /\ j \in {"stressapptest", "disk", "iperf3"}
    BY <2>2 DEF Settled, Behind
  <2> QED BY <2>1, <2>3, CreditStays
<1>1. ASSUME Behind' \subseteq Behind
      PROVE  Settled'
  BY <1>0, <1>1 DEF Settled
<1>2. CASE pc' \in {"start", "next"} \/ (Busy' /\ job' = "stressapptest")
  BY <1>0, <1>2 DEF Settled, Behind
<1>3. CASE pc \in {"start", "next"} /\ ~(pc' \in {"start", "next"} \/ (Busy' /\ job' = "stressapptest"))
  <2>1. Raise
    <3>1. Pause \/ CombinedRun \/ Raise
      BY <1>3, Guards, PointStays DEF Next, Main
    <3>2. ~Pause
      BY <1>3 DEF Pause
    <3>3. ~CombinedRun
      BY <1>0, <1>3 DEF CombinedRun, Foreground, Busy, Soak
    <3> QED BY <3>1, <3>2, <3>3
  <2>2. <<"gap", "phase">> \in findings'
    BY <2>1 DEF Raise
  <2> QED BY <2>2 DEF Unfinished
<1>4. CASE Busy /\ job = "stressapptest" /\ ~(Busy' /\ job' = "stressapptest")
  <2>1. job \notin Loads \cup Reviewed
    BY <1>4 DEF Loads, Reviewed
  <2>2. ~Stopped
    BY <2>1, StopIsReported
  <2>3. Check
    BY <1>0, <1>4, <2>1, <2>2, ForegroundStays, OnlyCheckChecks
  <2>4. Credited("stressapptest")'
    BY <1>4, <2>3, CheckCredits DEF Check, Credited
  <2>5. pc' = "gather" /\ todo' = Plan(phase, missing)
    BY <1>4, <2>3 DEF Check, Resume, Relisted
  <2> QED BY <1>0, <2>4, <2>5 DEF Settled, Behind, Held
<1>5. CASE pc \notin {"start", "next"} /\ ~(Busy /\ job = "stressapptest")
           /\ ~(Busy' /\ job' = "stressapptest") /\ pc' \notin {"start", "next"}
  <2>1. Behind = {"stressapptest"} \cup (Range(Plan(phase, missing)) \ Held)
    BY <1>5 DEF Behind
  <2>2. Behind' = {"stressapptest"} \cup (Range(Plan(phase, missing)) \ Held')
    BY <1>0, <1>5 DEF Behind
  <2>3. CASE Gather
    <3>1. Held \subseteq Held'
      <4>1. todo \in {<<>>, <<"disk", "iperf3">>, <<"iperf3">>, <<"disk">>}
        BY DEF Shape, Listed
      <4>2. /\ Head(<<"disk", "iperf3">>) = "disk" /\ Tail(<<"disk", "iperf3">>) = <<"iperf3">>
            /\ Head(<<"iperf3">>) = "iperf3" /\ Tail(<<"iperf3">>) = <<>>
            /\ Head(<<"disk">>) = "disk" /\ Tail(<<"disk">>) = <<>>
        OBVIOUS
      <4>3. Range(<<>>) = {} /\ Range(<<"disk", "iperf3">>) = {"disk", "iperf3"}
            /\ Range(<<"iperf3">>) = {"iperf3"} /\ Range(<<"disk">>) = {"disk"}
        BY DEF Range
      <4> QED BY <2>3, <4>1, <4>2, <4>3 DEF Gather, Held
    <3> QED BY <1>1, <2>1, <2>2, <3>1
  <2>4. CASE Collect
    <3>1. ~(child[job].code # "ok" \/ ~child[job].complete)
      <4>1. <<"gap", job>> \notin findings'
        BY DEF Unfinished
      <4> QED BY <2>4, <4>1 DEF Collect
    <3>2. job \in verified
      BY <2>4, <3>1 DEF Certified, Collect, Shape, Focused, Background, Loads
    <3>3. Credited(job)'
      BY <2>4, <3>2 DEF Collect, Credited, world
    <3>4. Held \subseteq Held' \cup {job}
      BY <2>4 DEF Collect, Held
    <3> QED BY <1>0, <2>1, <2>2, <2>4, <3>3, <3>4 DEF Settled, Credited, Collect
  <2>5. CASE ~Gather /\ ~Collect
    <3>1. UNCHANGED todo
      BY <1>5, <2>5, Guards, TodoStays DEF Check
    <3>2. pc = "collect" => UNCHANGED <<pc, job>>
      BY <2>5, Guards, PointStays DEF Next, Main
    <3>3. pc = "gather" => UNCHANGED pc
      BY <2>5, Guards, PointStays DEF Next, Main
    <3>4. Held \subseteq Held'
      BY <3>1, <3>2, <3>3 DEF Held
    <3> QED BY <1>1, <2>1, <2>2, <3>4
  <2> QED BY <2>3, <2>4, <2>5
<1> QED BY <1>2, <1>3, <1>4, <1>5

\* The silence of a phase is earned at every step.
LEMMA SilentNext ==
    ASSUME Shape, Timed, Sound, Answered, Certified, Curtailed, Relisted, Silent, [Next]_vars
    PROVE  Silent'
<1> SUFFICES ASSUME ~abort', ~Unfinished'
             PROVE  Settled'
  BY DEF Silent
<1>1. ~abort /\ ~Unfinished
  BY Moves, WorldGrows, NotesGrow DEF Unfinished
<1>2. Settled
  BY <1>1 DEF Silent
<1>3. phase \in {"cpu", "memory", "mprime", "ycruncher", "transient", "idle", "combined"}
  BY Numbers DEF Shape, Typed
<1> QED BY <1>1, <1>2, <1>3, CpuSettledNext, MemorySettledNext, OneToolSettledNext,
           CombinedSettledNext

-----------------------------------------------------------------------------
(* The theorems *)

\* The inductive invariant.
LEMMA WInit ==
    ASSUME Init
    PROVE  WInv
<1>a. /\ Shape /\ ~Busy /\ clock = 0 /\ abort = FALSE /\ pc \in {"start", "next"} /\ job = NoJob
      /\ hung = FALSE /\ findings = {} /\ verified = {} /\ faulty = {} /\ late = {}
      /\ todo = Plan(phase, missing)
      /\ unwell = IF missing THEN {"phase"} ELSE {}
      /\ \A j \in Jobs : child[j] = NoChild
  BY ShapeInit DEF Init, Busy
<1>b. "mprime" \in Jobs /\ \A j \in Loads : j \in Jobs
  BY Names DEF Others
<1>c. phase \in {"cpu", "memory", "mprime", "ycruncher", "transient", "idle", "combined"} /\ missing \in BOOLEAN
  BY <1>a, Numbers DEF Shape, Typed
<1>1. Timed
  BY <1>a, <1>c, NoChildFields DEF Timed, Begun, Overrun, Deadlines, Outlived, Running, Init
<1>2. Sound
  BY <1>a, NoChildFields DEF Sound, AllFit, Fit, Blamed, Exited
<1>3. Answered /\ Curtailed /\ Relisted
  BY <1>a DEF Answered, Curtailed, Relisted
<1>4. Certified
  BY <1>a, <1>b, NoChildFields DEF Certified
<1>5. Dropped /\ Earned /\ Faults
  BY <1>a, <1>c, PlanRanges DEF Dropped, Earned, FindingsAreEarned, Faults
<1>6. Settled
  <2>1. phase = "cpu" => pc = "next"
    BY DEF Init
  <2>2. phase # "cpu" => Behind = {}
    BY <1>a, <1>c, PlanRanges DEF Behind
  <2> QED BY <1>a, <2>1, <2>2 DEF Settled
<1> QED BY <1>a, <1>1, <1>2, <1>3, <1>4, <1>5, <1>6 DEF WInv, Silent

LEMMA WNext ==
    ASSUME WInv, [Next]_vars
    PROVE  WInv'
<1>0. /\ Move /\ Shape /\ Timed /\ Sound /\ Answered /\ Certified /\ Dropped /\ Earned /\ Faults
      /\ Silent /\ Curtailed /\ Relisted
  BY Moves DEF WInv
<1>1. Shape'
  BY <1>0, ShapeNext
<1>2. Timed'
  BY <1>0, BegunNext, OverrunNext, DeadlinesNext, OutlivedNext DEF Timed
<1>3. Sound'
  BY <1>0, AllFitNext, BlamedNext DEF Sound
<1>4. Answered' /\ Certified'
  BY <1>0, AnsweredNext, CertifiedNext DEF Timed, Sound
<1>5. Dropped' /\ Earned' /\ Faults'
  BY <1>0, DroppedNext, EarnedNext, FaultsNext
<1>6. Silent' /\ Curtailed' /\ Relisted'
  BY <1>0, SilentNext, CurtailedNext, RelistedNext
<1> QED BY <1>1, <1>2, <1>3, <1>4, <1>5, <1>6 DEF WInv

LEMMA WInvariant == Spec => []WInv
<1>1. Init => WInv
  BY WInit
<1>2. WInv /\ [Next]_vars => WInv'
  BY WNext
<1> QED BY <1>1, <1>2, PTL DEF Spec

\* What a finding says of a tool is so: no failure comes of the program's own signals or of an
\* abort, and a healthy tool gets neither warning nor gap (the checks of phases.py and ycruncher.py).
THEOREM FindingsEarned == Spec => []FindingsAreEarned
<1>1. WInv => FindingsAreEarned
  BY DEF WInv, Earned
<1> QED BY <1>1, WInvariant, PTL

\* A wrong result that a tool printed, or that its exit code tells of, is a FAIL when the phase
\* ends of itself, and an abort does not lose what Prime95 or the load of the transients had
\* found; of y-cruncher's, the exit code after its time is lost, and an OSError before
\* check_result leaves a gap instead.
THEOREM FaultsReported == Spec => []FaultsAreReported
<1>1. WInv => FaultsAreReported
  BY DEF WInv, Faults, Reported, Pending, Busy, FaultsAreReported
<1> QED BY <1>1, WInvariant, PTL

\* A phase that was not aborted and reports neither a failure nor a gap has had its tools run to
\* the end with their results verified, or has warned that the machine does not support them.
THEOREM SilenceEarned == Spec => []SilentPhaseRan
<1>1. WInv => SilentPhaseRan
  <2> SUFFICES ASSUME WInv, pc = "over", ~abort, ~Unfinished
               PROVE  CASE phase = "cpu"      -> \E j \in Range(Stressors) : j \in verified
                        [] phase = "combined" ->
                             \A j \in Range(Plan(phase, missing)) \cup {"stressapptest"} : Credited(j)
                        [] OTHER              -> \A j \in Range(Plan(phase, missing)) : Credited(j)
    BY DEF SilentPhaseRan
  <2>1. Settled /\ ~Busy /\ missing \in BOOLEAN
    BY DEF WInv, Silent, Busy, Shape, Typed
  <2>2. CASE phase = "cpu"
    BY <2>1, <2>2 DEF Settled, Cpu
  <2>3. CASE phase = "combined"
    BY <2>1, <2>3 DEF Settled, Behind, Held
  <2>4. CASE phase = "memory"
    BY <2>1, <2>4, PlanRanges DEF Settled, Behind
  <2>5. CASE phase \notin {"cpu", "memory", "combined"}
    BY <2>1, <2>5 DEF Settled, Behind
  <2> QED BY <2>2, <2>3, <2>4, <2>5
<1> QED BY <1>1, WInvariant, PTL

=============================================================================
