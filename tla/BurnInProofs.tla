---------------------------- MODULE BurnInProofs ----------------------------
(***************************************************************************)
(* For every plan, every number of cycles and every bound on the           *)
(* environment, the variables of BurnIn keep their types.  This is more    *)
(* than the shape of the records: the main thread must never index the     *)
(* plan beyond its end, nor return from the disk procedures to nowhere,    *)
(* whatever interrupts it, so `Placed' goes into the invariant.            *)
(*                                                                         *)
(* And a machine is accepted only if every phase of its plan ran, for any  *)
(* number of resets, deaths, findings and failing saves.                   *)
(*                                                                         *)
(* The second half is about what an interruption may do to a session: when *)
(* reboots are announced and that the stick knows it, that no phase runs   *)
(* twice, that the resets are counted, and that a PASS hides none of them. *)
(***************************************************************************)
EXTENDS BurnIn, TLAPS

\* The main thread is inside the plan where it works on a phase, and the disk
\* procedures know where to return.
Placed ==
    /\ pc \in {"begin", "phase", "settle", "raised", "reboot"} => i <= Len(Plan)
    /\ pc = "start_disks" => ret \in {"loop", "settle"}
    /\ pc \in {"stop_disks", "disks_finished"} => ret \in {"begin", "samples"}
    /\ pc \notin {"start_disks", "stop_disks", "disks_finished"} => ret = ""
    /\ ret \in {"settle", "begin"} => i <= Len(Plan)

-----------------------------------------------------------------------------
(* Types of the session record *)

LEMMA PlanFacts ==
    /\ Len(Plan) \in Nat
    /\ DOMAIN Plan = 1..Len(Plan)
    /\ \A k \in 1..Len(Plan) : Plan[k] \in Phases
    /\ "inventory" \in Phases
    /\ NoPhase \notin Phases
    /\ "final" \notin Phases
  <1>1. Len(Plan) \in Nat /\ DOMAIN Plan = 1..Len(Plan)
    BY PlanAssumption
  <1>2. \A k \in 1..Len(Plan) : Plan[k] \in Phases
    BY <1>1 DEF Phases
  <1>3. 1 \in 1..Len(Plan)
    BY <1>1, PlanAssumption
  <1>4. "inventory" \in Phases
    BY <1>2, <1>3, PlanAssumption
  <1>5. NoPhase \notin Phases /\ "final" \notin Phases
    BY PlanAssumption, Zenon DEF Phases
  <1> QED
    BY <1>1, <1>2, <1>4, <1>5

LEMMA FreshType == Fresh \in State
  BY DEF Fresh, State, PhaseStatus

LEMMA NoSessionType == NoSession \in State
  BY DEF NoSession, Fresh, State, PhaseStatus

LEMMA ResumedType ==
    ASSUME NEW st \in State
    PROVE  Resumed(st) \in State
  <1> DEFINE c == IF ResumeReason(st) = "planned"
                  THEN st.planned_reboot ELSE st.reboot_cycles_done
             u == IF ResumeReason(st) = "unexpected"
                  THEN st.unexpected_reboots + 1 ELSE st.unexpected_reboots
  <1>1. c \in Nat /\ u \in Nat
    BY DEF State
  <1>2. Resumed(st) = [st EXCEPT !.planned_reboot = 0, !.this_boot = TRUE,
                                 !.reboot_cycles_done = c,
                                 !.unexpected_reboots = u]
    BY DEF Resumed
  <1> HIDE DEF c, u
  <1> DEFINE s1 == [st EXCEPT !.planned_reboot = 0]
             s2 == [s1 EXCEPT !.this_boot = TRUE]
             s3 == [s2 EXCEPT !.reboot_cycles_done = c]
             s4 == [s3 EXCEPT !.unexpected_reboots = u]
  <1>3. s1 \in State
    BY DEF State
  <1>4. s2 \in State
    <2> HIDE DEF s1
    <2> QED BY <1>3 DEF State
  <1>5. s3 \in State
    <2> HIDE DEF s2
    <2> QED BY <1>1, <1>4 DEF State
  <1>6. s4 \in State
    <2> HIDE DEF s3
    <2> QED BY <1>1, <1>5 DEF State
  <1>7. Resumed(st) = s4
    BY <1>2
  <1> QED
    BY <1>6, <1>7

LEMMA ReasonType ==
    ASSUME NEW st
    PROVE  ResumeReason(st) \in {"restart", "planned", "unexpected"}
  BY DEF ResumeReason

LEMMA SetPhaseType ==
    ASSUME NEW st \in State, NEW p, NEW x \in PhaseStatus
    PROVE  SetPhase(st, p, x) \in State
  BY DEF SetPhase, State

LEMMA RunningPhaseType ==
    ASSUME NEW st
    PROVE  RunningPhase(st) \in Phases \cup {NoPhase}
  BY DEF RunningPhase

LEMMA ResultType ==
    ASSUME NEW p, NEW a, NEW fs
    PROVE  PhaseResult(p, a, fs) \in PhaseStatus
  BY DEF PhaseResult, PhaseStatus

LEMMA VerdictType ==
    ASSUME NEW fs, NEW inc
    PROVE  VerdictOf(fs, inc) \in Verdicts
  BY DEF VerdictOf, Verdicts

LEMMA FindingType ==
    ASSUME NEW p \in FindingPhases
    PROVE  Fault(p) \in Finding /\ Warning(p) \in Finding /\ Gap(p) \in Finding
  BY DEF Fault, Warning, Gap, Finding

LEMMA SaveType ==
    ASSUME disk \in State, left \in Left, NEW st \in State, Save(st)
    PROVE  mem' \in State /\ disk' \in State /\ left' \in Left
  BY DEF Save, Left

LEMMA LeftType ==
    ASSUME left \in Left
    PROVE  /\ left.resets > 0 => [left EXCEPT !.resets = @ - 1] \in Left
           /\ left.deaths > 0 => [left EXCEPT !.deaths = @ - 1] \in Left
           /\ left.events > 0 => [left EXCEPT !.events = @ - 1] \in Left
           /\ left.save_fails > 0 => [left EXCEPT !.save_fails = @ - 1] \in Left
  BY DEF Left

LEMMA LeftTwiceType ==
    ASSUME left \in Left, left.events > 0, left.save_fails > 0
    PROVE  [left EXCEPT !.events = @ - 1, !.save_fails = @ - 1] \in Left
  <1> DEFINE once == [left EXCEPT !.events = @ - 1]
  <1>1. once \in Left /\ once.save_fails > 0
    BY DEF Left
  <1>2. [left EXCEPT !.events = @ - 1, !.save_fails = @ - 1]
          = [once EXCEPT !.save_fails = @ - 1]
    BY DEF Left
  <1> HIDE DEF once
  <1>3. [once EXCEPT !.save_fails = @ - 1] \in Left
    BY <1>1 DEF Left
  <1> QED
    BY <1>2, <1>3

LEMMA PowerDownType ==
    ASSUME TypeOK, PowerDown
    PROVE  /\ mem' \in State /\ disk' \in State /\ findings' \subseteq Finding
           /\ report' \in Verdicts \cup {"none"} /\ pc' = "off" /\ i' = 1
           /\ ret' = "" /\ reason' = "new" /\ hit' = NoPhase /\ cur' = NoPhase
           /\ abort' = FALSE /\ aborted' = FALSE /\ reboot_request' = 0
           /\ disks_up' = FALSE
  <1>1. [disk EXCEPT !.this_boot = FALSE] \in State
    BY DEF TypeOK, RecordsOK, State
  <1> QED
    BY <1>1, NoSessionType DEF PowerDown, Forget, TypeOK, RecordsOK

LEMMA FieldTypes ==
    ASSUME NEW st \in State
    PROVE  /\ \A n \in Nat : [st EXCEPT !.planned_reboot = n] \in State
           /\ [st EXCEPT !.disk_tests_finished = TRUE] \in State
           /\ \A x \in {"none", "started", "done"} :
                [st EXCEPT !.disk_scan = x] \in State
           /\ \A x \in {"complete", "aborted"} : [st EXCEPT !.status = x] \in State
           /\ st.disk_scan \in {"none", "started", "done"}
  BY DEF State

LEMMA CycleType ==
    ASSUME NEW st \in State
    PROVE  st.reboot_cycles_done + 1 \in Nat \ {0}
  <1>1. st.reboot_cycles_done \in Nat
    BY DEF State
  <1> QED
    BY <1>1

LEMMA CountType ==
    ASSUME NEW f \in [Phases -> 0..2], NEW p \in Phases
    PROVE  [f EXCEPT ![p] = IF @ < 2 THEN @ + 1 ELSE @] \in [Phases -> 0..2]
  OBVIOUS

LEMMA PhaseNames ==
    ASSUME PlaceOK, i <= Len(Plan)
    PROVE  Name \in Phases /\ i + 1 \in 1..(Len(Plan) + 1)
  <1>1. Len(Plan) \in Nat /\ i \in 1..(Len(Plan) + 1)
    BY PlanFacts DEF PlaceOK
  <1>2. i \in 1..Len(Plan) /\ i + 1 \in 1..(Len(Plan) + 1)
    BY <1>1
  <1> QED
    BY <1>2, PlanFacts DEF Name

-----------------------------------------------------------------------------
(* Type correctness *)

LEMMA TypeInit == Init => TypeOK /\ Placed
  <1> SUFFICES ASSUME Init PROVE TypeOK /\ Placed
    OBVIOUS
  <1>1. 1 \in 1..(Len(Plan) + 1)
    BY PlanFacts
  <1>2. left \in Left
    BY BurnInAssumption DEF Init, Left
  <1>3. RecordsOK
    BY <1>2, NoSessionType DEF Init, RecordsOK
  <1>4. PlaceOK
    BY <1>1 DEF Init, PlaceOK, Points, FindingPhases
  <1>5. FlagsOK
    BY DEF Init, FlagsOK
  <1>6. HistoryOK
    <2>1. [p \in Phases |-> 0] \in [Phases -> 0..2]
      OBVIOUS
    <2> QED
      BY <2>1 DEF Init, HistoryOK
  <1>7. Placed
    BY DEF Init, Placed
  <1> QED
    BY <1>3, <1>4, <1>5, <1>6, <1>7 DEF TypeOK

LEMMA RecordsNext ==
    TypeOK /\ Placed /\ [Next]_vars => RecordsOK'
  <1> SUFFICES ASSUME TypeOK, Placed, [Next]_vars PROVE RecordsOK'
    OBVIOUS
  <1> USE DEF TypeOK, RecordsOK, stick, memory
  <1>1. CASE Reset
    BY <1>1, PowerDownType, LeftType DEF Reset
  <1>2. CASE Boot
    BY <1>2 DEF Boot
  <1>3. CASE Die
    BY <1>3, NoSessionType, LeftType DEF Die, Forget
  <1>4. CASE ServiceRestart
    BY <1>4 DEF ServiceRestart
  <1>5. CASE HardwareFinding
    <2>1. cur \in FindingPhases /\ \A f \in findings : f.phase \in FindingPhases
      BY DEF PlaceOK, Finding
    <2>2. findings' \subseteq Finding
      BY <1>5, <2>1, FindingType DEF HardwareFinding
    <2> QED
      BY <1>5, <2>2, LeftType DEF HardwareFinding
  <1>6. CASE RequestAbort
    BY <1>6, SaveType DEF RequestAbort
  <1>7. CASE CriticalTemperature
    <2>1. cur \in FindingPhases
      BY DEF PlaceOK
    <2>2. findings' \subseteq Finding
      BY <1>7, <2>1, FindingType DEF CriticalTemperature
    <2>3. left' \in Left
      BY <1>7, LeftType, LeftTwiceType DEF CriticalTemperature
    <2> QED
      BY <1>7, <2>2, <2>3 DEF CriticalTemperature
  <1>8. CASE Heartbeat
    BY <1>8 DEF Heartbeat
  <1>9. CASE ScanCompletes
    BY <1>9, FieldTypes DEF ScanCompletes
  <1>10. CASE OpenNew
    BY <1>10, FreshType, NoSessionType, LeftType DEF OpenNew
  <1>11. CASE OpenRunning
    BY <1>11, SaveType, ResumedType DEF OpenRunning
  <1>12. CASE RecordFinding
    BY <1>12, FindingType
       DEF RecordFinding, IncidentFindings, PlaceOK, FindingPhases
  <1>13. CASE RecordPhase
    BY <1>13, SaveType, SetPhaseType DEF RecordPhase, HitStatus, PhaseStatus
  <1>14. CASE RecordSave
    BY <1>14, SaveType DEF RecordSave
  <1>15. CASE ResumeDisks
    BY <1>15 DEF ResumeDisks
  <1>16. CASE StartDisks
    BY <1>16, SaveType, FieldTypes DEF StartDisks
  <1>17. CASE PassOver
    BY <1>17 DEF PassOver
  <1>18. CASE LeaveLoop
    BY <1>18 DEF LeaveLoop
  <1>19. CASE SkipPhase
    BY <1>19, SaveType, SetPhaseType DEF SkipPhase, PhaseStatus
  <1>20. CASE EnterPhase
    BY <1>20 DEF EnterPhase
  <1>21. CASE BeginPhase
    BY <1>21, SaveType, SetPhaseType DEF BeginPhase, PhaseStatus
  <1>22. CASE InventoryCollected
    BY <1>22 DEF InventoryCollected
  <1>23. CASE PhaseCompletes
    BY <1>23, FindingType, PhaseNames DEF PhaseCompletes, Placed, FindingPhases
  <1>24. CASE PhaseCutShort
    BY <1>24, FindingType, PhaseNames DEF PhaseCutShort, Placed, FindingPhases
  <1>25. CASE PhaseAborted
    BY <1>25 DEF PhaseAborted
  <1>26. CASE PhaseRaises
    BY <1>26, FindingType, PhaseNames DEF PhaseRaises, Placed, FindingPhases
  <1>27. CASE RecordError
    BY <1>27, SaveType, SetPhaseType DEF RecordError, PhaseStatus
  <1>28. CASE SkipCycles
    BY <1>28, FindingType, PhaseNames DEF SkipCycles, Placed, FindingPhases
  <1>29. CASE CyclesDone
    BY <1>29 DEF CyclesDone
  <1>30. CASE RequestReboot
    <2>1. mem.reboot_cycles_done + 1 \in Nat
      BY CycleType
    <2> QED
      BY <1>30, <2>1, SaveType, FieldTypes DEF RequestReboot
  <1>31. CASE PostponePhase
    BY <1>31, SaveType, SetPhaseType DEF PostponePhase, PhaseStatus
  <1>32. CASE SettlePhase
    BY <1>32, SaveType, SetPhaseType, ResultType DEF SettlePhase
  <1>33. CASE PrepareReboot
    BY <1>33, SaveType DEF PrepareReboot
  <1>34. CASE Reboot
    BY <1>34, PowerDownType DEF Reboot
  <1>35. CASE StopDisks
    BY <1>35, FindingType DEF StopDisks, PlaceOK
  <1>36. CASE DisksFinished
    BY <1>36, SaveType, FieldTypes DEF DisksFinished
  <1>37. CASE Finalize
    BY <1>37 DEF Finalize
  <1>38. CASE FinalSamples
    BY <1>38 DEF FinalSamples
  <1>39. CASE Finish
    BY <1>39, SaveType, FieldTypes DEF Finish
  <1>40. CASE WriteReports
    BY <1>40, VerdictType DEF WriteReports
  <1>41. CASE AppendIndex
    BY <1>41 DEF AppendIndex
  <1>42. CASE ServeResult
    BY <1>42 DEF ServeResult, vars
  <1>43. CASE UNCHANGED vars
    BY <1>43 DEF vars
  <1> QED
    BY <1>1, <1>2, <1>3, <1>4, <1>5, <1>6, <1>7, <1>8, <1>9, <1>10, <1>11,
       <1>12, <1>13, <1>14, <1>15, <1>16, <1>17, <1>18, <1>19, <1>20, <1>21,
       <1>22, <1>23, <1>24, <1>25, <1>26, <1>27, <1>28, <1>29, <1>30, <1>31,
       <1>32, <1>33, <1>34, <1>35, <1>36, <1>37, <1>38, <1>39, <1>40, <1>41,
       <1>42, <1>43
       DEF Next, MainThread, Environment
LEMMA PlaceNext ==
    TypeOK /\ Placed /\ [Next]_vars => (PlaceOK /\ Placed)'
  <1> SUFFICES ASSUME TypeOK, Placed, [Next]_vars PROVE (PlaceOK /\ Placed)'
    OBVIOUS
  <1>n. Len(Plan) \in Nat /\ 1 \in 1..(Len(Plan) + 1)
    BY PlanFacts
  <1> USE DEF TypeOK, PlaceOK, Placed, stick, memory
  <1>1. CASE Reset
    BY <1>1, <1>n DEF Reset, PowerDown, Forget, Points, FindingPhases
  <1>2. CASE Boot
    BY <1>2, <1>n DEF Boot, Points
  <1>3. CASE Die
    BY <1>3, <1>n DEF Die, Forget, Points, FindingPhases
  <1>4. CASE ServiceRestart
    BY <1>4, <1>n DEF ServiceRestart, Points
  <1>5. CASE HardwareFinding
    BY <1>5, <1>n DEF HardwareFinding
  <1>6. CASE RequestAbort
    BY <1>6, <1>n DEF RequestAbort
  <1>7. CASE CriticalTemperature
    BY <1>7, <1>n DEF CriticalTemperature
  <1>8. CASE Heartbeat
    BY <1>8, <1>n DEF Heartbeat
  <1>9. CASE ScanCompletes
    BY <1>9, <1>n DEF ScanCompletes
  <1>10. CASE OpenNew
    BY <1>10, <1>n DEF OpenNew, Points, Alive, Watching
  <1>11. CASE OpenRunning
    BY <1>11, <1>n, ReasonType, RunningPhaseType
       DEF OpenRunning, Points, Alive, Watching
  <1>12. CASE RecordFinding
    BY <1>12, <1>n DEF RecordFinding, Points, Alive, Watching
  <1>13. CASE RecordPhase
    BY <1>13, <1>n DEF RecordPhase, Points, Alive, Watching
  <1>14. CASE RecordSave
    BY <1>14, <1>n DEF RecordSave, Points, Alive, Watching
  <1>15. CASE ResumeDisks
    BY <1>15, <1>n DEF ResumeDisks, Points, Alive, Watching
  <1>16. CASE StartDisks
    BY <1>16, <1>n DEF StartDisks, Points, Alive, Watching
  <1>17. CASE PassOver
    <2>1. i + 1 \in 1..(Len(Plan) + 1)
      BY <1>17, PhaseNames DEF PassOver
    <2> QED
      BY <1>17, <1>n, <2>1 DEF PassOver
  <1>18. CASE LeaveLoop
    BY <1>18, <1>n DEF LeaveLoop, Points, Alive, Watching
  <1>19. CASE SkipPhase
    <2>1. i + 1 \in 1..(Len(Plan) + 1)
      BY <1>19, PhaseNames DEF SkipPhase
    <2> QED
      BY <1>19, <1>n, <2>1 DEF SkipPhase
  <1>20. CASE EnterPhase
    BY <1>20, <1>n, PhaseNames
       DEF EnterPhase, Points, Alive, Watching, FindingPhases
  <1>21. CASE BeginPhase
    BY <1>21, <1>n DEF BeginPhase, Points, Alive, Watching
  <1>22. CASE InventoryCollected
    BY <1>22, <1>n DEF InventoryCollected, Points, Alive, Watching
  <1>23. CASE PhaseCompletes
    BY <1>23, <1>n DEF PhaseCompletes, Points, Alive, Watching
  <1>24. CASE PhaseCutShort
    BY <1>24, <1>n DEF PhaseCutShort, Points, Alive, Watching
  <1>25. CASE PhaseAborted
    BY <1>25, <1>n DEF PhaseAborted, Points, Alive, Watching
  <1>26. CASE PhaseRaises
    BY <1>26, <1>n DEF PhaseRaises, Points, Alive, Watching
  <1>27. CASE RecordError
    <2>1. i + 1 \in 1..(Len(Plan) + 1)
      BY <1>27, PhaseNames DEF RecordError
    <2> QED
      BY <1>27, <1>n, <2>1 DEF RecordError, Points, Alive, Watching
  <1>28. CASE SkipCycles
    BY <1>28, <1>n DEF SkipCycles, Points, Alive, Watching
  <1>29. CASE CyclesDone
    BY <1>29, <1>n DEF CyclesDone, Points, Alive, Watching
  <1>30. CASE RequestReboot
    <2>1. mem.reboot_cycles_done + 1 \in Nat
      BY CycleType DEF RecordsOK
    <2> QED
      BY <1>30, <1>n, <2>1 DEF RequestReboot, Points, Alive, Watching
  <1>31. CASE PostponePhase
    BY <1>31, <1>n DEF PostponePhase, Points, Alive, Watching
  <1>32. CASE SettlePhase
    <2>1. i + 1 \in 1..(Len(Plan) + 1)
      BY <1>32, PhaseNames DEF SettlePhase
    <2> QED
      BY <1>32, <1>n, <2>1 DEF SettlePhase, Points, Alive, Watching
  <1>33. CASE PrepareReboot
    BY <1>33, <1>n DEF PrepareReboot, Points, Alive, Watching
  <1>34. CASE Reboot
    BY <1>34, <1>n DEF Reboot, PowerDown, Forget, Points, FindingPhases
  <1>35. CASE StopDisks
    BY <1>35, <1>n DEF StopDisks, Points, Alive, Watching
  <1>36. CASE DisksFinished
    BY <1>36, <1>n DEF DisksFinished, Points, Alive, Watching
  <1>37. CASE Finalize
    BY <1>37, <1>n DEF Finalize, Points, Alive, Watching, FindingPhases
  <1>38. CASE FinalSamples
    BY <1>38, <1>n DEF FinalSamples, Points, Alive, Watching
  <1>39. CASE Finish
    BY <1>39, <1>n DEF Finish, Points, Alive, Watching
  <1>40. CASE WriteReports
    BY <1>40, <1>n DEF WriteReports, Points, Alive, Watching
  <1>41. CASE AppendIndex
    BY <1>41, <1>n DEF AppendIndex, Points
  <1>42. CASE ServeResult
    BY <1>42, <1>n DEF ServeResult, vars
  <1>43. CASE UNCHANGED vars
    BY <1>43 DEF vars
  <1> QED
    BY <1>1, <1>2, <1>3, <1>4, <1>5, <1>6, <1>7, <1>8, <1>9, <1>10, <1>11,
       <1>12, <1>13, <1>14, <1>15, <1>16, <1>17, <1>18, <1>19, <1>20, <1>21,
       <1>22, <1>23, <1>24, <1>25, <1>26, <1>27, <1>28, <1>29, <1>30, <1>31,
       <1>32, <1>33, <1>34, <1>35, <1>36, <1>37, <1>38, <1>39, <1>40, <1>41,
       <1>42, <1>43
       DEF Next, MainThread, Environment

LEMMA HistoryNext ==
    TypeOK /\ Placed /\ [Next]_vars => HistoryOK'
  <1> SUFFICES ASSUME TypeOK, Placed, [Next]_vars PROVE HistoryOK'
    OBVIOUS
  <1> USE DEF TypeOK, HistoryOK, stick, memory, history
  <1>1. CASE Reset
    BY <1>1 DEF Reset, PowerDown
  <1>2. CASE Boot
    BY <1>2 DEF Boot
  <1>3. CASE Die
    BY <1>3 DEF Die
  <1>4. CASE ServiceRestart
    BY <1>4 DEF ServiceRestart
  <1>5. CASE HardwareFinding
    BY <1>5 DEF HardwareFinding
  <1>6. CASE RequestAbort
    BY <1>6 DEF RequestAbort
  <1>7. CASE CriticalTemperature
    BY <1>7 DEF CriticalTemperature
  <1>8. CASE Heartbeat
    BY <1>8 DEF Heartbeat
  <1>9. CASE ScanCompletes
    BY <1>9 DEF ScanCompletes
  <1>10. CASE OpenNew
    BY <1>10 DEF OpenNew
  <1>11. CASE OpenRunning
    BY <1>11 DEF OpenRunning
  <1>12. CASE RecordFinding
    BY <1>12 DEF RecordFinding
  <1>13. CASE RecordPhase
    BY <1>13 DEF RecordPhase
  <1>14. CASE RecordSave
    BY <1>14 DEF RecordSave
  <1>15. CASE ResumeDisks
    BY <1>15 DEF ResumeDisks
  <1>16. CASE StartDisks
    BY <1>16, PhaseNames DEF StartDisks, Placed
  <1>17. CASE PassOver
    BY <1>17 DEF PassOver
  <1>18. CASE LeaveLoop
    BY <1>18 DEF LeaveLoop
  <1>19. CASE SkipPhase
    BY <1>19 DEF SkipPhase
  <1>20. CASE EnterPhase
    BY <1>20 DEF EnterPhase
  <1>21. CASE BeginPhase
    <2>1. Name \in Phases
      BY <1>21, PhaseNames DEF BeginPhase, Placed
    <2> QED
      BY <1>21, <2>1, CountType DEF BeginPhase
  <1>22. CASE InventoryCollected
    BY <1>22 DEF InventoryCollected
  <1>23. CASE PhaseCompletes
    BY <1>23, PhaseNames DEF PhaseCompletes, Placed
  <1>24. CASE PhaseCutShort
    BY <1>24 DEF PhaseCutShort
  <1>25. CASE PhaseAborted
    BY <1>25 DEF PhaseAborted
  <1>26. CASE PhaseRaises
    BY <1>26 DEF PhaseRaises
  <1>27. CASE RecordError
    BY <1>27 DEF RecordError
  <1>28. CASE SkipCycles
    BY <1>28 DEF SkipCycles
  <1>29. CASE CyclesDone
    BY <1>29, PhaseNames DEF CyclesDone, Placed
  <1>30. CASE RequestReboot
    BY <1>30 DEF RequestReboot
  <1>31. CASE PostponePhase
    BY <1>31 DEF PostponePhase
  <1>32. CASE SettlePhase
    BY <1>32 DEF SettlePhase
  <1>33. CASE PrepareReboot
    BY <1>33 DEF PrepareReboot
  <1>34. CASE Reboot
    BY <1>34 DEF Reboot, PowerDown
  <1>35. CASE StopDisks
    BY <1>35 DEF StopDisks
  <1>36. CASE DisksFinished
    BY <1>36 DEF DisksFinished
  <1>37. CASE Finalize
    BY <1>37 DEF Finalize
  <1>38. CASE FinalSamples
    BY <1>38 DEF FinalSamples
  <1>39. CASE Finish
    BY <1>39 DEF Finish
  <1>40. CASE WriteReports
    BY <1>40 DEF WriteReports
  <1>41. CASE AppendIndex
    BY <1>41 DEF AppendIndex
  <1>42. CASE ServeResult
    BY <1>42 DEF ServeResult, vars
  <1>43. CASE UNCHANGED vars
    BY <1>43 DEF vars
  <1> QED
    BY <1>1, <1>2, <1>3, <1>4, <1>5, <1>6, <1>7, <1>8, <1>9, <1>10, <1>11,
       <1>12, <1>13, <1>14, <1>15, <1>16, <1>17, <1>18, <1>19, <1>20, <1>21,
       <1>22, <1>23, <1>24, <1>25, <1>26, <1>27, <1>28, <1>29, <1>30, <1>31,
       <1>32, <1>33, <1>34, <1>35, <1>36, <1>37, <1>38, <1>39, <1>40, <1>41,
       <1>42, <1>43
       DEF Next, MainThread, Environment

LEMMA FlagsNext == FlagsOK /\ [Next]_vars => FlagsOK'
  <1> SUFFICES ASSUME FlagsOK, [Next]_vars PROVE FlagsOK'
    OBVIOUS
  <1> USE DEF FlagsOK, stick, memory, history
  <1>1. CASE Reset
    BY <1>1 DEF Reset, PowerDown, Forget
  <1>2. CASE Boot
    BY <1>2 DEF Boot
  <1>3. CASE Die
    BY <1>3 DEF Die, Forget
  <1>4. CASE ServiceRestart
    BY <1>4 DEF ServiceRestart
  <1>5. CASE HardwareFinding
    BY <1>5 DEF HardwareFinding
  <1>6. CASE RequestAbort
    BY <1>6 DEF RequestAbort
  <1>7. CASE CriticalTemperature
    BY <1>7 DEF CriticalTemperature
  <1>8. CASE Heartbeat
    BY <1>8 DEF Heartbeat
  <1>9. CASE ScanCompletes
    BY <1>9 DEF ScanCompletes
  <1>10. CASE OpenNew
    BY <1>10 DEF OpenNew
  <1>11. CASE OpenRunning
    BY <1>11 DEF OpenRunning
  <1>12. CASE RecordFinding
    BY <1>12 DEF RecordFinding
  <1>13. CASE RecordPhase
    BY <1>13 DEF RecordPhase
  <1>14. CASE RecordSave
    BY <1>14 DEF RecordSave
  <1>15. CASE ResumeDisks
    BY <1>15 DEF ResumeDisks
  <1>16. CASE StartDisks
    BY <1>16 DEF StartDisks
  <1>17. CASE PassOver
    BY <1>17 DEF PassOver
  <1>18. CASE LeaveLoop
    BY <1>18 DEF LeaveLoop
  <1>19. CASE SkipPhase
    BY <1>19 DEF SkipPhase
  <1>20. CASE EnterPhase
    BY <1>20 DEF EnterPhase
  <1>21. CASE BeginPhase
    BY <1>21 DEF BeginPhase
  <1>22. CASE InventoryCollected
    BY <1>22 DEF InventoryCollected
  <1>23. CASE PhaseCompletes
    BY <1>23 DEF PhaseCompletes
  <1>24. CASE PhaseCutShort
    BY <1>24 DEF PhaseCutShort
  <1>25. CASE PhaseAborted
    BY <1>25 DEF PhaseAborted
  <1>26. CASE PhaseRaises
    BY <1>26 DEF PhaseRaises
  <1>27. CASE RecordError
    BY <1>27 DEF RecordError
  <1>28. CASE SkipCycles
    BY <1>28 DEF SkipCycles
  <1>29. CASE CyclesDone
    BY <1>29 DEF CyclesDone
  <1>30. CASE RequestReboot
    BY <1>30 DEF RequestReboot
  <1>31. CASE PostponePhase
    BY <1>31 DEF PostponePhase
  <1>32. CASE SettlePhase
    BY <1>32 DEF SettlePhase
  <1>33. CASE PrepareReboot
    BY <1>33 DEF PrepareReboot
  <1>34. CASE Reboot
    BY <1>34 DEF Reboot, PowerDown, Forget
  <1>35. CASE StopDisks
    BY <1>35 DEF StopDisks
  <1>36. CASE DisksFinished
    BY <1>36 DEF DisksFinished
  <1>37. CASE Finalize
    BY <1>37 DEF Finalize
  <1>38. CASE FinalSamples
    BY <1>38 DEF FinalSamples
  <1>39. CASE Finish
    BY <1>39 DEF Finish
  <1>40. CASE WriteReports
    BY <1>40 DEF WriteReports
  <1>41. CASE AppendIndex
    BY <1>41 DEF AppendIndex
  <1>42. CASE ServeResult
    BY <1>42 DEF ServeResult, vars
  <1>43. CASE UNCHANGED vars
    BY <1>43 DEF vars
  <1> QED
    BY <1>1, <1>2, <1>3, <1>4, <1>5, <1>6, <1>7, <1>8, <1>9, <1>10, <1>11,
       <1>12, <1>13, <1>14, <1>15, <1>16, <1>17, <1>18, <1>19, <1>20, <1>21,
       <1>22, <1>23, <1>24, <1>25, <1>26, <1>27, <1>28, <1>29, <1>30, <1>31,
       <1>32, <1>33, <1>34, <1>35, <1>36, <1>37, <1>38, <1>39, <1>40, <1>41,
       <1>42, <1>43
       DEF Next, MainThread, Environment

LEMMA TypeNext == TypeOK /\ Placed /\ [Next]_vars => TypeOK' /\ Placed'
  BY RecordsNext, PlaceNext, HistoryNext, FlagsNext DEF TypeOK

\* Every variable keeps its type, for every plan and all bounds: Session.state
\* stays well formed through saves, resumes and resets, and run_phases never
\* leaves the plan.
THEOREM TypeCorrect == Spec => []TypeOK
  <1>1. Spec => [](TypeOK /\ Placed)
    BY TypeInit, TypeNext, PTL DEF Spec
  <1> QED
    BY <1>1, PTL

-----------------------------------------------------------------------------
(* Acceptance *)

\* A session is complete on the stick only from Finish on, and then it is what
\* the program holds; an accepted session stays complete and is left alone.
Closed ==
    /\ pc \in Alive \ {"report", "index"} =>
           mem.status = "running" /\ disk.status \in {"none", "running"}
    /\ pc \in {"report", "index"} /\ disk.status = "complete" => disk = mem
    /\ Accepted => /\ pc \in {"index", "done", "off", "dead", "start"}
                   /\ disk.status = "complete"

\* What backs the status of a phase in a record: it ran, or the session is
\* not persistent (which is a gap of its own), or a fault was recorded.
Backed(p, status) ==
    /\ status \in {"done", "warn"} => p \in ran \/ ~persistent
    /\ status = "failed" => \E f \in findings : f.severity = "FAIL"

\* A phase that returned ran, or left a reason for its status not to be good.
Settled ==
    pc = "settle" /\ reboot_request = 0 =>
        \/ Name \in ran \/ ~persistent \/ abort
        \/ \E f \in findings :
               f.phase = Name /\ (f.incomplete \/ f.severity = "FAIL")

Marked ==
    ~persistent /\ pc \in (Alive \ {"record_finding"}) \cup {"done"} =>
        \E f \in findings : f.incomplete

Backing ==
    /\ \A p \in Phases : Backed(p, disk.phases[p]) /\ Backed(p, mem.phases[p])
    /\ Settled
    /\ Marked

AInv == TypeOK /\ Placed /\ Closed /\ Backing /\ AcceptanceIsEarned

-----------------------------------------------------------------------------
(* What the steps do to the session records *)

LEMMA SavePhaseEffect ==
    ASSUME mem \in State, NEW p \in Phases, NEW x, Save(SetPhase(mem, p, x))
    PROVE  /\ mem'.status = mem.status
           /\ \A q \in Phases : mem'.phases[q] = IF q = p THEN x ELSE mem.phases[q]
           /\ disk' = mem' \/ disk' = disk
  BY DEF SetPhase, State, Save

\* Phase x is settled in these steps; the others leave phases alone.
PhaseSaved(p, x) ==
    /\ p \in Phases
    /\ mem'.status = mem.status
    /\ \A q \in Phases : mem'.phases[q] = IF q = p THEN x ELSE mem.phases[q]
    /\ disk' = mem' \/ disk' = disk

LEMMA PhaseSaves ==
    ASSUME TypeOK, Placed
    PROVE  /\ SkipPhase => PhaseSaved(Name, "skipped")
           /\ BeginPhase => PhaseSaved(Name, "running")
           /\ RecordError => PhaseSaved(Name, "error")
           /\ PostponePhase => PhaseSaved(Name, "pending")
           /\ SettlePhase => PhaseSaved(Name, PhaseResult(Name, abort, findings))
  <1>1. mem \in State
    BY DEF TypeOK, RecordsOK
  <1>2. SkipPhase \/ BeginPhase \/ RecordError \/ PostponePhase \/ SettlePhase
        => Name \in Phases
    <2>1. Placed /\ PostponePhase => i <= Len(Plan)
      BY DEF Placed, PostponePhase
    <2> QED
      BY <2>1, PhaseNames
         DEF TypeOK, Placed, SkipPhase, BeginPhase, RecordError,
             SettlePhase
  <1>3. SkipPhase => PhaseSaved(Name, "skipped")
    BY <1>1, <1>2, SavePhaseEffect DEF SkipPhase, PhaseSaved
  <1>4. BeginPhase => PhaseSaved(Name, "running")
    BY <1>1, <1>2, SavePhaseEffect DEF BeginPhase, PhaseSaved
  <1>5. RecordError => PhaseSaved(Name, "error")
    BY <1>1, <1>2, SavePhaseEffect DEF RecordError, PhaseSaved
  <1>6. PostponePhase => PhaseSaved(Name, "pending")
    BY <1>1, <1>2, SavePhaseEffect DEF PostponePhase, PhaseSaved
  <1>7. SettlePhase => PhaseSaved(Name, PhaseResult(Name, abort, findings))
    BY <1>1, <1>2, SavePhaseEffect DEF SettlePhase, PhaseSaved
  <1> QED
    BY <1>3, <1>4, <1>5, <1>6, <1>7

LEMMA RecordPhaseSaves ==
    ASSUME TypeOK, RecordPhase
    PROVE  (mem' = mem /\ disk' = disk) \/ PhaseSaved(hit, HitStatus)
  <1>1. mem \in State /\ hit \in Phases \cup {NoPhase}
    BY DEF TypeOK, RecordsOK, PlaceOK
  <1> QED
    BY <1>1, SavePhaseEffect DEF RecordPhase, PhaseSaved

FieldSaved ==
    /\ mem'.status = mem.status
    /\ mem'.phases = mem.phases
    /\ disk' = mem' \/ disk' = disk

LEMMA FieldSaves ==
    ASSUME TypeOK, \/ RequestAbort \/ RecordSave \/ PrepareReboot
                   \/ StartDisks \/ RequestReboot \/ DisksFinished
    PROVE  FieldSaved
  <1>1. mem \in State
    BY DEF TypeOK, RecordsOK
  <1>2. CASE RequestAbort \/ RecordSave \/ PrepareReboot
    BY <1>2 DEF RequestAbort, RecordSave, PrepareReboot, Save, FieldSaved
  <1>3. CASE StartDisks
    BY <1>1, <1>3 DEF StartDisks, Save, State, FieldSaved
  <1>4. CASE RequestReboot
    BY <1>1, <1>4 DEF RequestReboot, Save, State, FieldSaved
  <1>5. CASE DisksFinished
    BY <1>1, <1>5 DEF DisksFinished, Save, State, FieldSaved
  <1> QED
    BY <1>2, <1>3, <1>4, <1>5

LEMMA FinishSaves ==
    ASSUME TypeOK, Finish
    PROVE  /\ mem'.status \in {"aborted", "complete"}
           /\ mem'.phases = mem.phases
           /\ disk' = mem' \/ disk' = disk
  <1>1. mem \in State
    BY DEF TypeOK, RecordsOK
  <1> QED
    BY <1>1 DEF Finish, Save, State

LEMMA ResumeSaves ==
    ASSUME TypeOK, OpenRunning
    PROVE  /\ mem'.status = disk.status
           /\ mem'.phases = disk.phases
           /\ disk' = mem' \/ disk' = disk
  <1>1. disk \in State
    BY DEF TypeOK, RecordsOK
  <1> QED
    BY <1>1 DEF OpenRunning, Resumed, Save, State

LEMMA PowerDownEffect ==
    ASSUME TypeOK, PowerDown
    PROVE  /\ pc' = "off" /\ mem' = NoSession
           /\ \/ persistent /\ findings' = findings /\ report' = report
                 /\ disk'.status = disk.status
                 /\ disk'.phases = disk.phases
                 /\ disk'.disk_scan = disk.disk_scan
              \/ /\ ~persistent
                 /\ disk' = NoSession /\ findings' = {} /\ report' = "none"
  <1>1. disk \in State
    BY DEF TypeOK, RecordsOK
  <1> QED
    BY <1>1 DEF PowerDown, Forget, State

LEMMA ScanEffect ==
    ASSUME TypeOK, ScanCompletes
    PROVE  mem'.status = mem.status /\ mem'.phases = mem.phases
  <1>1. mem \in State
    BY DEF TypeOK, RecordsOK
  <1> QED
    BY <1>1 DEF ScanCompletes, State

LEMMA NewRecords ==
    /\ Fresh.status = "running" /\ NoSession.status = "none"
    /\ \A p \in Phases :
           Fresh.phases[p] = "pending" /\ NoSession.phases[p] = "pending"
  BY DEF Fresh, NoSession

LEMMA ClosedNext ==
    TypeOK /\ Placed /\ Closed /\ [Next]_vars => Closed'
  <1> SUFFICES ASSUME TypeOK, Placed, Closed, [Next]_vars PROVE Closed'
    OBVIOUS
  <1> USE DEF Closed, Accepted, stick, memory
  <1>1. CASE Reset
    BY <1>1, PowerDownEffect DEF Reset, Alive, Watching
  <1>2. CASE Boot
    BY <1>2 DEF Boot, Alive, Watching
  <1>3. CASE Die
    BY <1>3 DEF Die, Forget, Alive, Watching
  <1>4. CASE ServiceRestart
    BY <1>4 DEF ServiceRestart, Alive, Watching
  <1>5. CASE HardwareFinding
    BY <1>5 DEF HardwareFinding, Alive, Watching
  <1>6. CASE RequestAbort
    BY <1>6 DEF RequestAbort, Save, Alive, Watching
  <1>7. CASE CriticalTemperature
    BY <1>7 DEF CriticalTemperature, Alive, Watching
  <1>8. CASE Heartbeat
    BY <1>8 DEF Heartbeat, Alive, Watching
  <1>9. CASE ScanCompletes
    BY <1>9, ScanEffect DEF ScanCompletes, Alive, Watching
  <1>10. CASE OpenNew
    BY <1>10, NewRecords DEF OpenNew, Alive, Watching
  <1>11. CASE OpenRunning
    BY <1>11, ResumeSaves DEF OpenRunning, Alive, Watching
  <1>12. CASE RecordFinding
    BY <1>12 DEF RecordFinding, Alive, Watching
  <1>13. CASE RecordPhase
    BY <1>13, RecordPhaseSaves DEF RecordPhase, PhaseSaved, Alive, Watching
  <1>14. CASE RecordSave
    BY <1>14, FieldSaves DEF RecordSave, FieldSaved, Alive, Watching
  <1>15. CASE ResumeDisks
    BY <1>15 DEF ResumeDisks, Alive, Watching
  <1>16. CASE StartDisks
    BY <1>16, FieldSaves DEF StartDisks, FieldSaved, Alive, Watching, Placed
  <1>17. CASE PassOver
    BY <1>17 DEF PassOver, Alive, Watching
  <1>18. CASE LeaveLoop
    BY <1>18 DEF LeaveLoop, Alive, Watching
  <1>19. CASE SkipPhase
    BY <1>19, PhaseSaves DEF SkipPhase, PhaseSaved, Alive, Watching
  <1>20. CASE EnterPhase
    BY <1>20 DEF EnterPhase, Alive, Watching
  <1>21. CASE BeginPhase
    BY <1>21, PhaseSaves DEF BeginPhase, PhaseSaved, Alive, Watching
  <1>22. CASE InventoryCollected
    BY <1>22 DEF InventoryCollected, Alive, Watching
  <1>23. CASE PhaseCompletes
    BY <1>23 DEF PhaseCompletes, Alive, Watching
  <1>24. CASE PhaseCutShort
    BY <1>24 DEF PhaseCutShort, Alive, Watching
  <1>25. CASE PhaseAborted
    BY <1>25 DEF PhaseAborted, Alive, Watching
  <1>26. CASE PhaseRaises
    BY <1>26 DEF PhaseRaises, Alive, Watching
  <1>27. CASE RecordError
    BY <1>27, PhaseSaves DEF RecordError, PhaseSaved, Alive, Watching
  <1>28. CASE SkipCycles
    BY <1>28 DEF SkipCycles, Alive, Watching
  <1>29. CASE CyclesDone
    BY <1>29 DEF CyclesDone, Alive, Watching
  <1>30. CASE RequestReboot
    BY <1>30, FieldSaves DEF RequestReboot, FieldSaved, Alive, Watching
  <1>31. CASE PostponePhase
    BY <1>31, PhaseSaves DEF PostponePhase, PhaseSaved, Alive, Watching
  <1>32. CASE SettlePhase
    BY <1>32, PhaseSaves DEF SettlePhase, PhaseSaved, Alive, Watching
  <1>33. CASE PrepareReboot
    BY <1>33, FieldSaves DEF PrepareReboot, FieldSaved, Alive, Watching
  <1>34. CASE Reboot
    BY <1>34, PowerDownEffect DEF Reboot, Alive, Watching
  <1>35. CASE StopDisks
    BY <1>35 DEF StopDisks, Alive, Watching
  <1>36. CASE DisksFinished
    BY <1>36, FieldSaves DEF DisksFinished, FieldSaved, Alive, Watching, Placed
  <1>37. CASE Finalize
    BY <1>37 DEF Finalize, Alive, Watching
  <1>38. CASE FinalSamples
    BY <1>38 DEF FinalSamples, Alive, Watching
  <1>39. CASE Finish
    BY <1>39, FinishSaves DEF Finish, Alive, Watching
  <1>40. CASE WriteReports
    BY <1>40 DEF WriteReports, VerdictOf, CoverageGap, Alive, Watching
  <1>41. CASE AppendIndex
    BY <1>41 DEF AppendIndex, Alive, Watching
  <1>42. CASE ServeResult
    BY <1>42 DEF ServeResult, vars
  <1>43. CASE UNCHANGED vars
    BY <1>43 DEF vars
  <1> QED
    BY <1>1, <1>2, <1>3, <1>4, <1>5, <1>6, <1>7, <1>8, <1>9, <1>10, <1>11,
       <1>12, <1>13, <1>14, <1>15, <1>16, <1>17, <1>18, <1>19, <1>20, <1>21,
       <1>22, <1>23, <1>24, <1>25, <1>26, <1>27, <1>28, <1>29, <1>30, <1>31,
       <1>32, <1>33, <1>34, <1>35, <1>36, <1>37, <1>38, <1>39, <1>40, <1>41,
       <1>42, <1>43
       DEF Next, MainThread, Environment

-----------------------------------------------------------------------------
(* Backing *)

Neutral == {"pending", "running", "error", "aborted", "interrupted", "skipped"}

Grows ==
    ran \subseteq ran' /\ findings \subseteq findings' /\ persistent' = persistent

\* No phase gets a good or failed status that a record did not hold before.
Moves ==
    \A p \in Phases :
        /\ mem'.phases[p] \in {mem.phases[p], disk.phases[p]} \cup Neutral
        /\ disk'.phases[p] \in {mem'.phases[p], mem.phases[p], disk.phases[p]}
                                \cup Neutral

PhasesBacked ==
    \A p \in Phases : Backed(p, disk.phases[p]) /\ Backed(p, mem.phases[p])

LEMMA BackedStays ==
    ASSUME PhasesBacked, Grows, Moves
    PROVE  PhasesBacked'
  BY DEF PhasesBacked, Backed, Grows, Moves, Neutral

LEMMA BackedNext ==
    TypeOK /\ Placed /\ Settled /\ PhasesBacked /\ [Next]_vars => PhasesBacked'
  <1> SUFFICES ASSUME TypeOK, Placed, Settled, PhasesBacked, [Next]_vars
               PROVE  PhasesBacked'
    OBVIOUS
  <1> USE DEF stick, memory, history
  <1>1. CASE Reset
    BY <1>1, PowerDownEffect, NewRecords DEF Reset, PhasesBacked, Backed
  <1>2. CASE Boot
    BY <1>2, BackedStays DEF Boot, Grows, Moves
  <1>3. CASE Die
    BY <1>3, BackedStays, NewRecords DEF Die, Grows, Moves, Forget, Neutral
  <1>4. CASE ServiceRestart
    BY <1>4, BackedStays DEF ServiceRestart, Grows, Moves
  <1>5. CASE HardwareFinding
    BY <1>5, BackedStays DEF HardwareFinding, Grows, Moves
  <1>6. CASE RequestAbort
    BY <1>6, FieldSaves, BackedStays DEF RequestAbort, Grows, Moves, FieldSaved
  <1>7. CASE CriticalTemperature
    BY <1>7, BackedStays DEF CriticalTemperature, Grows, Moves
  <1>8. CASE Heartbeat
    BY <1>8, BackedStays DEF Heartbeat, Grows, Moves
  <1>9. CASE ScanCompletes
    BY <1>9, ScanEffect, BackedStays DEF ScanCompletes, Grows, Moves
  <1>10. CASE OpenNew
    BY <1>10, NewRecords DEF OpenNew, PhasesBacked, Backed
  <1>11. CASE OpenRunning
    BY <1>11, ResumeSaves, BackedStays DEF OpenRunning, Grows, Moves
  <1>12. CASE RecordFinding
    BY <1>12, BackedStays DEF RecordFinding, Grows, Moves
  <1>13. CASE RecordPhase
    BY <1>13, RecordPhaseSaves, BackedStays
       DEF RecordPhase, Grows, Moves, PhaseSaved, Neutral, HitStatus
  <1>14. CASE RecordSave
    BY <1>14, FieldSaves, BackedStays DEF RecordSave, Grows, Moves, FieldSaved
  <1>15. CASE ResumeDisks
    BY <1>15, BackedStays DEF ResumeDisks, Grows, Moves
  <1>16. CASE StartDisks
    BY <1>16, FieldSaves, BackedStays DEF StartDisks, Grows, Moves, FieldSaved
  <1>17. CASE PassOver
    BY <1>17, BackedStays DEF PassOver, Grows, Moves
  <1>18. CASE LeaveLoop
    BY <1>18, BackedStays DEF LeaveLoop, Grows, Moves
  <1>19. CASE SkipPhase
    BY <1>19, PhaseSaves, BackedStays
       DEF SkipPhase, Grows, Moves, PhaseSaved, Neutral
  <1>20. CASE EnterPhase
    BY <1>20, BackedStays DEF EnterPhase, Grows, Moves
  <1>21. CASE BeginPhase
    BY <1>21, PhaseSaves, BackedStays
       DEF BeginPhase, Grows, Moves, PhaseSaved, Neutral
  <1>22. CASE InventoryCollected
    BY <1>22, BackedStays DEF InventoryCollected, Grows, Moves
  <1>23. CASE PhaseCompletes
    BY <1>23, BackedStays DEF PhaseCompletes, Grows, Moves
  <1>24. CASE PhaseCutShort
    BY <1>24, BackedStays DEF PhaseCutShort, Grows, Moves
  <1>25. CASE PhaseAborted
    BY <1>25, BackedStays DEF PhaseAborted, Grows, Moves
  <1>26. CASE PhaseRaises
    BY <1>26, BackedStays DEF PhaseRaises, Grows, Moves
  <1>27. CASE RecordError
    BY <1>27, PhaseSaves, BackedStays
       DEF RecordError, Grows, Moves, PhaseSaved, Neutral
  <1>28. CASE SkipCycles
    BY <1>28, BackedStays DEF SkipCycles, Grows, Moves
  <1>29. CASE CyclesDone
    BY <1>29, BackedStays DEF CyclesDone, Grows, Moves
  <1>30. CASE RequestReboot
    BY <1>30, FieldSaves, BackedStays DEF RequestReboot, Grows, Moves, FieldSaved
  <1>31. CASE PostponePhase
    BY <1>31, PhaseSaves, BackedStays
       DEF PostponePhase, Grows, Moves, PhaseSaved, Neutral
  <1>32. CASE SettlePhase
    <2> DEFINE x == PhaseResult(Name, abort, findings)
    <2>1. /\ \A p \in Phases : mem'.phases[p] = IF p = Name THEN x ELSE mem.phases[p]
          /\ disk' = mem' \/ disk' = disk
          /\ ran' = ran /\ findings' = findings /\ persistent' = persistent
      BY <1>32, PhaseSaves DEF SettlePhase, PhaseSaved, history
    <2>2. x \in {"done", "warn"} => Name \in ran \/ ~persistent
      BY <1>32 DEF SettlePhase, Settled, PhaseResult
    <2>3. x = "failed" => \E f \in findings : f.severity = "FAIL"
      BY DEF PhaseResult
    <2> HIDE DEF x
    <2> QED
      BY <2>1, <2>2, <2>3 DEF PhasesBacked, Backed
  <1>33. CASE PrepareReboot
    BY <1>33, FieldSaves, BackedStays DEF PrepareReboot, Grows, Moves, FieldSaved
  <1>34. CASE Reboot
    BY <1>34, PowerDownEffect, NewRecords DEF Reboot, PhasesBacked, Backed
  <1>35. CASE StopDisks
    BY <1>35, BackedStays DEF StopDisks, Grows, Moves
  <1>36. CASE DisksFinished
    BY <1>36, FieldSaves, BackedStays DEF DisksFinished, Grows, Moves, FieldSaved
  <1>37. CASE Finalize
    BY <1>37, BackedStays DEF Finalize, Grows, Moves
  <1>38. CASE FinalSamples
    BY <1>38, BackedStays DEF FinalSamples, Grows, Moves
  <1>39. CASE Finish
    BY <1>39, FinishSaves, BackedStays DEF Finish, Grows, Moves
  <1>40. CASE WriteReports
    BY <1>40, BackedStays DEF WriteReports, Grows, Moves
  <1>41. CASE AppendIndex
    BY <1>41, BackedStays DEF AppendIndex, Grows, Moves
  <1>42. CASE ServeResult
    BY <1>42, BackedStays DEF ServeResult, vars, Grows, Moves
  <1>43. CASE UNCHANGED vars
    BY <1>43, BackedStays DEF vars, Grows, Moves
  <1> QED
    BY <1>1, <1>2, <1>3, <1>4, <1>5, <1>6, <1>7, <1>8, <1>9, <1>10, <1>11,
       <1>12, <1>13, <1>14, <1>15, <1>16, <1>17, <1>18, <1>19, <1>20, <1>21,
       <1>22, <1>23, <1>24, <1>25, <1>26, <1>27, <1>28, <1>29, <1>30, <1>31,
       <1>32, <1>33, <1>34, <1>35, <1>36, <1>37, <1>38, <1>39, <1>40, <1>41,
       <1>42, <1>43
       DEF Next, MainThread, Environment

LEMMA SettledNext ==
    TypeOK /\ Placed /\ Settled /\ [Next]_vars => Settled'
  <1> SUFFICES ASSUME TypeOK, Placed, Settled, [Next]_vars PROVE Settled'
    OBVIOUS
  <1> USE DEF TypeOK, Settled, Name, stick, memory, history
  <1>1. CASE Reset
    BY <1>1, PowerDownEffect DEF Reset
  <1>2. CASE Boot
    BY <1>2 DEF Boot
  <1>3. CASE Die
    BY <1>3 DEF Die, Forget
  <1>4. CASE ServiceRestart
    BY <1>4 DEF ServiceRestart
  <1>5. CASE HardwareFinding
    BY <1>5 DEF HardwareFinding
  <1>6. CASE RequestAbort
    BY <1>6 DEF RequestAbort
  <1>7. CASE CriticalTemperature
    BY <1>7 DEF CriticalTemperature
  <1>8. CASE Heartbeat
    BY <1>8 DEF Heartbeat
  <1>9. CASE ScanCompletes
    BY <1>9 DEF ScanCompletes
  <1>10. CASE OpenNew
    BY <1>10 DEF OpenNew
  <1>11. CASE OpenRunning
    BY <1>11 DEF OpenRunning
  <1>12. CASE RecordFinding
    BY <1>12 DEF RecordFinding
  <1>13. CASE RecordPhase
    BY <1>13 DEF RecordPhase
  <1>14. CASE RecordSave
    BY <1>14 DEF RecordSave
  <1>15. CASE ResumeDisks
    BY <1>15 DEF ResumeDisks
  <1>16. CASE StartDisks
    BY <1>16 DEF StartDisks, Placed, PlaceOK
  <1>17. CASE PassOver
    BY <1>17 DEF PassOver
  <1>18. CASE LeaveLoop
    BY <1>18 DEF LeaveLoop
  <1>19. CASE SkipPhase
    BY <1>19 DEF SkipPhase
  <1>20. CASE EnterPhase
    BY <1>20 DEF EnterPhase
  <1>21. CASE BeginPhase
    BY <1>21 DEF BeginPhase
  <1>22. CASE InventoryCollected
    BY <1>22 DEF InventoryCollected
  <1>23. CASE PhaseCompletes
    BY <1>23 DEF PhaseCompletes
  <1>24. CASE PhaseCutShort
    BY <1>24 DEF PhaseCutShort, Gap, Fault
  <1>25. CASE PhaseAborted
    BY <1>25 DEF PhaseAborted
  <1>26. CASE PhaseRaises
    BY <1>26 DEF PhaseRaises
  <1>27. CASE RecordError
    BY <1>27 DEF RecordError
  <1>28. CASE SkipCycles
    BY <1>28 DEF SkipCycles
  <1>29. CASE CyclesDone
    BY <1>29 DEF CyclesDone
  <1>30. CASE RequestReboot
    <2>1. mem.reboot_cycles_done + 1 # 0
      BY CycleType DEF RecordsOK
    <2> QED
      BY <1>30, <2>1 DEF RequestReboot
  <1>31. CASE PostponePhase
    BY <1>31 DEF PostponePhase
  <1>32. CASE SettlePhase
    BY <1>32 DEF SettlePhase
  <1>33. CASE PrepareReboot
    BY <1>33 DEF PrepareReboot
  <1>34. CASE Reboot
    BY <1>34, PowerDownEffect DEF Reboot
  <1>35. CASE StopDisks
    BY <1>35 DEF StopDisks
  <1>36. CASE DisksFinished
    BY <1>36 DEF DisksFinished, Placed, PlaceOK
  <1>37. CASE Finalize
    BY <1>37 DEF Finalize
  <1>38. CASE FinalSamples
    BY <1>38 DEF FinalSamples
  <1>39. CASE Finish
    BY <1>39 DEF Finish
  <1>40. CASE WriteReports
    BY <1>40 DEF WriteReports
  <1>41. CASE AppendIndex
    BY <1>41 DEF AppendIndex
  <1>42. CASE ServeResult
    BY <1>42 DEF ServeResult, vars
  <1>43. CASE UNCHANGED vars
    BY <1>43 DEF vars
  <1> QED
    BY <1>1, <1>2, <1>3, <1>4, <1>5, <1>6, <1>7, <1>8, <1>9, <1>10, <1>11,
       <1>12, <1>13, <1>14, <1>15, <1>16, <1>17, <1>18, <1>19, <1>20, <1>21,
       <1>22, <1>23, <1>24, <1>25, <1>26, <1>27, <1>28, <1>29, <1>30, <1>31,
       <1>32, <1>33, <1>34, <1>35, <1>36, <1>37, <1>38, <1>39, <1>40, <1>41,
       <1>42, <1>43
       DEF Next, MainThread, Environment

LEMMA MarkedNext ==
    TypeOK /\ Placed /\ Marked /\ [Next]_vars => Marked'
  <1> SUFFICES ASSUME TypeOK, Placed, Marked, [Next]_vars PROVE Marked'
    OBVIOUS
  <1> USE DEF TypeOK, Marked, stick, memory, history
  <1>1. CASE Reset
    BY <1>1, PowerDownEffect DEF Reset, Alive, Watching
  <1>2. CASE Boot
    BY <1>2 DEF Boot, Alive, Watching
  <1>3. CASE Die
    BY <1>3 DEF Die, Forget, Alive, Watching
  <1>4. CASE ServiceRestart
    BY <1>4 DEF ServiceRestart, Alive, Watching
  <1>5. CASE HardwareFinding
    BY <1>5 DEF HardwareFinding, Alive, Watching
  <1>6. CASE RequestAbort
    BY <1>6 DEF RequestAbort, Alive, Watching
  <1>7. CASE CriticalTemperature
    BY <1>7 DEF CriticalTemperature, Alive, Watching
  <1>8. CASE Heartbeat
    BY <1>8 DEF Heartbeat, Alive, Watching
  <1>9. CASE ScanCompletes
    BY <1>9 DEF ScanCompletes, Alive, Watching
  <1>10. CASE OpenNew
    BY <1>10 DEF OpenNew, Alive, Watching
  <1>11. CASE OpenRunning
    BY <1>11 DEF OpenRunning, Alive, Watching
  <1>12. CASE RecordFinding
    <2>1. ~persistent => Gap(NoPhase) \in findings'
      BY <1>12 DEF RecordFinding, IncidentFindings
    <2>2. Gap(NoPhase).incomplete
      BY DEF Gap
    <2> QED
      BY <1>12, <2>1, <2>2 DEF RecordFinding
  <1>13. CASE RecordPhase
    BY <1>13 DEF RecordPhase, Alive, Watching
  <1>14. CASE RecordSave
    BY <1>14 DEF RecordSave, Alive, Watching
  <1>15. CASE ResumeDisks
    BY <1>15 DEF ResumeDisks, Alive, Watching
  <1>16. CASE StartDisks
    BY <1>16 DEF StartDisks, Placed, PlaceOK, Alive, Watching
  <1>17. CASE PassOver
    BY <1>17 DEF PassOver, Alive, Watching
  <1>18. CASE LeaveLoop
    BY <1>18 DEF LeaveLoop, Alive, Watching
  <1>19. CASE SkipPhase
    BY <1>19 DEF SkipPhase, Alive, Watching
  <1>20. CASE EnterPhase
    BY <1>20 DEF EnterPhase, Alive, Watching
  <1>21. CASE BeginPhase
    BY <1>21 DEF BeginPhase, Alive, Watching
  <1>22. CASE InventoryCollected
    BY <1>22 DEF InventoryCollected, Alive, Watching
  <1>23. CASE PhaseCompletes
    BY <1>23 DEF PhaseCompletes, Alive, Watching
  <1>24. CASE PhaseCutShort
    BY <1>24 DEF PhaseCutShort, Alive, Watching
  <1>25. CASE PhaseAborted
    BY <1>25 DEF PhaseAborted, Alive, Watching
  <1>26. CASE PhaseRaises
    BY <1>26 DEF PhaseRaises, Alive, Watching
  <1>27. CASE RecordError
    BY <1>27 DEF RecordError, Alive, Watching
  <1>28. CASE SkipCycles
    BY <1>28 DEF SkipCycles, Alive, Watching
  <1>29. CASE CyclesDone
    BY <1>29 DEF CyclesDone, Alive, Watching
  <1>30. CASE RequestReboot
    BY <1>30 DEF RequestReboot, Alive, Watching
  <1>31. CASE PostponePhase
    BY <1>31 DEF PostponePhase, Alive, Watching
  <1>32. CASE SettlePhase
    BY <1>32 DEF SettlePhase, Alive, Watching
  <1>33. CASE PrepareReboot
    BY <1>33 DEF PrepareReboot, Alive, Watching
  <1>34. CASE Reboot
    BY <1>34, PowerDownEffect DEF Reboot, Alive, Watching
  <1>35. CASE StopDisks
    BY <1>35 DEF StopDisks, Alive, Watching
  <1>36. CASE DisksFinished
    BY <1>36 DEF DisksFinished, Placed, PlaceOK, Alive, Watching
  <1>37. CASE Finalize
    BY <1>37 DEF Finalize, Alive, Watching
  <1>38. CASE FinalSamples
    BY <1>38 DEF FinalSamples, Alive, Watching
  <1>39. CASE Finish
    BY <1>39 DEF Finish, Alive, Watching
  <1>40. CASE WriteReports
    BY <1>40 DEF WriteReports, Alive, Watching
  <1>41. CASE AppendIndex
    BY <1>41 DEF AppendIndex, Alive, Watching
  <1>42. CASE ServeResult
    BY <1>42 DEF ServeResult, vars
  <1>43. CASE UNCHANGED vars
    BY <1>43 DEF vars
  <1> QED
    BY <1>1, <1>2, <1>3, <1>4, <1>5, <1>6, <1>7, <1>8, <1>9, <1>10, <1>11,
       <1>12, <1>13, <1>14, <1>15, <1>16, <1>17, <1>18, <1>19, <1>20, <1>21,
       <1>22, <1>23, <1>24, <1>25, <1>26, <1>27, <1>28, <1>29, <1>30, <1>31,
       <1>32, <1>33, <1>34, <1>35, <1>36, <1>37, <1>38, <1>39, <1>40, <1>41,
       <1>42, <1>43
       DEF Next, MainThread, Environment

LEMMA EarnedNext ==
    AInv /\ [Next]_vars => AcceptanceIsEarned'
  <1> SUFFICES ASSUME AInv, [Next]_vars PROVE AcceptanceIsEarned'
    OBVIOUS
  <1> USE DEF AInv, Closed, Accepted, AcceptanceIsEarned, stick, memory, history
  <1>1. CASE Reset
    BY <1>1, PowerDownEffect DEF Reset
  <1>2. CASE Boot
    BY <1>2 DEF Boot
  <1>3. CASE Die
    BY <1>3 DEF Die, Forget
  <1>4. CASE ServiceRestart
    BY <1>4 DEF ServiceRestart
  <1>5. CASE HardwareFinding
    BY <1>5 DEF HardwareFinding, Watching
  <1>6. CASE RequestAbort
    BY <1>6 DEF RequestAbort, Save, Watching
  <1>7. CASE CriticalTemperature
    BY <1>7 DEF CriticalTemperature, Watching
  <1>8. CASE Heartbeat
    BY <1>8 DEF Heartbeat, Watching
  <1>9. CASE ScanCompletes
    BY <1>9 DEF ScanCompletes, Watching
  <1>10. CASE OpenNew
    BY <1>10 DEF OpenNew
  <1>11. CASE OpenRunning
    BY <1>11 DEF OpenRunning
  <1>12. CASE RecordFinding
    BY <1>12 DEF RecordFinding
  <1>13. CASE RecordPhase
    BY <1>13 DEF RecordPhase
  <1>14. CASE RecordSave
    BY <1>14 DEF RecordSave
  <1>15. CASE ResumeDisks
    BY <1>15 DEF ResumeDisks
  <1>16. CASE StartDisks
    BY <1>16 DEF StartDisks
  <1>17. CASE PassOver
    BY <1>17 DEF PassOver
  <1>18. CASE LeaveLoop
    BY <1>18 DEF LeaveLoop
  <1>19. CASE SkipPhase
    BY <1>19 DEF SkipPhase
  <1>20. CASE EnterPhase
    BY <1>20 DEF EnterPhase
  <1>21. CASE BeginPhase
    BY <1>21 DEF BeginPhase
  <1>22. CASE InventoryCollected
    BY <1>22 DEF InventoryCollected
  <1>23. CASE PhaseCompletes
    BY <1>23 DEF PhaseCompletes
  <1>24. CASE PhaseCutShort
    BY <1>24 DEF PhaseCutShort
  <1>25. CASE PhaseAborted
    BY <1>25 DEF PhaseAborted
  <1>26. CASE PhaseRaises
    BY <1>26 DEF PhaseRaises
  <1>27. CASE RecordError
    BY <1>27 DEF RecordError
  <1>28. CASE SkipCycles
    BY <1>28 DEF SkipCycles
  <1>29. CASE CyclesDone
    BY <1>29 DEF CyclesDone
  <1>30. CASE RequestReboot
    BY <1>30 DEF RequestReboot
  <1>31. CASE PostponePhase
    BY <1>31 DEF PostponePhase
  <1>32. CASE SettlePhase
    BY <1>32 DEF SettlePhase
  <1>33. CASE PrepareReboot
    BY <1>33 DEF PrepareReboot
  <1>34. CASE Reboot
    BY <1>34, PowerDownEffect DEF Reboot
  <1>35. CASE StopDisks
    BY <1>35 DEF StopDisks
  <1>36. CASE DisksFinished
    BY <1>36 DEF DisksFinished
  <1>37. CASE Finalize
    BY <1>37 DEF Finalize
  <1>38. CASE FinalSamples
    BY <1>38 DEF FinalSamples
  <1>39. CASE Finish
    BY <1>39 DEF Finish
  <1>40. CASE WriteReports
    <2> SUFFICES ASSUME Accepted'
                 PROVE  ran = Phases /\ disk.disk_scan # "started"
      BY <1>40 DEF WriteReports
    <2>1. /\ ~CoverageGap(disk, findings)
          /\ \A f \in findings : ~f.incomplete /\ f.severity # "FAIL"
      BY <1>40 DEF WriteReports, VerdictOf, Verdicts
    <2>2. persistent
      BY <1>40, <2>1 DEF WriteReports, Backing, Marked, Alive
    <2>3. \A p \in Phases : disk.phases[p] \in {"done", "warn", "failed"}
      BY <2>1 DEF CoverageGap
    <2>4. \A p \in Phases : p \in ran
      BY <2>1, <2>2, <2>3 DEF Backing, Backed
    <2> QED
      BY <2>1, <2>4 DEF CoverageGap, TypeOK, HistoryOK
  <1>41. CASE AppendIndex
    BY <1>41 DEF AppendIndex
  <1>42. CASE ServeResult
    BY <1>42 DEF ServeResult, vars
  <1>43. CASE UNCHANGED vars
    BY <1>43 DEF vars
  <1> QED
    BY <1>1, <1>2, <1>3, <1>4, <1>5, <1>6, <1>7, <1>8, <1>9, <1>10, <1>11,
       <1>12, <1>13, <1>14, <1>15, <1>16, <1>17, <1>18, <1>19, <1>20, <1>21,
       <1>22, <1>23, <1>24, <1>25, <1>26, <1>27, <1>28, <1>29, <1>30, <1>31,
       <1>32, <1>33, <1>34, <1>35, <1>36, <1>37, <1>38, <1>39, <1>40, <1>41,
       <1>42, <1>43
       DEF Next, MainThread, Environment

LEMMA AInvInit == Init => AInv
  <1> SUFFICES ASSUME Init PROVE AInv
    OBVIOUS
  <1>1. Closed /\ AcceptanceIsEarned
    BY NewRecords DEF Init, Closed, Accepted, AcceptanceIsEarned, Alive, Watching
  <1>2. Backing
    BY NewRecords DEF Init, Backing, Backed, Settled, Marked, Alive, Watching
  <1> QED
    BY <1>1, <1>2, TypeInit DEF AInv

LEMMA AInvNext == AInv /\ [Next]_vars => AInv'
  <1> SUFFICES ASSUME AInv, [Next]_vars PROVE AInv'
    OBVIOUS
  <1>1. TypeOK /\ Placed /\ Closed /\ PhasesBacked /\ Settled /\ Marked
    BY DEF AInv, Backing, PhasesBacked
  <1>2. TypeOK' /\ Placed'
    BY <1>1, TypeNext
  <1>3. Closed'
    BY <1>1, ClosedNext
  <1>4. PhasesBacked' /\ Settled' /\ Marked'
    BY <1>1, BackedNext, SettledNext, MarkedNext
  <1>5. AcceptanceIsEarned'
    BY EarnedNext
  <1> QED
    BY <1>2, <1>3, <1>4, <1>5 DEF AInv, Backing, PhasesBacked

\* write_reports accepts a machine only if every phase of its plan ran its
\* whole workload and no disk scan is left over - whatever the plan, however
\* many resets, deaths, findings and failing saves hit the session.
THEOREM AcceptanceCorrect == Spec => []AcceptanceIsEarned
  <1>1. AInv => AcceptanceIsEarned
    BY DEF AInv
  <1> QED
    BY <1>1, AInvInit, AInvNext, PTL DEF Spec

-----------------------------------------------------------------------------
(* The disk tests end before a reboot is announced *)

\* finalize after its disk procedures.
Closing == {"samples", "finish", "report", "index"}

\* The scans run only until the disk tests are finished in memory, and they
\* are when power cycling starts; a record that announces a reboot, be it one
\* that a failing save left behind, says so too.
DisksSettled ==
    /\ disks_up => pc \in Alive /\ ~mem.disk_tests_finished
    /\ pc = "disks_finished" => ~disks_up
    /\ pc \in Closing => mem.disk_tests_finished
    /\ pc \in {"begin", "phase"} /\ Name = "powercycle" => mem.disk_tests_finished
    /\ mem.planned_reboot # 0 => mem.disk_tests_finished
    /\ disk.planned_reboot # 0 =>
           disk.disk_tests_finished /\ (pc \in Alive => mem.disk_tests_finished)

-----------------------------------------------------------------------------
(* The phases of a record *)

\* Power cycling comes last: where it runs or has announced a reboot, every
\* other phase is behind; and no two phases run.
Cycling(st) ==
    \/ st.planned_reboot # 0
    \/ \E p \in Phases : p = "powercycle" /\ st.phases[p] = "running"

InOrder(st) ==
    /\ Cycling(st) => \A p \in Phases \ {"powercycle"} :
                          st.phases[p] \notin {"pending", "running"}
    /\ \A p, q \in Phases :
           st.phases[p] = "running" /\ st.phases[q] = "running" => p = q

\* The main thread has not reached run_phases.
Opening == {"off", "dead", "start", "record_finding", "record_phase",
            "record_save", "resume"}

\* The main thread is inside phase Name.
Inside == pc \in {"phase", "settle", "raised"} \/ ret = "settle"

\* Where the main thread is tells which phase may run in its state: the one
\* it is in, the one it found when the session was opened, or power cycling,
\* taken up after a reboot that its own record did not expect.
MayRun(p) ==
    \/ Inside /\ p = Name
    \/ pc \in {"record_finding", "record_phase"} /\ p = hit
    \/ p = "powercycle" /\ pc \notin {"record_finding", "record_phase"}

Positioned ==
    /\ pc \in Opening \/ ret = "loop" => i = 1
    /\ pc \in {"off", "dead", "start"} => hit = NoPhase
    /\ \A k \in 1..Len(Plan) : k < i => mem.phases[Plan[k]] # "pending"
    /\ pc = "begin" \/ ret = "begin" => mem.phases[Name] = "pending"
    /\ \A p \in Phases : mem.phases[p] = "running" => MayRun(p)
    /\ pc \in {"record_finding", "record_phase"} =>
           /\ hit # NoPhase => mem.phases[hit] = "running"
           /\ reason \notin {"unexpected", "restart"} => hit \in {NoPhase, "powercycle"}
    /\ reboot_request # 0 => Name = "powercycle"

Ordered == InOrder(disk) /\ InOrder(mem) /\ Positioned

-----------------------------------------------------------------------------
(* Announcing a reboot *)

\* At most n saves have failed.
Failed(n) == left.save_fails + n >= MaxSaveFails

\* PowerCyclePhase, run_phases and perform_reboot save the announcement one
\* after the other, so it takes three failing saves to lose it.
OnStick ==
    /\ pc = "settle" /\ reboot_request # 0 /\ Failed(0) => disk.planned_reboot = reboot_request
    /\ pc = "reboot" /\ Failed(1) => disk.planned_reboot = reboot_request
    /\ pc = "rebooting" /\ Failed(2) => disk.planned_reboot = reboot_request

Announcing ==
    /\ left.save_fails <= MaxSaveFails /\ left.resets <= MaxResets
    /\ pc \in Alive => mem.this_boot
    /\ reboot_request = mem.planned_reboot
    /\ reboot_request # 0 => /\ pc \in {"settle", "reboot", "rebooting"}
                             /\ reboot_request = mem.reboot_cycles_done + 1
                             /\ reboot_request <= RebootCycles
    /\ pc \in {"reboot", "rebooting"} => reboot_request # 0
    /\ disk.planned_reboot # 0 => disk.planned_reboot = disk.reboot_cycles_done + 1
    /\ OnStick

-----------------------------------------------------------------------------
(* Counting reboots and resets: with at most two failing saves *)

Interrupted(st) == ~st.this_boot /\ st.planned_reboot = 0

\* The cycles and the resets a resume would find.
Cycles(st) == IF ~st.this_boot /\ st.planned_reboot # 0
              THEN st.planned_reboot ELSE st.reboot_cycles_done

CrashCount(st) == IF Interrupted(st) THEN st.unexpected_reboots + 1
                                  ELSE st.unexpected_reboots

Counted ==
    Failed(2) =>
        /\ reboots <= RebootCycles
        /\ pc \in Alive => reboots <= mem.reboot_cycles_done
        /\ disk.status = "running" => reboots <= Cycles(disk)
        /\ mem.unexpected_reboots + left.resets <= MaxResets
        /\ disk.status = "running" => CrashCount(disk) + left.resets <= MaxResets

-----------------------------------------------------------------------------
(* A session all of whose saves worked *)

Saved ==
    AllSaved /\ pc \in Alive =>
        /\ disk.status = mem.status
        /\ disk.this_boot = mem.this_boot
        /\ disk.unexpected_reboots = mem.unexpected_reboots
        /\ disk.planned_reboot = mem.planned_reboot
        /\ disk.phases = mem.phases

Stress == Phases \ {"inventory", "powercycle"}

Once ==
    AllSaved => \A p \in Stress :
        /\ starts[p] <= 1
        /\ starts[p] = 1 =>
              /\ pc \in Alive => mem.phases[p] # "pending"
              /\ disk.status = "running" => disk.phases[p] # "pending"

ResetsCounted ==
    AllSaved =>
        /\ pc \in Alive => resets <= mem.unexpected_reboots
        /\ disk.status = "running" => resets <= CrashCount(disk)
        /\ pc = "begin" \/ ret = "begin" => ~TooManyResets

\* Between an interruption and the finding about it.
Unrecorded ==
    \/ pc = "record_finding" /\ reason \in {"unexpected", "restart"}
    \/ /\ pc \in {"off", "dead", "start"}
       /\ disk.status = "running" => disk.planned_reboot = 0
       /\ disk.status \in {"none", "running"}

Noticed ==
    AllSaved /\ findings = {} => (resets = 0 /\ deaths = 0) \/ Unrecorded

-----------------------------------------------------------------------------
(* What a step may be to these invariants *)

\* The state a step leaves behind was written, or the write failed.
Wrote ==
    \/ disk' = mem' /\ left'.save_fails = left.save_fails
    \/ disk' = disk /\ left'.save_fails < left.save_fails

\* The program works on: it counts neither cycles nor resets and announces
\* nothing, and every change of a phase is saved or costs a failing save.
Work ==
    /\ pc \in Alive /\ pc' \in Alive \cup {"done"}
    /\ mem'.status = mem.status /\ mem'.this_boot = mem.this_boot
    /\ mem'.unexpected_reboots = mem.unexpected_reboots
    /\ mem'.planned_reboot = mem.planned_reboot
    /\ mem'.reboot_cycles_done = mem.reboot_cycles_done
    /\ left'.resets = left.resets
    /\ \/ Wrote
       \/ disk' = disk /\ mem'.phases = mem.phases /\ left'.save_fails = left.save_fails
    /\ UNCHANGED <<reboot_request, persistent, resets, deaths, reboots>>
    /\ findings \subseteq findings'
    /\ pc = "record_finding" /\ reason \in {"unexpected", "restart"} => findings' # {}
    /\ reboot_request # 0 => pc' = pc \/ PostponePhase \/ PrepareReboot
    /\ reboot_request = 0 => pc' \notin {"reboot", "rebooting"}
    /\ pc' = "begin" \/ ret' = "begin" => pc = "begin" \/ ret = "begin" \/ ~TooManyResets
    /\ \A p \in Stress : mem.phases[p] # "pending" => mem'.phases[p] # "pending"
    /\ starts' = starts \/ BeginPhase
    /\ \/ /\ mem'.disk_tests_finished = mem.disk_tests_finished
          /\ disks_up' => disks_up \/ (pc = "start_disks" /\ ~mem.disk_tests_finished)
       \/ pc = "disks_finished" /\ mem'.disk_tests_finished /\ disks_up' = disks_up
    /\ pc' = "disks_finished" => pc = "disks_finished" \/ ~disks_up'
    /\ pc' \in Closing => pc \in Closing \/ mem'.disk_tests_finished
    /\ pc' = "done" => pc = "index"
    /\ pc' \in {"begin", "phase"} /\ Name' = "powercycle" =>
           (pc \in {"begin", "phase"} /\ Name' = Name) \/ mem'.disk_tests_finished
    /\ report' = report \/ WriteReports

LEMMA SaveWrites ==
    ASSUME TypeOK, NEW st, Save(st)
    PROVE  /\ mem' = st /\ Wrote
           /\ left'.resets = left.resets /\ left'.save_fails \in Nat
  BY DEF Save, Wrote, TypeOK, RecordsOK, Left

LEMMA PhaseKeeps ==
    ASSUME NEW st \in State, NEW p, NEW x
    PROVE  LET new == SetPhase(st, p, x) IN
           /\ new.status = st.status /\ new.this_boot = st.this_boot
           /\ new.unexpected_reboots = st.unexpected_reboots
           /\ new.planned_reboot = st.planned_reboot
           /\ new.reboot_cycles_done = st.reboot_cycles_done
           /\ new.disk_tests_finished = st.disk_tests_finished
           /\ \A q \in Phases : new.phases[q] = IF q = p THEN x ELSE st.phases[q]
  BY DEF SetPhase, State

\* Giving a phase its status; no stress phase goes back to "pending".
LEMMA PhaseStep ==
    ASSUME TypeOK, NEW p, NEW x, x # "pending" \/ p \notin Stress,
           Save(SetPhase(mem, p, x))
    PROVE  /\ Wrote /\ left'.resets = left.resets
           /\ mem'.status = mem.status /\ mem'.this_boot = mem.this_boot
           /\ mem'.unexpected_reboots = mem.unexpected_reboots
           /\ mem'.planned_reboot = mem.planned_reboot
           /\ mem'.reboot_cycles_done = mem.reboot_cycles_done
           /\ mem'.disk_tests_finished = mem.disk_tests_finished
           /\ \A q \in Stress : mem.phases[q] # "pending" => mem'.phases[q] # "pending"
  <1>1. mem' = SetPhase(mem, p, x) /\ Wrote /\ left'.resets = left.resets
    BY SaveWrites
  <1>2. mem \in State
    BY DEF TypeOK, RecordsOK
  <1> QED
    BY <1>1, <1>2, PhaseKeeps DEF Stress

LEMMA WorkSteps ==
    TypeOK /\ Placed /\ Announcing /\ Positioned /\ [Next]_vars =>
        \/ Work \/ Reset \/ Boot \/ Die \/ ServiceRestart \/ OpenNew
        \/ OpenRunning \/ RequestReboot \/ Reboot \/ Finish \/ UNCHANGED vars
  <1> SUFFICES ASSUME TypeOK, Placed, Announcing, Positioned, [Next]_vars,
                      ~(\/ Reset \/ Boot \/ Die \/ ServiceRestart \/ OpenNew
                        \/ OpenRunning \/ RequestReboot \/ Reboot \/ Finish
                        \/ UNCHANGED vars)
               PROVE  Work
    OBVIOUS
  <1>m. mem \in State /\ disk \in State /\ left \in Left
    BY DEF TypeOK, RecordsOK
  <1>a. /\ reboot_request # 0 => pc \in {"settle", "reboot", "rebooting"}
        /\ pc \in {"reboot", "rebooting"} => reboot_request # 0
        /\ reboot_request # 0 => Name = "powercycle"
        /\ pc \notin {"start_disks", "stop_disks", "disks_finished"} => ret = ""
        /\ pc = "start_disks" => ret \in {"loop", "settle"}
    BY DEF Announcing, Positioned, Placed
  <1>i. i' = i => Name' = Name
    BY DEF Name
  <1> USE <1>i DEF stick, memory, history, Alive, Watching, Closing
  <1>5. CASE HardwareFinding
    BY <1>5, <1>a, <1>m DEF HardwareFinding, Work, Left
  <1>6. CASE RequestAbort
    BY <1>6, <1>a, SaveWrites DEF RequestAbort, Work
  <1>7. CASE CriticalTemperature
    <2>1. Wrote /\ left'.resets = left.resets
      <3>1. CASE disk' = mem /\ left' = [left EXCEPT !.events = @ - 1]
        BY <1>7, <1>a, <1>m, <3>1 DEF CriticalTemperature, Wrote, Left
      <3>2. CASE /\ left.save_fails > 0
                 /\ left' = [left EXCEPT !.events = @ - 1, !.save_fails = @ - 1]
                 /\ UNCHANGED disk
        <4>1. left'.save_fails = left.save_fails - 1 /\ left'.resets = left.resets
          BY <1>m, <3>2 DEF Left
        <4> QED
          BY <1>m, <3>2, <4>1 DEF Wrote, Left
      <3> QED
        BY <1>7, <1>a, <3>1, <3>2 DEF CriticalTemperature
    <2> QED
      BY <1>7, <1>a, <2>1 DEF CriticalTemperature, Work
  <1>8. CASE Heartbeat
    BY <1>8, <1>a DEF Heartbeat, Work, Wrote
  <1>9. CASE ScanCompletes
    BY <1>9, <1>a, <1>m DEF ScanCompletes, Work, State
  <1>12. CASE RecordFinding
    BY <1>12, <1>a DEF RecordFinding, IncidentFindings, Work
  <1>13. CASE RecordPhase
    <2>1. HitStatus # "pending" \/ hit \notin Stress
      BY DEF HitStatus, Stress
    <2>2. CASE mem' = mem /\ disk' = disk /\ left' = left
      BY <1>13, <1>a, <2>2 DEF RecordPhase, Work
    <2>3. CASE Save(SetPhase(mem, hit, HitStatus))
      BY <1>13, <1>a, <2>1, <2>3, PhaseStep DEF RecordPhase, Work
    <2> QED
      BY <1>13, <2>2, <2>3 DEF RecordPhase
  <1>14. CASE RecordSave
    BY <1>14, <1>a, SaveWrites DEF RecordSave, Work
  <1>15. CASE ResumeDisks
    BY <1>15, <1>a DEF ResumeDisks, Work
  <1>16. CASE StartDisks
    <2>1. CASE mem.disk_tests_finished
      BY <1>16, <1>a, <2>1 DEF StartDisks, Work, Placed
    <2>2. CASE ~mem.disk_tests_finished
      <3>1. PICK x : Save([mem EXCEPT !.disk_scan = x])
        BY <1>16, <2>2 DEF StartDisks
      <3>2. mem' = [mem EXCEPT !.disk_scan = x] /\ Wrote /\ left'.resets = left.resets
        BY <3>1, SaveWrites
      <3> QED
        BY <1>16, <1>a, <1>m, <3>2 DEF StartDisks, Work, Placed, State
    <2> QED
      BY <2>1, <2>2
  <1>17. CASE PassOver
    BY <1>17, <1>a DEF PassOver, Work
  <1>18. CASE LeaveLoop
    BY <1>18, <1>a DEF LeaveLoop, Work
  <1>19. CASE SkipPhase
    BY <1>19, <1>a, PhaseStep DEF SkipPhase, Work
  <1>20. CASE EnterPhase
    BY <1>20, <1>a DEF EnterPhase, DisksFirst, Work
  <1>21. CASE BeginPhase
    BY <1>21, <1>a, PhaseStep DEF BeginPhase, Work
  <1>22. CASE InventoryCollected
    BY <1>22, <1>a DEF InventoryCollected, Work
  <1>23. CASE PhaseCompletes
    BY <1>23, <1>a DEF PhaseCompletes, Work
  <1>24. CASE PhaseCutShort
    BY <1>24, <1>a DEF PhaseCutShort, Work
  <1>25. CASE PhaseAborted
    BY <1>25, <1>a DEF PhaseAborted, Work
  <1>26. CASE PhaseRaises
    BY <1>26, <1>a DEF PhaseRaises, Work
  <1>27. CASE RecordError
    BY <1>27, <1>a, PhaseStep DEF RecordError, Work
  <1>28. CASE SkipCycles
    BY <1>28, <1>a DEF SkipCycles, Work
  <1>29. CASE CyclesDone
    BY <1>29, <1>a DEF CyclesDone, Work
  <1>31. CASE PostponePhase
    <2>1. Name \notin Stress
      BY <1>31, <1>a DEF PostponePhase, Stress
    <2> QED
      BY <1>31, <1>a, <2>1, PhaseStep DEF PostponePhase, Work
  <1>32. CASE SettlePhase
    <2>1. PhaseResult(Name, abort, findings) # "pending"
      BY DEF PhaseResult
    <2> QED
      BY <1>32, <1>a, <2>1, PhaseStep DEF SettlePhase, Work
  <1>33. CASE PrepareReboot
    BY <1>33, <1>a, SaveWrites DEF PrepareReboot, Work
  <1>35. CASE StopDisks
    BY <1>35, <1>a DEF StopDisks, Work
  <1>36. CASE DisksFinished
    <2>1. mem' = [mem EXCEPT !.disk_tests_finished = TRUE] /\ Wrote
          /\ left'.resets = left.resets
      BY <1>36, SaveWrites DEF DisksFinished
    <2> QED
      BY <1>36, <1>a, <1>m, <2>1 DEF DisksFinished, Work, Placed, State
  <1>37. CASE Finalize
    BY <1>37, <1>a DEF Finalize, Work
  <1>38. CASE FinalSamples
    BY <1>38, <1>a DEF FinalSamples, Work
  <1>40. CASE WriteReports
    BY <1>40, <1>a DEF WriteReports, Work
  <1>41. CASE AppendIndex
    BY <1>41, <1>a DEF AppendIndex, Work
  <1>42. CASE ServeResult
    BY <1>42 DEF ServeResult
  <1> QED
    BY <1>5, <1>a, <1>6, <1>7, <1>8, <1>9, <1>12, <1>13, <1>14, <1>15, <1>16, <1>17,
       <1>18, <1>19, <1>20, <1>21, <1>22, <1>23, <1>24, <1>25, <1>26, <1>27,
       <1>28, <1>29, <1>31, <1>32, <1>33, <1>35, <1>36, <1>37, <1>38, <1>40,
       <1>41, <1>42
       DEF Next, MainThread, Environment

-----------------------------------------------------------------------------
(* The other steps on the session records *)

LEMMA NewSessions ==
    /\ Fresh.this_boot /\ Fresh.status = "running"
    /\ Fresh.unexpected_reboots = 0 /\ Fresh.planned_reboot = 0
    /\ Fresh.reboot_cycles_done = 0 /\ ~Fresh.disk_tests_finished
    /\ ~NoSession.this_boot /\ NoSession.status = "none"
    /\ NoSession.unexpected_reboots = 0 /\ NoSession.planned_reboot = 0
    /\ NoSession.reboot_cycles_done = 0 /\ ~NoSession.disk_tests_finished
    /\ \A p \in Phases :
           Fresh.phases[p] = "pending" /\ NoSession.phases[p] = "pending"
  BY DEF Fresh, NoSession

\* _resume: an announced reboot is a cycle, an unannounced one is counted.
LEMMA ResumedRecord ==
    ASSUME NEW st \in State
    PROVE  LET new == Resumed(st) IN
           /\ new.this_boot /\ new.planned_reboot = 0
           /\ new.reboot_cycles_done = Cycles(st)
           /\ new.unexpected_reboots = CrashCount(st)
           /\ new.status = st.status /\ new.phases = st.phases
           /\ new.disk_tests_finished = st.disk_tests_finished
  BY DEF Resumed, ResumeReason, Cycles, CrashCount, Interrupted, State

\* The record after the machine went down: another boot, or nothing.
LEMMA DownRecord ==
    ASSUME TypeOK, PowerDown
    PROVE  /\ pc' = "off" /\ mem' = NoSession /\ reboot_request' = 0 /\ ret' = ""
           /\ i' = 1 /\ ~disks_up'
           /\ \/ /\ persistent /\ findings' = findings /\ report' = report
                 /\ disk'.status = disk.status /\ ~disk'.this_boot
                 /\ disk'.unexpected_reboots = disk.unexpected_reboots
                 /\ disk'.planned_reboot = disk.planned_reboot
                 /\ disk'.reboot_cycles_done = disk.reboot_cycles_done
                 /\ disk'.phases = disk.phases
                 /\ disk'.disk_tests_finished = disk.disk_tests_finished
              \/ ~persistent /\ disk' = NoSession /\ findings' = {} /\ report' = "none"
  <1>1. disk \in State
    BY DEF TypeOK, RecordsOK
  <1> QED
    BY <1>1 DEF PowerDown, Forget, State

\* Session.open found no session to resume.
LEMMA NewRecord ==
    ASSUME TypeOK, OpenNew
    PROVE  /\ mem' = Fresh
           /\ \/ disk' = Fresh /\ left' = left
              \/ /\ disk' = NoSession /\ left'.resets = left.resets
                 /\ left'.save_fails < left.save_fails
  BY DEF OpenNew, TypeOK, RecordsOK, Left

LEMMA FinishRecord ==
    ASSUME TypeOK, Finish
    PROVE  /\ mem'.status \in {"aborted", "complete"} /\ Wrote
           /\ mem'.this_boot = mem.this_boot
           /\ mem'.unexpected_reboots = mem.unexpected_reboots
           /\ mem'.planned_reboot = mem.planned_reboot
           /\ mem'.reboot_cycles_done = mem.reboot_cycles_done
           /\ mem'.disk_tests_finished = mem.disk_tests_finished
           /\ mem'.phases = mem.phases /\ left'.resets = left.resets
  <1>1. mem \in State
    BY DEF TypeOK, RecordsOK
  <1>2. /\ mem' = [mem EXCEPT !.status = IF aborted THEN "aborted" ELSE "complete"]
        /\ Wrote /\ left'.resets = left.resets
    BY SaveWrites DEF Finish
  <1> QED
    BY <1>1, <1>2 DEF State

LEMMA RequestRecord ==
    ASSUME TypeOK, RequestReboot
    PROVE  /\ mem'.planned_reboot = mem.reboot_cycles_done + 1 /\ Wrote
           /\ mem'.status = mem.status /\ mem'.this_boot = mem.this_boot
           /\ mem'.unexpected_reboots = mem.unexpected_reboots
           /\ mem'.reboot_cycles_done = mem.reboot_cycles_done
           /\ mem'.disk_tests_finished = mem.disk_tests_finished
           /\ mem'.phases = mem.phases /\ left'.resets = left.resets
  <1>1. mem \in State
    BY DEF TypeOK, RecordsOK
  <1>2. /\ mem' = [mem EXCEPT !.planned_reboot = mem.reboot_cycles_done + 1]
        /\ Wrote /\ left'.resets = left.resets
    BY SaveWrites DEF RequestReboot
  <1> QED
    BY <1>1, <1>2 DEF State

\* What the type invariant says of the numbers.
LEMMA Numbers ==
    ASSUME TypeOK
    PROVE  /\ left.save_fails \in Nat /\ left.resets \in Nat
           /\ MaxSaveFails \in Nat /\ MaxResets \in Nat
           /\ RebootCycles \in Nat /\ MaxUnexpected \in Nat
           /\ reboot_request \in Nat /\ resets \in Nat /\ deaths \in Nat
           /\ reboots \in Nat
           /\ \A st \in {disk, mem} :
                  /\ st.unexpected_reboots \in Nat /\ st.planned_reboot \in Nat
                  /\ st.reboot_cycles_done \in Nat
  <1>1. disk \in State /\ mem \in State /\ left \in Left
    BY DEF TypeOK, RecordsOK
  <1>2. /\ MaxSaveFails \in Nat /\ MaxResets \in Nat
        /\ RebootCycles \in Nat /\ MaxUnexpected \in Nat
    BY BurnInAssumption
  <1> QED
    BY <1>1, <1>2 DEF TypeOK, PlaceOK, HistoryOK, Left, State

-----------------------------------------------------------------------------
(* Announcing *)

LEMMA AnnouncingNext ==
    TypeOK /\ TypeOK' /\ Placed /\ Positioned /\ Announcing /\ [Next]_vars
        => Announcing'
  <1> SUFFICES ASSUME TypeOK, TypeOK', Placed, Positioned, Announcing, [Next]_vars
               PROVE  Announcing'
    OBVIOUS
  <1>n. /\ left.save_fails \in Nat /\ left'.save_fails \in Nat
        /\ MaxSaveFails \in Nat /\ MaxResets \in Nat /\ left.resets \in Nat
        /\ mem.reboot_cycles_done \in Nat /\ RebootCycles \in Nat
    BY Numbers DEF TypeOK, RecordsOK, Left
  <1>w. pc' = "off" \/ pc' = "dead" \/ pc' = "start" =>
            pc' \notin Alive /\ pc' \notin {"settle", "reboot", "rebooting"}
    BY DEF Alive, Watching
  <1> USE DEF Announcing, OnStick, Failed, stick, memory, history
  <1>1. CASE Reset
    <2>1. left'.save_fails = left.save_fails /\ left'.resets <= MaxResets
      BY <1>1, <1>n DEF Reset, TypeOK, RecordsOK, Left
    <2>2. PowerDown
      BY <1>1 DEF Reset
    <2> QED
      BY <1>n, <1>w, <2>1, <2>2, DownRecord, NewSessions
  <1>2. CASE Boot \/ ServiceRestart
    BY <1>2, <1>n, <1>w DEF Boot, ServiceRestart, Alive, Watching
  <1>3. CASE Die
    <2>1. left'.save_fails = left.save_fails /\ left'.resets = left.resets
      BY <1>3 DEF Die, TypeOK, RecordsOK, Left
    <2> QED
      BY <1>3, <1>n, <1>w, <2>1, NewSessions DEF Die, Forget
  <1>4. CASE OpenNew
    <2>1. reboot_request' = 0
      BY <1>4 DEF OpenNew, Alive, Watching
    <2>2. pc' = "record_finding"
      BY <1>4 DEF OpenNew
    <2>4. left'.save_fails <= left.save_fails
      BY <1>4, <1>n, NewRecord
    <2>3. mem' = Fresh /\ disk' \in {Fresh, NoSession} /\ left'.resets = left.resets
      BY <1>4, NewRecord
    <2> QED
      BY <1>n, <2>1, <2>2, <2>3, <2>4, NewSessions
  <1>5. CASE OpenRunning
    <2>1. /\ mem' = Resumed(disk) /\ Wrote /\ left'.resets = left.resets
          /\ disk \in State
      BY <1>5, SaveWrites DEF OpenRunning, TypeOK, RecordsOK
    <2> QED
      BY <1>5, <1>n, <2>1, ResumedRecord DEF OpenRunning, Wrote, Alive, Watching
  <1>6. CASE Reboot
    BY <1>6, <1>n, <1>w, DownRecord, NewSessions DEF Reboot
  <1>7. CASE Finish
    BY <1>7, <1>n, FinishRecord DEF Finish, Wrote, Alive, Watching
  <1>8. CASE RequestReboot
    BY <1>8, <1>n, RequestRecord DEF RequestReboot, Wrote, Alive, Watching
  <1>9. CASE PostponePhase
    <2>1. mem.this_boot /\ Wrote /\ mem \in State /\ left'.resets = left.resets
          /\ mem' = SetPhase(mem, Name, "pending")
      BY <1>9, SaveWrites DEF PostponePhase, Alive, Watching, TypeOK, RecordsOK
    <2> QED
      BY <1>9, <1>n, <2>1, PhaseKeeps DEF PostponePhase, Wrote, Alive, Watching
  <1>10. CASE PrepareReboot
    <2>1. mem.this_boot /\ Wrote /\ mem' = mem /\ left'.resets = left.resets
      BY <1>10, SaveWrites DEF PrepareReboot, Alive, Watching
    <2> QED
      BY <1>10, <1>n, <2>1 DEF PrepareReboot, Wrote, Alive, Watching
  <1>11. CASE Work /\ ~PostponePhase /\ ~PrepareReboot
    <2>1. reboot_request # 0 => pc' = pc
      BY <1>11 DEF Work
    <2>2. disk' = mem' \/ (disk' = disk /\ left'.save_fails <= left.save_fails)
      BY <1>11, <1>n DEF Work, Wrote
    <2>3. left'.save_fails <= left.save_fails
      BY <1>11, <1>n DEF Work, Wrote
    <2> QED
      BY <1>11, <1>n, <2>1, <2>2, <2>3 DEF Work
  <1>12. CASE UNCHANGED vars
    BY <1>12 DEF vars
  <1> QED
    BY <1>1, <1>2, <1>3, <1>4, <1>5, <1>6, <1>7, <1>8, <1>9, <1>10, <1>11,
       <1>12, WorkSteps

-----------------------------------------------------------------------------
(* Counting *)

LEMMA CountedNext ==
    TypeOK /\ TypeOK' /\ Placed /\ Positioned /\ Announcing /\ Counted /\ [Next]_vars
        => Counted'
  <1> SUFFICES ASSUME TypeOK, TypeOK', Placed, Positioned, Announcing, Counted,
                      [Next]_vars, Failed(2)'
               PROVE  Counted'
    BY DEF Counted
  <1>n. /\ left.save_fails \in Nat /\ left'.save_fails \in Nat
        /\ left.resets \in Nat /\ left'.resets \in Nat
        /\ MaxSaveFails \in Nat /\ MaxResets \in Nat /\ RebootCycles \in Nat
        /\ reboots \in Nat /\ reboots' \in Nat
        /\ \A st \in {disk, mem, disk', mem'} :
               /\ st.unexpected_reboots \in Nat /\ st.planned_reboot \in Nat
               /\ st.reboot_cycles_done \in Nat
    BY Numbers DEF TypeOK, RecordsOK, HistoryOK, Left, State
  <1>a. /\ left.resets <= MaxResets
        /\ pc \in Alive => mem.this_boot
        /\ disk.planned_reboot # 0 =>
               disk.planned_reboot = disk.reboot_cycles_done + 1
    BY DEF Announcing
  <1>c. left'.save_fails <= left.save_fails =>
          /\ reboots <= RebootCycles
          /\ pc \in Alive => reboots <= mem.reboot_cycles_done
          /\ disk.status = "running" => reboots <= Cycles(disk)
          /\ mem.unexpected_reboots + left.resets <= MaxResets
          /\ disk.status = "running" => CrashCount(disk) + left.resets <= MaxResets
    BY <1>n DEF Counted, Failed
  <1>w. pc' = "off" \/ pc' = "dead" \/ pc' = "start" => pc' \notin Alive
    BY DEF Alive, Watching
  <1> USE DEF Cycles, CrashCount, Interrupted, stick, history
  <1>1. CASE Reset
    <2>1. /\ left'.save_fails = left.save_fails /\ left'.resets + 1 = left.resets
          /\ PowerDown /\ reboots' = reboots
      BY <1>1, <1>n DEF Reset, TypeOK, RecordsOK, Left
    <2>a. mem' = NoSession /\ pc' \notin Alive
      BY <1>w, <2>1, DownRecord
    <2>b. mem'.unexpected_reboots = 0
      BY <2>a, NewSessions
    <2>2. /\ mem'.unexpected_reboots = 0 /\ pc' \notin Alive
          /\ reboots <= RebootCycles
      BY <1>c, <1>n, <2>1, <2>a, <2>b
    <2>3. CASE persistent
      <3>1. /\ disk'.status = disk.status /\ ~disk'.this_boot
            /\ disk'.unexpected_reboots = disk.unexpected_reboots
            /\ disk'.planned_reboot = disk.planned_reboot
            /\ disk'.reboot_cycles_done = disk.reboot_cycles_done
        BY <2>1, <2>3, DownRecord
      <3>2. CrashCount(disk') <= CrashCount(disk) + 1
        BY <1>n, <3>1
      <3>3. Cycles(disk) <= Cycles(disk')
        BY <1>n, <1>a, <3>1
      <3>4. CrashCount(disk) \in Nat /\ Cycles(disk) \in Nat
            /\ CrashCount(disk') \in Nat /\ Cycles(disk') \in Nat
        BY <1>n
      <3> HIDE DEF CrashCount, Cycles
      <3> QED
        BY <1>n, <1>a, <1>c, <2>1, <2>2, <3>1, <3>2, <3>3, <3>4 DEF Counted
    <2>4. CASE ~persistent
      <3>1. disk'.status # "running"
        BY <2>1, <2>4, DownRecord, NewSessions
      <3> QED
        BY <1>n, <1>a, <2>1, <2>2, <3>1 DEF Counted
    <2> QED
      BY <2>3, <2>4
  <1>2. CASE Boot \/ ServiceRestart
    BY <1>2, <1>n, <1>c, <1>w DEF Boot, ServiceRestart, Counted
  <1>3. CASE Die
    <2>1. /\ left'.save_fails = left.save_fails /\ left'.resets = left.resets
          /\ disk' = disk /\ reboots' = reboots /\ mem' = NoSession /\ pc' = "dead"
      BY <1>3 DEF Die, Forget, TypeOK, RecordsOK, Left
    <2> QED
      BY <1>n, <1>a, <1>c, <1>w, <2>1, NewSessions DEF Counted
  <1>4. CASE OpenNew
    <2>1. /\ mem' = Fresh /\ disk' \in {Fresh, NoSession} /\ left'.resets = left.resets
      BY <1>4, NewRecord
    <2>2. reboots' = 0
      BY <1>4 DEF OpenNew
    <2>3. CASE disk' = Fresh
      BY <1>n, <1>a, <2>1, <2>2, <2>3, NewSessions DEF Counted
    <2>4. CASE disk' = NoSession
      BY <1>n, <1>a, <2>1, <2>2, <2>4, NewSessions DEF Counted
    <2> QED
      BY <2>1, <2>3, <2>4
  <1>5. CASE OpenRunning
    <2>1. /\ mem' = Resumed(disk) /\ Wrote /\ left'.resets = left.resets
          /\ disk \in State /\ disk.status = "running" /\ reboots' = reboots
      BY <1>5, SaveWrites DEF OpenRunning, TypeOK, RecordsOK
    <2>2. disk' = mem' \/ disk' = disk
      BY <2>1 DEF Wrote
    <2>3. left'.save_fails <= left.save_fails
      BY <1>n, <2>1 DEF Wrote
    <2> QED
      BY <1>n, <1>c, <2>1, <2>2, <2>3, ResumedRecord DEF Counted
  <1>6. CASE Reboot
    <2>1. /\ left' = left /\ PowerDown /\ reboots' <= reboots + 1
          /\ pc = "rebooting"
      BY <1>6, <1>n DEF Reboot
    <2>2. /\ disk.planned_reboot = reboot_request /\ reboot_request # 0
          /\ reboot_request = mem.reboot_cycles_done + 1
          /\ reboot_request <= RebootCycles
      BY <1>n, <2>1 DEF Announcing, OnStick, Failed
    <2>3. pc \in Alive
      BY <2>1 DEF Alive
    <2>4. reboots' <= reboot_request
      BY <1>n, <1>c, <2>1, <2>2, <2>3
    <2>a. mem' = NoSession /\ pc' \notin Alive
      BY <1>w, <2>1, DownRecord
    <2>b. mem'.unexpected_reboots = 0
      BY <2>a, NewSessions
    <2>5. /\ mem'.unexpected_reboots = 0 /\ pc' \notin Alive
          /\ reboots' <= RebootCycles
      BY <1>n, <2>2, <2>4, <2>a, <2>b
    <2>6. CASE persistent
      <3>1. /\ disk'.status = disk.status /\ ~disk'.this_boot
            /\ disk'.unexpected_reboots = disk.unexpected_reboots
            /\ disk'.planned_reboot = reboot_request
        BY <2>1, <2>2, <2>6, DownRecord
      <3>2. CrashCount(disk') <= CrashCount(disk) /\ Cycles(disk') = reboot_request
        BY <1>n, <2>2, <3>1
      <3>3. CrashCount(disk) \in Nat /\ CrashCount(disk') \in Nat
        BY <1>n
      <3> HIDE DEF CrashCount, Cycles
      <3> QED
        BY <1>n, <1>a, <1>c, <2>1, <2>4, <2>5, <3>1, <3>2, <3>3 DEF Counted
    <2>7. CASE ~persistent
      <3>1. disk'.status # "running"
        BY <2>1, <2>7, DownRecord, NewSessions
      <3> QED
        BY <1>n, <1>a, <2>1, <2>5, <3>1 DEF Counted
    <2> QED
      BY <2>6, <2>7
  <1>7. CASE Finish \/ RequestReboot
    <2>1. /\ mem'.this_boot = mem.this_boot /\ Wrote
          /\ mem'.unexpected_reboots = mem.unexpected_reboots
          /\ mem'.reboot_cycles_done = mem.reboot_cycles_done
          /\ left'.resets = left.resets
      BY <1>7, FinishRecord, RequestRecord
    <2>2. pc \in Alive /\ reboots' = reboots
      BY <1>7 DEF Finish, RequestReboot, Alive, Watching
    <2>3. disk' = mem' \/ disk' = disk
      BY <2>1 DEF Wrote
    <2>4. left'.save_fails <= left.save_fails
      BY <1>n, <2>1 DEF Wrote
    <2> QED
      BY <1>n, <1>a, <1>c, <2>1, <2>2, <2>3, <2>4 DEF Counted
  <1>8. CASE Work
    <2>1. disk' = mem' \/ disk' = disk
      BY <1>8 DEF Work, Wrote
    <2>2. left'.save_fails <= left.save_fails
      BY <1>8, <1>n DEF Work, Wrote
    <2>3. /\ pc \in Alive /\ mem'.this_boot = mem.this_boot
          /\ mem'.unexpected_reboots = mem.unexpected_reboots
          /\ mem'.reboot_cycles_done = mem.reboot_cycles_done
          /\ left'.resets = left.resets /\ reboots' = reboots
      BY <1>8 DEF Work
    <2> QED
      BY <1>n, <1>a, <1>c, <2>1, <2>2, <2>3 DEF Counted
  <1>9. CASE UNCHANGED vars
    BY <1>9, <1>n, <1>c DEF vars, Counted
  <1> QED
    BY <1>1, <1>2, <1>3, <1>4, <1>5, <1>6, <1>7, <1>8, <1>9, WorkSteps

-----------------------------------------------------------------------------
(* Sessions without a failing save *)

\* A save that works leaves no difference, one that fails ends the premise.
LEMMA WroteSaved ==
    ASSUME TypeOK, TypeOK', Announcing, AllSaved', Wrote
    PROVE  AllSaved /\ disk' = mem'
  BY Numbers DEF Wrote, AllSaved, Announcing, TypeOK, RecordsOK, Left

LEMMA SavedNext ==
    TypeOK /\ TypeOK' /\ Placed /\ Positioned /\ Announcing /\ Saved /\ [Next]_vars
        => Saved'
  <1> SUFFICES ASSUME TypeOK, TypeOK', Placed, Positioned, Announcing, Saved,
                      [Next]_vars, AllSaved', pc' \in Alive
               PROVE  Saved'
    BY DEF Saved
  <1>w. pc' \notin {"off", "dead", "start"}
    BY DEF Alive, Watching
  <1> USE DEF stick, history
  <1>1. CASE Reset \/ Reboot \/ Die \/ Boot \/ ServiceRestart
    BY <1>1, <1>w DEF Reset, Reboot, PowerDown, Die, Forget, Boot, ServiceRestart
  <1>2. CASE OpenNew
    <2>1. disk' = Fresh /\ mem' = Fresh
      <3>1. ~(left'.save_fails < left.save_fails)
        BY Numbers DEF AllSaved, Announcing, TypeOK, RecordsOK, Left
      <3> QED
        BY <1>2, <3>1, NewRecord
    <2> QED
      BY <2>1 DEF Saved
  <1>3. CASE OpenRunning \/ RequestReboot \/ Finish
    <2>1. Wrote
      BY <1>3, SaveWrites DEF OpenRunning, RequestReboot, Finish
    <2> QED
      BY <2>1, WroteSaved DEF Saved
  <1>4. CASE Work /\ Wrote
    BY <1>4, WroteSaved DEF Saved
  <1>5. CASE Work /\ ~Wrote
    BY <1>5 DEF Work, Saved, AllSaved
  <1>6. CASE UNCHANGED vars
    BY <1>6 DEF vars, Saved, AllSaved
  <1> QED
    BY <1>1, <1>2, <1>3, <1>4, <1>5, <1>6, WorkSteps

\* Saves do not work again: a session without failing saves never had one.
LEMMA AllSavedBefore ==
    ASSUME TypeOK, TypeOK', Placed, Positioned, Announcing, [Next]_vars, AllSaved'
    PROVE  AllSaved
  <1>n. /\ left.save_fails \in Nat /\ left'.save_fails \in Nat
        /\ MaxSaveFails \in Nat /\ left.save_fails <= MaxSaveFails
    BY Numbers DEF TypeOK, RecordsOK, Left, Announcing
  <1> SUFFICES left'.save_fails <= left.save_fails
    BY <1>n DEF AllSaved
  <1>1. CASE Reset \/ Reboot \/ Die \/ Boot \/ ServiceRestart
    BY <1>1, <1>n DEF Reset, Reboot, Die, Boot, ServiceRestart, TypeOK, RecordsOK, Left
  <1>2. CASE OpenNew
    BY <1>2, <1>n, NewRecord
  <1>3. CASE OpenRunning \/ RequestReboot \/ Finish
    <2>1. Wrote
      BY <1>3, SaveWrites DEF OpenRunning, RequestReboot, Finish
    <2> QED
      BY <1>n, <2>1 DEF Wrote
  <1>4. CASE Work
    BY <1>4, <1>n DEF Work, Wrote
  <1>5. CASE UNCHANGED vars
    BY <1>5, <1>n DEF vars
  <1> QED
    BY <1>1, <1>2, <1>3, <1>4, <1>5, WorkSteps

LEMMA ResetsCountedNext ==
    TypeOK /\ TypeOK' /\ Placed /\ Positioned /\ Announcing /\ Saved
      /\ ResetsCounted /\ [Next]_vars => ResetsCounted'
  <1> SUFFICES ASSUME TypeOK, TypeOK', Placed, Positioned, Announcing, Saved,
                      ResetsCounted, [Next]_vars
               PROVE  ResetsCounted'
    OBVIOUS
  <1>q. ~AllSaved' => ResetsCounted'
    BY Zenon DEF ResetsCounted
  <1> SUFFICES ASSUME AllSaved' PROVE ResetsCounted'
    BY <1>q
  <1>s. AllSaved
    BY AllSavedBefore
  <1>n. /\ resets \in Nat /\ resets' \in Nat /\ MaxUnexpected \in Nat
        /\ disk.unexpected_reboots \in Nat /\ mem.unexpected_reboots \in Nat
        /\ disk'.unexpected_reboots \in Nat /\ mem'.unexpected_reboots \in Nat
    BY Numbers DEF TypeOK, RecordsOK, HistoryOK, State
  <1>a. /\ pc \in Alive => mem.this_boot
        /\ reboot_request = mem.planned_reboot
    BY DEF Announcing
  <1>b. pc \in Alive => /\ disk.this_boot /\ disk.planned_reboot = mem.planned_reboot
                        /\ disk.unexpected_reboots = mem.unexpected_reboots
    BY <1>s, <1>a DEF Saved
  <1>c. /\ pc \in Alive => resets <= mem.unexpected_reboots
        /\ disk.status = "running" => resets <= CrashCount(disk)
        /\ pc = "begin" \/ ret = "begin" => ~TooManyResets
    BY <1>s DEF ResetsCounted
  <1>w. pc' = "off" \/ pc' = "dead" \/ pc' = "start" =>
            pc' \notin Alive /\ pc' # "begin"
    BY DEF Alive, Watching
  <1> USE DEF CrashCount, Interrupted, TooManyResets, stick, history
  <1>1. CASE Reset
    <2>1. PowerDown /\ pc' \notin Alive /\ pc' # "begin" /\ ret' # "begin"
      BY <1>1, <1>w, DownRecord DEF Reset
    <2>2. CASE persistent
      <3>1. /\ disk'.status = disk.status /\ ~disk'.this_boot
            /\ disk'.unexpected_reboots = disk.unexpected_reboots
            /\ disk'.planned_reboot = disk.planned_reboot
        BY <2>1, <2>2, DownRecord
      <3>2. CASE resets' = resets
        BY <1>n, <1>c, <2>1, <3>1, <3>2 DEF ResetsCounted
      <3>3. CASE resets' # resets
        <4>1. /\ resets' = resets + 1 /\ disk.status = "running" /\ ~Announced
              /\ pc \in Alive \/ disk.this_boot
          BY <1>1, <3>3 DEF Reset
        <4>2. disk.this_boot /\ disk.planned_reboot = 0
          BY <1>a, <1>b, <4>1 DEF Announced
        <4> QED
          BY <1>n, <1>c, <2>1, <3>1, <4>1, <4>2 DEF ResetsCounted
      <3> QED
        BY <3>2, <3>3
    <2>3. CASE ~persistent
      <3>1. disk'.status # "running"
        BY <2>1, <2>3, DownRecord, NewSessions
      <3> QED
        BY <2>1, <3>1 DEF ResetsCounted
    <2> QED
      BY <2>2, <2>3
  <1>2. CASE Boot \/ ServiceRestart
    BY <1>2, <1>c, <1>w DEF Boot, ServiceRestart, ResetsCounted
  <1>3. CASE Die
    BY <1>3, <1>c, <1>w DEF Die, Forget, ResetsCounted
  <1>4. CASE OpenNew
    <2>1. mem' = Fresh /\ disk' \in {Fresh, NoSession}
      BY <1>4, NewRecord
    <2>2. resets' = 0 /\ pc' # "begin" /\ ret' # "begin"
      BY <1>4 DEF OpenNew, Placed
    <2> QED
      BY <1>n, <2>1, <2>2 DEF ResetsCounted
  <1>5. CASE OpenRunning
    <2>1. /\ mem' = Resumed(disk) /\ Wrote /\ disk \in State
          /\ disk.status = "running" /\ resets' = resets
          /\ pc' # "begin" /\ ret' # "begin"
      BY <1>5, SaveWrites DEF OpenRunning, TypeOK, RecordsOK, Placed
    <2>2. disk' = mem'
      BY <2>1, WroteSaved
    <2> QED
      BY <1>n, <1>c, <2>1, <2>2, ResumedRecord DEF ResetsCounted
  <1>6. CASE Reboot
    <2>1. PowerDown /\ pc' \notin Alive /\ pc' # "begin" /\ ret' # "begin"
          /\ resets' = resets /\ pc \in Alive
      BY <1>6, <1>w, DownRecord DEF Reboot, Alive
    <2>2. CASE persistent
      <3>1. disk'.unexpected_reboots = disk.unexpected_reboots
        BY <2>1, <2>2, DownRecord
      <3> QED
        BY <1>n, <1>b, <1>c, <2>1, <3>1 DEF ResetsCounted
    <2>3. CASE ~persistent
      <3>1. disk'.status # "running"
        BY <2>1, <2>3, DownRecord, NewSessions
      <3> QED
        BY <2>1, <3>1 DEF ResetsCounted
    <2> QED
      BY <2>2, <2>3
  <1>7. CASE Finish \/ RequestReboot
    <2>1. /\ mem'.this_boot = mem.this_boot /\ Wrote
          /\ mem'.unexpected_reboots = mem.unexpected_reboots
      BY <1>7, FinishRecord, RequestRecord
    <2>2. pc \in Alive /\ resets' = resets /\ pc' # "begin" /\ ret' # "begin"
      BY <1>7 DEF Finish, RequestReboot, Alive, Watching, Placed
    <2>3. disk' = mem'
      BY <2>1, WroteSaved
    <2> QED
      BY <1>n, <1>a, <1>c, <2>1, <2>2, <2>3 DEF ResetsCounted
  <1>8. CASE Work
    <2>1. disk' = mem' \/ disk' = disk
      BY <1>8 DEF Work, Wrote
    <2>2. /\ pc \in Alive /\ mem'.this_boot = mem.this_boot
          /\ mem'.unexpected_reboots = mem.unexpected_reboots /\ resets' = resets
          /\ pc' = "begin" \/ ret' = "begin" => mem.unexpected_reboots < MaxUnexpected
      BY <1>8, <1>n, <1>c DEF Work
    <2> QED
      BY <1>n, <1>a, <1>c, <2>1, <2>2 DEF ResetsCounted
  <1>9. CASE UNCHANGED vars
    BY <1>9, <1>c DEF vars, ResetsCounted
  <1> QED
    BY <1>1, <1>2, <1>3, <1>4, <1>5, <1>6, <1>7, <1>8, <1>9, WorkSteps

LEMMA OnceNext ==
    TypeOK /\ TypeOK' /\ Placed /\ Positioned /\ Announcing
      /\ Once /\ [Next]_vars => Once'
  <1> SUFFICES ASSUME TypeOK, TypeOK', Placed, Positioned, Announcing, Once,
                      [Next]_vars, AllSaved', NEW p \in Stress
               PROVE  /\ starts'[p] <= 1
                      /\ starts'[p] = 1 =>
                            /\ pc' \in Alive => mem'.phases[p] # "pending"
                            /\ disk'.status = "running" => disk'.phases[p] # "pending"
    BY DEF Once, Stress
  <1>s. AllSaved
    BY AllSavedBefore
  <1>p. p \in Phases
    BY DEF Stress
  <1>n. starts[p] \in 0..2 /\ starts \in [Phases -> 0..2]
    BY <1>p DEF TypeOK, HistoryOK
  <1>c. /\ starts[p] <= 1
        /\ starts[p] = 1 =>
              /\ pc \in Alive => mem.phases[p] # "pending"
              /\ disk.status = "running" => disk.phases[p] # "pending"
    BY <1>s DEF Once
  <1>w. pc' = "off" \/ pc' = "dead" \/ pc' = "start" => pc' \notin Alive
    BY DEF Alive, Watching
  <1> USE DEF stick, history
  <1>1. CASE Reset \/ Reboot
    <2>1. PowerDown /\ pc' \notin Alive /\ starts' = starts
      BY <1>1, <1>w, DownRecord DEF Reset, Reboot
    <2>2. disk'.status = "running" => disk'.phases = disk.phases /\ disk.status = "running"
      BY <2>1, DownRecord, NewSessions
    <2> QED
      BY <1>c, <2>1, <2>2
  <1>2. CASE Boot \/ ServiceRestart \/ Die
    BY <1>2, <1>c, <1>w DEF Boot, ServiceRestart, Die, Forget
  <1>3. CASE OpenNew
    BY <1>3, <1>p DEF OpenNew
  <1>4. CASE OpenRunning
    <2>1. /\ mem' = Resumed(disk) /\ Wrote /\ disk \in State
          /\ disk.status = "running" /\ starts' = starts
      BY <1>4, SaveWrites DEF OpenRunning, TypeOK, RecordsOK
    <2>2. disk' = mem' /\ mem'.phases = disk.phases
      BY <2>1, WroteSaved, ResumedRecord
    <2> QED
      BY <1>c, <2>1, <2>2
  <1>5. CASE Finish \/ RequestReboot
    <2>1. mem'.phases = mem.phases /\ Wrote
      BY <1>5, FinishRecord, RequestRecord
    <2>2. pc \in Alive /\ starts' = starts
      BY <1>5 DEF Finish, RequestReboot, Alive, Watching
    <2>3. disk' = mem'
      BY <2>1, WroteSaved
    <2> QED
      BY <1>c, <2>1, <2>2, <2>3
  <1>6. CASE BeginPhase
    <2>1. /\ mem' = SetPhase(mem, Name, "running") /\ Wrote /\ mem \in State
          /\ mem.phases[Name] = "pending" /\ pc \in Alive
      BY <1>6, SaveWrites
         DEF BeginPhase, TypeOK, RecordsOK, Positioned, Alive, Watching
    <2>2. disk' = mem'
      BY <2>1, WroteSaved
    <2>3. mem'.phases[p] = IF p = Name THEN "running" ELSE mem.phases[p]
      BY <1>p, <2>1, PhaseKeeps
    <2>4. CASE p = Name
      <3>1. starts[p] = 0
        BY <1>n, <1>c, <2>1, <2>4
      <3>2. starts'[p] = 1
        BY <1>6, <1>n, <1>p, <2>4, <3>1 DEF BeginPhase
      <3> QED
        BY <2>2, <2>3, <2>4, <3>2
    <2>5. CASE p # Name
      <3>1. starts'[p] = starts[p]
        BY <1>6, <1>n, <1>p, <2>5 DEF BeginPhase
      <3> QED
        BY <1>c, <2>1, <2>2, <2>3, <2>5, <3>1
    <2> QED
      BY <2>4, <2>5
  <1>7. CASE Work /\ ~BeginPhase
    <2>1. /\ disk' = mem' \/ (disk' = disk /\ mem'.phases = mem.phases)
          /\ pc \in Alive /\ starts' = starts
          /\ mem.phases[p] # "pending" => mem'.phases[p] # "pending"
      BY <1>7, WroteSaved DEF Work
    <2> QED
      BY <1>c, <2>1
  <1>8. CASE UNCHANGED vars
    BY <1>8, <1>c DEF vars
  <1> QED
    BY <1>1, <1>2, <1>3, <1>4, <1>5, <1>6, <1>7, <1>8, WorkSteps

\* What an interruption of a session without failing saves finds on the stick.
LEMMA AtInterruption ==
    ASSUME TypeOK, Closed, Announcing, Saved, Noticed, AllSaved, findings = {},
           resets # 0 \/ deaths # 0 \/ (disk.status = "running" /\ ~Announced)
    PROVE  /\ disk.status = "running" => disk.planned_reboot = 0
           /\ disk.status \in {"none", "running"}
  <1>1. /\ pc \in Alive \ {"report", "index"} => disk.status \in {"none", "running"}
        /\ reboot_request = mem.planned_reboot
        /\ pc = "record_finding" => reboot_request = 0
    BY DEF Closed, Announcing
  <1>2. pc \in Alive => disk.planned_reboot = mem.planned_reboot
    BY DEF Saved
  <1>3. pc = "record_finding" => pc \in Alive \ {"report", "index"}
    BY DEF Alive
  <1>4. CASE resets # 0 \/ deaths # 0
    <2>1. Unrecorded
      BY <1>4 DEF Noticed
    <2> QED
      BY <2>1, <1>1, <1>2, <1>3 DEF Unrecorded
  <1>5. CASE disk.status = "running" /\ ~Announced
    BY <1>5, <1>1, <1>2 DEF Announced
  <1> QED
    BY <1>4, <1>5

LEMMA NoticedNext ==
    TypeOK /\ TypeOK' /\ Placed /\ Closed /\ Positioned /\ Announcing /\ Saved
      /\ Noticed /\ [Next]_vars => Noticed'
  <1> SUFFICES ASSUME TypeOK, TypeOK', Placed, Closed, Positioned, Announcing,
                      Saved, Noticed, [Next]_vars
               PROVE  Noticed'
    OBVIOUS
  <1> SUFFICES ASSUME AllSaved', findings' = {}, ~(resets' = 0 /\ deaths' = 0)
               PROVE  Unrecorded'
    BY Zenon DEF Noticed
  <1>s. AllSaved
    BY AllSavedBefore
  <1>z. findings = {} /\ ~Unrecorded => resets = 0 /\ deaths = 0
    BY <1>s DEF Noticed
  <1> USE DEF stick, history
  <1>1. CASE Reset
    <2>1. PowerDown /\ pc' = "off" /\ deaths' = deaths
          /\ resets' = IF /\ disk.status = "running"
                          /\ ~Announced
                          /\ pc \in Alive \/ disk.this_boot
                       THEN resets + 1 ELSE resets
      BY <1>1, DownRecord DEF Reset
    <2>2. CASE persistent
      <3>1. /\ findings = {} /\ disk'.status = disk.status
            /\ disk'.planned_reboot = disk.planned_reboot
        BY <2>1, <2>2, DownRecord
      <3>2. /\ disk.status = "running" => disk.planned_reboot = 0
            /\ disk.status \in {"none", "running"}
        <4>1. CASE resets # 0 \/ deaths # 0
          BY <1>s, <2>1, <3>1, <4>1, AtInterruption
        <4>2. CASE resets = 0 /\ deaths = 0
          <5>1. disk.status = "running" /\ ~Announced
            BY <2>1, <4>2
          <5> QED
            BY <1>s, <2>1, <3>1, <5>1, AtInterruption
        <4> QED
          BY <4>1, <4>2
      <3> QED
        BY <2>1, <3>1, <3>2 DEF Unrecorded
    <2>3. CASE ~persistent
      BY <2>1, <2>3, DownRecord, NewSessions DEF Unrecorded
    <2> QED
      BY <2>2, <2>3
  <1>2. CASE Boot \/ ServiceRestart
    BY <1>2, <1>z DEF Boot, ServiceRestart, Unrecorded
  <1>3. CASE Die
    <2>1. /\ pc' = "dead" /\ resets' = resets /\ disk' = disk /\ findings = {}
          /\ deaths' = IF disk.status = "running" /\ ~Announced
                       THEN deaths + 1 ELSE deaths
      BY <1>3 DEF Die, Forget, Alive, Watching
    <2>2. /\ disk.status = "running" => disk.planned_reboot = 0
          /\ disk.status \in {"none", "running"}
      <3>1. CASE resets # 0 \/ deaths # 0
        BY <1>s, <2>1, <3>1, AtInterruption
      <3>2. CASE resets = 0 /\ deaths = 0
        <4>1. disk.status = "running" /\ ~Announced
          BY <2>1, <3>2
        <4> QED
          BY <1>s, <2>1, <4>1, AtInterruption
      <3> QED
        BY <3>1, <3>2
    <2> QED
      BY <2>1, <2>2 DEF Unrecorded
  <1>4. CASE OpenNew
    BY <1>4 DEF OpenNew
  <1>5. CASE OpenRunning
    <2>1. /\ findings = {} /\ resets' = resets /\ deaths' = deaths /\ pc = "start"
          /\ disk.status = "running" /\ pc' = "record_finding"
          /\ reason' = ResumeReason(disk)
      BY <1>5 DEF OpenRunning
    <2>2. disk.planned_reboot = 0
      BY <1>z, <2>1 DEF Unrecorded
    <2> QED
      BY <2>1, <2>2 DEF Unrecorded, ResumeReason
  <1>6. CASE Reboot
    <2>1. PowerDown /\ resets' = resets /\ deaths' = deaths /\ pc = "rebooting"
      BY <1>6 DEF Reboot
    <2>2. findings # {}
      BY <1>z, <2>1 DEF Unrecorded
    <2> QED
      BY <2>1, <2>2, DownRecord, NewSessions DEF Unrecorded
  <1>7. CASE Finish \/ RequestReboot
    BY <1>7, <1>z DEF Finish, RequestReboot, Unrecorded
  <1>8. CASE Work
    <2>1. /\ findings = {} /\ resets' = resets /\ deaths' = deaths /\ pc \in Alive
          /\ ~(pc = "record_finding" /\ reason \in {"unexpected", "restart"})
      BY <1>8 DEF Work
    <2>2. pc \notin {"off", "dead", "start"}
      BY <2>1 DEF Alive, Watching
    <2> QED
      BY <1>z, <2>1, <2>2 DEF Unrecorded
  <1>9. CASE UNCHANGED vars
    BY <1>9, <1>z DEF vars, Unrecorded
  <1> QED
    BY <1>1, <1>2, <1>3, <1>4, <1>5, <1>6, <1>7, <1>8, <1>9, WorkSteps

\* A PASS has no finding at all to its name.
LEMMA PassIsClean ==
    ASSUME NEW fs, fs \subseteq Finding, NEW inc, VerdictOf(fs, inc) = "PASS"
    PROVE  fs = {}
  BY DEF VerdictOf, Finding

LEMMA PassNext ==
    TypeOK /\ TypeOK' /\ Placed /\ Closed /\ Positioned /\ Announcing /\ Noticed
      /\ PassHidesNoInterruption /\ [Next]_vars => PassHidesNoInterruption'
  <1> SUFFICES ASSUME TypeOK, TypeOK', Placed, Closed, Positioned, Announcing,
                      Noticed, PassHidesNoInterruption, [Next]_vars
               PROVE  PassHidesNoInterruption'
    OBVIOUS
  <1> SUFFICES ASSUME AllSaved', report' = "PASS"
               PROVE  resets' = 0 /\ deaths' = 0
    BY Zenon DEF PassHidesNoInterruption
  <1>s. AllSaved
    BY AllSavedBefore
  <1>p. report = "PASS" => /\ resets = 0 /\ deaths = 0 /\ disk.status = "complete"
    BY <1>s DEF PassHidesNoInterruption, Closed, Accepted
  <1> USE DEF stick, history
  <1>1. CASE Reset
    <2>1. PowerDown /\ deaths' = deaths
          /\ (disk.status # "running" => resets' = resets)
      BY <1>1 DEF Reset
    <2>2. report = "PASS"
      BY <2>1, DownRecord
    <2> QED
      BY <1>p, <2>1, <2>2
  <1>2. CASE Boot \/ ServiceRestart
    BY <1>2, <1>p DEF Boot, ServiceRestart
  <1>3. CASE Die
    BY <1>3, <1>p DEF Die
  <1>4. CASE OpenNew
    BY <1>4 DEF OpenNew
  <1>5. CASE OpenRunning \/ Finish \/ RequestReboot
    BY <1>5, <1>p DEF OpenRunning, Finish, RequestReboot
  <1>6. CASE Reboot
    <2>1. PowerDown /\ resets' = resets /\ deaths' = deaths
      BY <1>6 DEF Reboot
    <2>2. report = "PASS"
      BY <2>1, DownRecord
    <2> QED
      BY <1>p, <2>1, <2>2
  <1>7. CASE WriteReports
    <2>1. findings = {}
      BY <1>7, PassIsClean DEF WriteReports, TypeOK, RecordsOK
    <2> QED
      BY <1>7, <1>s, <2>1 DEF WriteReports, Noticed, Unrecorded
  <1>8. CASE Work /\ ~WriteReports
    BY <1>8, <1>p DEF Work
  <1>9. CASE UNCHANGED vars
    BY <1>9, <1>p DEF vars
  <1> QED
    BY <1>1, <1>2, <1>3, <1>4, <1>5, <1>6, <1>7, <1>8, <1>9, WorkSteps

LEMMA NoPhaseAfterTooManyResetsNext ==
    ASSUME TypeOK, TypeOK', Placed, Positioned, Announcing, ResetsCounted,
           [Next]_vars, AllSaved, resets >= MaxUnexpected
    PROVE  starts' = starts \/ pc = "start"
  <1>1. ~BeginPhase
    <2> SUFFICES ASSUME BeginPhase PROVE FALSE
      OBVIOUS
    <2>1. pc = "begin" /\ pc \in Alive
      BY DEF BeginPhase, Alive, Watching
    <2>2. ~TooManyResets /\ resets <= mem.unexpected_reboots
      BY <2>1 DEF ResetsCounted
    <2>3. resets \in Nat /\ mem.unexpected_reboots \in Nat /\ MaxUnexpected \in Nat
      BY Numbers
    <2> QED
      BY <2>2, <2>3 DEF TooManyResets
  <1> USE DEF stick, history
  <1>2. CASE Reset \/ Reboot \/ Die \/ Boot \/ ServiceRestart
    BY <1>2 DEF Reset, Reboot, Die, Boot, ServiceRestart
  <1>3. CASE OpenNew \/ OpenRunning \/ Finish \/ RequestReboot
    BY <1>3 DEF OpenNew, OpenRunning, Finish, RequestReboot
  <1>4. CASE Work
    BY <1>1, <1>4 DEF Work
  <1>5. CASE UNCHANGED vars
    BY <1>5 DEF vars
  <1> QED
    BY <1>2, <1>3, <1>4, <1>5, WorkSteps

-----------------------------------------------------------------------------
(* The disk tests and reboots *)

LEMMA DisksSettledNext ==
    TypeOK /\ Placed /\ Positioned /\ Announcing /\ DisksSettled /\ [Next]_vars
        => DisksSettled'
  <1> SUFFICES ASSUME TypeOK, Placed, Positioned, Announcing, DisksSettled, [Next]_vars
               PROVE  DisksSettled'
    OBVIOUS
  <1>i. i' = i => Name' = Name
    BY DEF Name
  <1>w. /\ pc' \in {"off", "dead", "start"} =>
              /\ pc' \notin Alive /\ pc' \notin Closing
              /\ pc' \notin {"begin", "phase", "disks_finished"}
        /\ pc \in Closing \cup {"begin", "phase", "disks_finished"} => pc \in Alive
    BY DEF Alive, Watching, Closing
  <1> USE DEF DisksSettled, stick, memory, history
  <1>1. CASE Reset \/ Reboot
    <2>1. PowerDown
      BY <1>1 DEF Reset, Reboot
    <2> QED
      BY <1>w, <2>1, DownRecord, NewSessions
  <1>2. CASE Boot \/ ServiceRestart
    <2>1. pc \notin Alive
      BY <1>2 DEF Boot, ServiceRestart, Alive, Watching
    <2> QED
      BY <1>2, <1>w, <2>1 DEF Boot, ServiceRestart
  <1>3. CASE Die
    BY <1>3, <1>w, NewSessions DEF Die, Forget
  <1>4. CASE OpenNew
    <2>1. ~disks_up
      BY <1>4 DEF OpenNew, Alive, Watching
    <2>2. mem' = Fresh /\ (disk' = Fresh \/ disk' = NoSession)
      BY <1>4, NewRecord
    <2>3. pc' = "record_finding" /\ disks_up' = disks_up
      BY <1>4 DEF OpenNew
    <2> QED
      BY <2>1, <2>2, <2>3, NewSessions DEF Closing
  <1>5. CASE OpenRunning
    <2>1. ~disks_up
      BY <1>5 DEF OpenRunning, Alive, Watching
    <2>2. /\ mem' = Resumed(disk) /\ Wrote /\ disk \in State
          /\ pc' = "record_finding" /\ disks_up' = disks_up
      BY <1>5, SaveWrites DEF OpenRunning, TypeOK, RecordsOK
    <2>3. disk' = mem' \/ disk' = disk
      BY <2>2 DEF Wrote
    <2> QED
      BY <2>1, <2>2, <2>3, ResumedRecord DEF Closing
  <1>6. CASE Finish
    <2>1. /\ mem'.planned_reboot = mem.planned_reboot /\ pc' = "report"
          /\ mem'.disk_tests_finished = mem.disk_tests_finished
          /\ disk' = mem' \/ disk' = disk
      BY <1>6, FinishRecord DEF Finish, Wrote
    <2>2. pc = "finish" /\ disks_up' = disks_up /\ pc \in Closing
      BY <1>6 DEF Finish, Closing
    <2> QED
      BY <1>w, <2>1, <2>2
  <1>7. CASE RequestReboot
    <2>1. /\ mem'.disk_tests_finished = mem.disk_tests_finished
          /\ disk' = mem' \/ disk' = disk
      BY <1>7, RequestRecord DEF Wrote
    <2>2. pc' = "settle" /\ disks_up' = disks_up /\ mem.disk_tests_finished
      BY <1>7 DEF RequestReboot
    <2> QED
      BY <2>1, <2>2 DEF Closing, Alive, Watching
  <1>8. CASE Work
    <2>1. /\ pc \in Alive /\ pc' \in Alive \cup {"done"}
          /\ mem'.planned_reboot = mem.planned_reboot
          /\ disk' = mem' \/ disk' = disk
          /\ mem.disk_tests_finished => mem'.disk_tests_finished
      BY <1>8 DEF Work, Wrote
    <2>2. disks_up' => pc' \in Alive /\ ~mem'.disk_tests_finished
      BY <1>8, <2>1 DEF Work, Closing
    <2>3. pc' = "disks_finished" => ~disks_up'
      BY <1>8, <2>1 DEF Work
    <2> QED
      BY <1>8, <2>1, <2>2, <2>3 DEF Work
  <1>9. CASE UNCHANGED vars
    BY <1>9, <1>i DEF vars
  <1> QED
    BY <1>1, <1>2, <1>3, <1>4, <1>5, <1>6, <1>7, <1>8, <1>9, WorkSteps

-----------------------------------------------------------------------------
(* The order of the phases *)

LEMMA InOrderStays ==
    ASSUME NEW st, NEW new, InOrder(st), new.phases = st.phases,
           new.planned_reboot # 0 => st.planned_reboot # 0
    PROVE  InOrder(new)
  BY DEF InOrder, Cycling

LEMMA NewInOrder == InOrder(Fresh) /\ InOrder(NoSession)
  BY NewSessions DEF InOrder, Cycling

\* A phase may get a result at any time.
LEMMA SettlingInOrder ==
    ASSUME NEW st \in State, InOrder(st), NEW p, NEW x, x \notin {"pending", "running"}
    PROVE  InOrder(SetPhase(st, p, x))
  BY PhaseKeeps DEF InOrder, Cycling

\* Power cycling, or the phase that runs, may be put off.
LEMMA PostponingInOrder ==
    ASSUME NEW st \in State, InOrder(st), NEW p \in Phases,
           p = "powercycle" \/ st.phases[p] = "running"
    PROVE  InOrder(SetPhase(st, p, "pending"))
  <1> DEFINE new == SetPhase(st, p, "pending")
  <1>1. /\ new.planned_reboot = st.planned_reboot
        /\ \A q \in Phases : new.phases[q] = IF q = p THEN "pending" ELSE st.phases[q]
    BY PhaseKeeps
  <1> HIDE DEF new
  <1>2. \A q, r \in Phases :
            new.phases[q] = "running" /\ new.phases[r] = "running" => q = r
    BY <1>1 DEF InOrder
  <1>3. Cycling(new) => Cycling(st) /\ p = "powercycle"
    <2>1. Cycling(new) => Cycling(st)
      BY <1>1 DEF Cycling
    <2>2. Cycling(st) => st.phases[p] # "running" \/ p = "powercycle"
      BY DEF InOrder
    <2> QED
      BY <2>1, <2>2
  <1>4. Cycling(new) => \A q \in Phases \ {"powercycle"} :
                            new.phases[q] \notin {"pending", "running"}
    BY <1>1, <1>3 DEF InOrder
  <1> QED
    BY <1>2, <1>4 DEF new, InOrder

\* A phase may start when none runs and, if it is power cycling, when every
\* other phase is behind.
LEMMA StartingInOrder ==
    ASSUME NEW st \in State, NEW p \in Phases,
           \A q \in Phases : st.phases[q] # "running",
           st.planned_reboot = 0,
           p = "powercycle" =>
               \A q \in Phases \ {"powercycle"} : st.phases[q] # "pending"
    PROVE  InOrder(SetPhase(st, p, "running"))
  <1> DEFINE new == SetPhase(st, p, "running")
  <1>1. /\ new.planned_reboot = 0
        /\ \A q \in Phases : new.phases[q] = IF q = p THEN "running" ELSE st.phases[q]
    BY PhaseKeeps
  <1> HIDE DEF new
  <1>2. InOrder(new)
    BY <1>1 DEF InOrder, Cycling
  <1> QED
    BY <1>2 DEF new

LEMMA Positions ==
    ASSUME NEW n \in Nat
    PROVE  /\ \A k \in 1..n : ~(k < 1) /\ (k # n => k < n)
           /\ \A k \in 1..(n + 1) : k <= n => k \in 1..n
           /\ \A k \in 1..n, l \in 1..(n + 1) : k < l + 1 => k < l \/ k = l
  OBVIOUS

LEMMA NoPhaseTwice ==
    ASSUME NEW k \in 1..Len(Plan), NEW l \in 1..Len(Plan), k < l
    PROVE  Plan[k] # Plan[l]
  <1>1. k \in DOMAIN Plan /\ l \in DOMAIN Plan
    BY PlanFacts
  <1>2. k # l
    <2>1. Len(Plan) \in Nat
      BY PlanFacts
    <2> QED
      BY <2>1
  <1> QED
    BY <1>1, <1>2, PlanAssumption

\* The plan: inventory first, power cycling last, no phase twice.
LEMMA PlanOrder ==
    ASSUME PlaceOK, Positioned, i <= Len(Plan), Name = "powercycle"
    PROVE  \A q \in Phases \ {"powercycle"} : mem.phases[q] # "pending"
  <1>0. /\ Len(Plan) \in Nat /\ DOMAIN Plan = 1..Len(Plan)
        /\ i \in 1..(Len(Plan) + 1)
    BY PlanFacts DEF PlaceOK
  <1>1. i \in 1..Len(Plan) /\ Len(Plan) \in Nat /\ DOMAIN Plan = 1..Len(Plan)
    BY <1>0
  <1>2. i = Len(Plan)
    BY <1>1, PlanAssumption DEF Name
  <1> SUFFICES ASSUME NEW q \in Phases, q # "powercycle"
               PROVE  mem.phases[q] # "pending"
    OBVIOUS
  <1>3. PICK k \in 1..Len(Plan) : Plan[k] = q
    BY <1>1 DEF Phases
  <1>4. k # Len(Plan)
    BY <1>2, <1>3 DEF Name
  <1>5. k < i
    BY <1>1, <1>2, <1>4, Positions
  <1> QED
    BY <1>3, <1>5 DEF Positioned

LEMMA PositionedNext ==
    TypeOK /\ Placed /\ Announcing /\ Ordered /\ [Next]_vars => Positioned'
  <1> SUFFICES ASSUME TypeOK, Placed, Announcing, Ordered, [Next]_vars
               PROVE  Positioned'
    OBVIOUS
  <1>p. /\ Len(Plan) \in Nat /\ \A k \in 1..Len(Plan) : Plan[k] \in Phases
        /\ NoPhase \notin Phases /\ i \in 1..(Len(Plan) + 1)
    BY PlanFacts DEF TypeOK, PlaceOK
  <1>o. InOrder(disk) /\ InOrder(mem) /\ Positioned
    BY DEF Ordered
  <1>r. /\ reboot_request # 0 => pc \in {"settle", "reboot", "rebooting"}
        /\ reboot_request = mem.planned_reboot
    BY DEF Announcing
  <1>t. /\ pc \notin {"start_disks", "stop_disks", "disks_finished"} => ret = ""
        /\ pc = "start_disks" => ret \in {"loop", "settle"}
        /\ pc \in {"stop_disks", "disks_finished"} => ret \in {"begin", "samples"}
        /\ pc \in {"begin", "phase", "settle", "raised", "reboot"} => i \in 1..Len(Plan)
    BY <1>p, Positions DEF Placed
  <1>v. \A k \in 1..Len(Plan) : ~(k < 1)
    BY <1>p, Positions
  <1>n. i' = i => Name' = Name
    BY DEF Name
  \* What the place of the main thread says, for a step that leaves the
  \* phases and the position in the plan alone.
  <1> DEFINE Still == i' = i /\ mem'.phases = mem.phases /\ reboot_request' = reboot_request
  <1> USE DEF stick, memory, history
  <1>1. CASE Reset \/ Reboot
    <2>1. PowerDown /\ hit' = NoPhase
      BY <1>1 DEF Reset, Reboot, PowerDown, Forget
    <2> QED
      BY <1>p, <1>v, <2>1, DownRecord, NewSessions DEF Positioned, MayRun
  <1>2. CASE Die
    BY <1>2, <1>p, <1>v, NewSessions DEF Die, Forget, Positioned, MayRun
  <1>3. CASE Boot \/ ServiceRestart
    BY <1>3, <1>o, <1>n, <1>t
       DEF Boot, ServiceRestart, Positioned, MayRun, Inside, Opening
  <1>4. CASE HardwareFinding \/ RequestAbort \/ CriticalTemperature \/ Heartbeat
             \/ ScanCompletes
    <2>1. Still /\ UNCHANGED <<pc, ret, reason, hit>>
      BY <1>4, FieldSaves, ScanEffect
         DEF HardwareFinding, RequestAbort, CriticalTemperature, Heartbeat,
             ScanCompletes, FieldSaved
    <2> QED
      BY <1>o, <1>n, <2>1 DEF Positioned, MayRun, Inside, Opening
  <1>5. CASE OpenNew
    <2>1. /\ mem' = Fresh /\ pc' = "record_finding" /\ hit' = NoPhase /\ i' = 1
          /\ ret' = "" /\ reboot_request' = 0
      BY <1>5, <1>o, <1>r, <1>t, NewRecord DEF OpenNew, Positioned, Opening
    <2> QED
      BY <1>p, <1>v, <2>1, NewSessions DEF Positioned, Opening
  <1>6. CASE OpenRunning
    <2>1. /\ mem' = Resumed(disk) /\ pc' = "record_finding" /\ i' = 1
          /\ ret' = "" /\ reboot_request' = 0 /\ disk \in State
          /\ hit' = RunningPhase(disk) /\ reason' = ResumeReason(disk)
      BY <1>6, <1>o, <1>r, <1>t, SaveWrites
         DEF OpenRunning, Positioned, Opening, TypeOK, RecordsOK
    <2>2. mem'.phases = disk.phases
      BY <2>1, ResumedRecord
    <2>3. hit' # NoPhase => hit' \in Phases /\ disk.phases[hit'] = "running"
      BY <2>1 DEF RunningPhase
    <2>4. \A p \in Phases : disk.phases[p] = "running" => p = hit'
      <3> SUFFICES ASSUME NEW p \in Phases, disk.phases[p] = "running"
                   PROVE  p = hit'
        OBVIOUS
      <3>1. hit' \in Phases /\ disk.phases[hit'] = "running"
        BY <2>1 DEF RunningPhase
      <3> QED
        BY <1>o, <3>1 DEF InOrder
    <2>5. reason' \notin {"unexpected", "restart"} => hit' \in {NoPhase, "powercycle"}
      <3>1. reason' \notin {"unexpected", "restart"} => disk.planned_reboot # 0
        BY <2>1 DEF ResumeReason
      <3> QED
        BY <1>o, <2>3, <3>1 DEF InOrder, Cycling
    <2> QED
      BY <1>p, <1>v, <2>1, <2>2, <2>3, <2>4, <2>5 DEF Positioned, MayRun, Opening
  <1>7. CASE RecordFinding
    BY <1>7, <1>o, <1>n DEF RecordFinding, Positioned, MayRun, Inside, Opening
  <1>8. CASE RecordPhase
    <2>1. /\ pc = "record_phase" /\ pc' = "record_save" /\ i' = 1 /\ i = 1 /\ ret' = ""
          /\ ret = "" /\ reboot_request' = 0
      BY <1>8, <1>o, <1>r, <1>t DEF RecordPhase, Positioned, Opening
    <2>2. \A p \in Phases : mem'.phases[p] = "running" => p = "powercycle"
      <3> SUFFICES ASSUME NEW p \in Phases, mem'.phases[p] = "running"
                   PROVE  p = "powercycle"
        OBVIOUS
      <3>1. HitStatus # "running"
        BY DEF HitStatus
      <3>2. CASE hit # NoPhase /\ reason \in {"unexpected", "restart"}
        <4>1. mem' = SetPhase(mem, hit, HitStatus) /\ mem \in State
          BY <1>8, <3>2, SaveWrites DEF RecordPhase, TypeOK, RecordsOK
        <4>2. mem.phases[p] = "running" /\ p # hit
          BY <3>1, <4>1, PhaseKeeps
        <4> QED
          BY <1>o, <2>1, <4>2 DEF Positioned, MayRun, Inside
      <3>3. CASE ~(hit # NoPhase /\ reason \in {"unexpected", "restart"})
        <4>1. mem.phases[p] = "running"
          BY <1>8, <3>3 DEF RecordPhase
        <4>2. p = hit
          BY <1>o, <2>1, <4>1 DEF Positioned, MayRun, Inside
        <4> QED
          BY <1>o, <1>p, <2>1, <3>3, <4>2 DEF Positioned
      <3> QED
        BY <3>2, <3>3
    <2> QED
      BY <1>p, <1>v, <2>1, <2>2 DEF Positioned, MayRun, Opening
  <1>9. CASE RecordSave
    BY <1>9, <1>o, <1>n, <1>r, <1>t, FieldSaves
       DEF RecordSave, FieldSaved, Positioned, MayRun, Inside, Opening
  <1>10. CASE ResumeDisks
    BY <1>10, <1>o, <1>n, <1>r, <1>t
       DEF ResumeDisks, Positioned, MayRun, Inside, Opening
  <1>11. CASE StartDisks
    BY <1>11, <1>o, <1>n, <1>r, <1>t, FieldSaves
       DEF StartDisks, FieldSaved, Positioned, MayRun, Inside, Opening
  <1>12. CASE PassOver
    <2>1. \A k \in 1..Len(Plan) : k < i + 1 => k < i \/ k = i
      BY <1>p
    <2>2. /\ i' = i + 1 /\ pc = "loop" /\ pc' = "loop" /\ ret = "" /\ ret' = ""
          /\ mem' = mem /\ reboot_request' = 0 /\ mem.phases[Plan[i]] # "pending"
      BY <1>12, <1>r, <1>t DEF PassOver, Name
    <2> QED
      BY <1>o, <2>1, <2>2 DEF Positioned, MayRun, Inside, Opening
  <1>13. CASE LeaveLoop
    BY <1>13, <1>o, <1>n, <1>r, <1>t
       DEF LeaveLoop, Positioned, MayRun, Inside, Opening
  <1>14. CASE SkipPhase \/ RecordError \/ SettlePhase
    <2>1. PICK x : x \notin {"pending", "running"} /\ PhaseSaved(Name, x)
      BY <1>14, PhaseSaves DEF PhaseResult
    <2>2. /\ i' = i + 1 /\ pc' = "loop" /\ ret = "" /\ ret' = ""
          /\ reboot_request' = 0 /\ pc \in {"loop", "raised", "settle"}
      BY <1>14, <1>r, <1>t DEF SkipPhase, RecordError, SettlePhase
    <2>3. \A q \in Phases : mem'.phases[q] = IF q = Name THEN x ELSE mem.phases[q]
      BY <2>1 DEF PhaseSaved
    <2>4. \A k \in 1..Len(Plan) : k < i + 1 => k < i \/ Plan[k] = Name
      BY <1>p DEF Name
    <2>5. \A k \in 1..Len(Plan) : k < i + 1 => mem'.phases[Plan[k]] # "pending"
      BY <1>o, <1>p, <2>1, <2>3, <2>4 DEF Positioned
    <2>6. \A p \in Phases : mem'.phases[p] = "running" => p = "powercycle"
      BY <1>o, <2>1, <2>2, <2>3 DEF Positioned, MayRun, Inside
    <2> QED
      BY <2>2, <2>5, <2>6 DEF Positioned, MayRun, Opening
  <1>15. CASE EnterPhase
    BY <1>15, <1>o, <1>n, <1>r, <1>t
       DEF EnterPhase, Positioned, MayRun, Inside, Opening
  <1>16. CASE BeginPhase
    <2>1. /\ i' = i /\ pc = "begin" /\ pc' = "phase" /\ ret = "" /\ ret' = ""
          /\ reboot_request' = 0 /\ mem.phases[Name] = "pending" /\ Name' = Name
      BY <1>16, <1>o, <1>n, <1>r, <1>t DEF BeginPhase, Positioned
    <2>2. /\ Name \in Phases
          /\ \A q \in Phases : mem'.phases[q] = IF q = Name THEN "running"
                                                            ELSE mem.phases[q]
      BY <1>16, PhaseSaves DEF PhaseSaved
    <2>3. \A p \in Phases : mem'.phases[p] = "running" => p = Name
      <3> SUFFICES ASSUME NEW p \in Phases, mem.phases[p] = "running", p # Name
                   PROVE  FALSE
        BY <2>2
      <3>1. p = "powercycle"
        BY <1>o, <2>1 DEF Positioned, MayRun, Inside
      <3> QED
        BY <1>o, <2>1, <2>2, <3>1 DEF InOrder, Cycling
    <2>4. \A k \in 1..Len(Plan) : k < i => mem'.phases[Plan[k]] # "pending"
      BY <1>o, <1>p, <2>2 DEF Positioned
    <2> QED
      BY <2>1, <2>3, <2>4 DEF Positioned, MayRun, Inside, Opening
  <1>17. CASE InventoryCollected
    BY <1>17, <1>o, <1>n, <1>r, <1>t
       DEF InventoryCollected, Positioned, MayRun, Inside, Opening
  <1>18. CASE PhaseCompletes \/ PhaseCutShort \/ PhaseAborted \/ SkipCycles \/ CyclesDone
    <2>1. /\ pc = "phase" /\ pc' = "settle" /\ Still
          /\ ret = "" /\ ret' = "" /\ mem' = mem
      BY <1>18, <1>t
         DEF PhaseCompletes, PhaseCutShort, PhaseAborted, SkipCycles, CyclesDone
    <2> QED
      BY <1>o, <1>n, <1>r, <2>1 DEF Positioned, MayRun, Inside, Opening
  <1>19. CASE PhaseRaises
    BY <1>19, <1>o, <1>n, <1>r, <1>t
       DEF PhaseRaises, Positioned, MayRun, Inside, Opening
  <1>20. CASE RequestReboot
    <2>1. /\ pc = "phase" /\ pc' = "settle" /\ i' = i /\ ret = "" /\ ret' = ""
          /\ mem'.phases = mem.phases /\ Name = "powercycle"
      BY <1>20, <1>t, RequestRecord DEF RequestReboot
    <2> QED
      BY <1>o, <1>n, <2>1 DEF Positioned, MayRun, Inside, Opening
  <1>21. CASE PostponePhase
    <2>1. /\ i' = i /\ pc = "settle" /\ pc' = "reboot" /\ ret = "" /\ ret' = ""
          /\ reboot_request' = reboot_request /\ Name' = Name
          /\ i \in 1..Len(Plan) /\ Name = "powercycle"
      BY <1>21, <1>n, <1>o, <1>t DEF PostponePhase, Positioned
    <2>2. /\ Name \in Phases
          /\ \A q \in Phases : mem'.phases[q] = IF q = Name THEN "pending"
                                                            ELSE mem.phases[q]
      BY <1>21, PhaseSaves DEF PhaseSaved
    <2>3. \A p \in Phases : mem'.phases[p] # "running"
      BY <1>o, <2>1, <2>2 DEF Positioned, MayRun, Inside
    <2>4. \A k \in 1..Len(Plan) : k < i => Plan[k] # Name
      BY <2>1, NoPhaseTwice DEF Name
    <2>5. \A k \in 1..Len(Plan) : k < i => mem'.phases[Plan[k]] # "pending"
      BY <1>o, <1>p, <2>2, <2>4 DEF Positioned
    <2> QED
      BY <1>o, <2>1, <2>3, <2>5 DEF Positioned, Opening
  <1>22. CASE PrepareReboot
    BY <1>22, <1>o, <1>n, <1>t, FieldSaves
       DEF PrepareReboot, FieldSaved, Positioned, MayRun, Inside, Opening
  <1>23. CASE StopDisks \/ Finalize \/ FinalSamples \/ WriteReports \/ AppendIndex
    BY <1>23, <1>o, <1>n, <1>r, <1>t
       DEF StopDisks, Finalize, FinalSamples, WriteReports, AppendIndex,
           Positioned, MayRun, Inside, Opening
  <1>24. CASE DisksFinished
    BY <1>24, <1>o, <1>n, <1>r, <1>t, FieldSaves
       DEF DisksFinished, FieldSaved, Positioned, MayRun, Inside, Opening
  <1>25. CASE Finish
    BY <1>25, <1>o, <1>n, <1>r, <1>t, FinishRecord
       DEF Finish, Positioned, MayRun, Inside, Opening
  <1>26. CASE ServeResult \/ UNCHANGED vars
    BY <1>26, <1>o, <1>n DEF ServeResult, vars, Positioned, MayRun, Inside, Opening
  <1> QED
    BY <1>1, <1>2, <1>3, <1>4, <1>5, <1>6, <1>7, <1>8, <1>9, <1>10, <1>11,
       <1>12, <1>13, <1>14, <1>15, <1>16, <1>17, <1>18, <1>19, <1>20, <1>21,
       <1>22, <1>23, <1>24, <1>25, <1>26
       DEF Next, MainThread, Environment

LEMMA InOrderNext ==
    TypeOK /\ Placed /\ Announcing /\ Ordered /\ [Next]_vars
        => InOrder(disk)' /\ InOrder(mem)'
  <1> SUFFICES ASSUME TypeOK, Placed, Announcing, Ordered, [Next]_vars
               PROVE  InOrder(disk') /\ InOrder(mem')
    BY DEF InOrder, Cycling
  <1>o. InOrder(disk) /\ InOrder(mem) /\ Positioned /\ mem \in State
    BY DEF Ordered, TypeOK, RecordsOK
  <1>r. /\ reboot_request # 0 => pc \in {"settle", "reboot", "rebooting"}
        /\ reboot_request = mem.planned_reboot
    BY DEF Announcing
  <1>s. ASSUME NEW st, Save(st), InOrder(st) PROVE InOrder(disk') /\ InOrder(mem')
    BY <1>o, <1>s DEF Save
  <1> USE DEF stick, memory, history
  <1>1. CASE Reset \/ Reboot
    <2>1. PowerDown
      BY <1>1 DEF Reset, Reboot
    <2>2. InOrder(disk')
      BY <1>o, <2>1, DownRecord, InOrderStays, NewInOrder
    <2> QED
      BY <2>1, <2>2, DownRecord, NewInOrder
  <1>2. CASE Die
    BY <1>2, <1>o, NewInOrder DEF Die, Forget
  <1>3. CASE Heartbeat \/ CriticalTemperature
    BY <1>3, <1>o DEF Heartbeat, CriticalTemperature
  <1>4. CASE ScanCompletes
    <2>1. mem'.phases = mem.phases /\ mem'.planned_reboot = mem.planned_reboot
          /\ disk' = disk
      BY <1>4, <1>o DEF ScanCompletes, State
    <2> QED
      BY <1>o, <2>1, InOrderStays
  <1>5. CASE OpenNew
    BY <1>5, NewRecord, NewInOrder
  <1>6. CASE OpenRunning
    <2>1. Save(Resumed(disk)) /\ disk \in State
      BY <1>6 DEF OpenRunning, TypeOK, RecordsOK
    <2>2. InOrder(Resumed(disk))
      BY <1>o, <2>1, ResumedRecord, InOrderStays
    <2> QED
      BY <1>s, <2>1, <2>2
  <1>7. CASE RecordPhase
    <2>1. CASE hit # NoPhase /\ reason \in {"unexpected", "restart"}
      <3>1. Save(SetPhase(mem, hit, HitStatus)) /\ hit \in Phases
        BY <1>7, <2>1 DEF RecordPhase, TypeOK, PlaceOK
      <3>2. mem.phases[hit] = "running"
        BY <1>7, <1>o, <2>1 DEF RecordPhase, Positioned
      <3>3. HitStatus = "pending" \/ HitStatus \notin {"pending", "running"}
        BY DEF HitStatus
      <3>4. InOrder(SetPhase(mem, hit, HitStatus))
        BY <1>o, <3>1, <3>2, <3>3, PostponingInOrder, SettlingInOrder
      <3> QED
        BY <1>s, <3>1, <3>4
    <2>2. CASE ~(hit # NoPhase /\ reason \in {"unexpected", "restart"})
      BY <1>7, <1>o, <2>2 DEF RecordPhase
    <2> QED
      BY <2>1, <2>2
  <1>8. CASE RequestAbort \/ RecordSave \/ PrepareReboot
    BY <1>8, <1>o, <1>s DEF RequestAbort, RecordSave, PrepareReboot
  <1>9. CASE StartDisks
    <2>1. CASE mem.disk_tests_finished
      BY <1>9, <1>o, <2>1 DEF StartDisks
    <2>2. CASE ~mem.disk_tests_finished
      <3>1. PICK x : Save([mem EXCEPT !.disk_scan = x])
        BY <1>9, <2>2 DEF StartDisks
      <3> DEFINE new == [mem EXCEPT !.disk_scan = x]
      <3>2. new.phases = mem.phases /\ new.planned_reboot = mem.planned_reboot
        BY <1>o DEF State
      <3>3. InOrder(new)
        <4> HIDE DEF new
        <4> QED
          BY <1>o, <3>2, InOrderStays
      <3> QED
        BY <1>s, <3>1, <3>3
    <2> QED
      BY <2>1, <2>2
  <1>10. CASE SkipPhase
    BY <1>10, <1>o, <1>s, SettlingInOrder DEF SkipPhase
  <1>11. CASE RecordError
    BY <1>11, <1>o, <1>s, SettlingInOrder DEF RecordError
  <1>12. CASE SettlePhase
    <2>1. PhaseResult(Name, abort, findings) \notin {"pending", "running"}
      BY DEF PhaseResult
    <2> QED
      BY <1>12, <1>o, <1>s, <2>1, SettlingInOrder DEF SettlePhase
  <1>13. CASE BeginPhase
    <2>1. /\ pc = "begin" /\ ret = "" /\ i <= Len(Plan) /\ PlaceOK
          /\ mem.phases[Name] = "pending" /\ Save(SetPhase(mem, Name, "running"))
          /\ mem.planned_reboot = 0
      BY <1>13, <1>o, <1>r DEF BeginPhase, Positioned, Placed, TypeOK
    <2>2. Name \in Phases
      BY <2>1, PhaseNames
    <2>3. \A q \in Phases : mem.phases[q] # "running"
      <3> SUFFICES ASSUME NEW q \in Phases, mem.phases[q] = "running" PROVE FALSE
        OBVIOUS
      <3>1. q = "powercycle"
        BY <1>o, <2>1 DEF Positioned, MayRun, Inside
      <3> QED
        BY <1>o, <2>1, <2>2, <3>1 DEF InOrder, Cycling
    <2>4. Name = "powercycle" =>
              \A q \in Phases \ {"powercycle"} : mem.phases[q] # "pending"
      BY <1>o, <2>1, PlanOrder
    <2>5. InOrder(SetPhase(mem, Name, "running"))
      BY <1>o, <2>1, <2>2, <2>3, <2>4, StartingInOrder
    <2> QED
      BY <1>s, <2>1, <2>5
  <1>14. CASE PostponePhase
    <2>1. Name = "powercycle" /\ Name \in Phases /\ Save(SetPhase(mem, Name, "pending"))
      BY <1>14, <1>o, PhaseSaves DEF PostponePhase, Positioned, PhaseSaved
    <2> QED
      BY <1>o, <1>s, <2>1, PostponingInOrder
  <1>15. CASE RequestReboot
    <2>1. /\ pc = "phase" /\ ret = "" /\ i <= Len(Plan) /\ PlaceOK
          /\ Name = "powercycle"
      BY <1>15 DEF RequestReboot, Placed, TypeOK
    <2>2. \A q \in Phases \ {"powercycle"} : mem.phases[q] \notin {"pending", "running"}
      BY <1>o, <2>1, PlanOrder DEF Positioned, MayRun, Inside
    <2>3. mem'.phases = mem.phases /\ Wrote
      BY <1>15, RequestRecord
    <2>4. InOrder(mem')
      BY <1>o, <2>2, <2>3 DEF InOrder
    <2> QED
      BY <1>o, <2>3, <2>4 DEF Wrote
  <1>16. CASE DisksFinished
    <2> DEFINE new == [mem EXCEPT !.disk_tests_finished = TRUE]
    <2>1. Save(new)
      BY <1>16 DEF DisksFinished
    <2>2. new.phases = mem.phases /\ new.planned_reboot = mem.planned_reboot
      BY <1>o DEF State
    <2>3. InOrder(new)
      <3> HIDE DEF new
      <3> QED
        BY <1>o, <2>2, InOrderStays
    <2> QED
      BY <1>s, <2>1, <2>3
  <1>17. CASE Finish
    <2>1. /\ mem'.phases = mem.phases /\ mem'.planned_reboot = mem.planned_reboot
          /\ Wrote
      BY <1>17, FinishRecord
    <2>2. InOrder(mem')
      BY <1>o, <2>1, InOrderStays
    <2> QED
      BY <1>o, <2>1, <2>2 DEF Wrote
  <1>18. CASE Boot \/ ServiceRestart \/ HardwareFinding \/ RecordFinding
    BY <1>18, <1>o DEF Boot, ServiceRestart, HardwareFinding, RecordFinding
  <1>19. CASE ResumeDisks \/ PassOver \/ LeaveLoop \/ EnterPhase
    BY <1>19, <1>o DEF ResumeDisks, PassOver, LeaveLoop, EnterPhase
  <1>20. CASE InventoryCollected \/ PhaseCompletes \/ PhaseCutShort
              \/ PhaseAborted \/ PhaseRaises \/ SkipCycles \/ CyclesDone
    BY <1>20, <1>o
       DEF InventoryCollected, PhaseCompletes, PhaseCutShort, PhaseAborted,
           PhaseRaises, SkipCycles, CyclesDone
  <1>21. CASE StopDisks \/ Finalize \/ FinalSamples \/ WriteReports \/ AppendIndex
    BY <1>21, <1>o DEF StopDisks, Finalize, FinalSamples, WriteReports, AppendIndex
  <1>22. CASE ServeResult \/ UNCHANGED vars
    BY <1>22, <1>o DEF ServeResult, vars
  <1> QED
    BY <1>1, <1>2, <1>3, <1>4, <1>5, <1>6, <1>7, <1>8, <1>9, <1>10, <1>11,
       <1>12, <1>13, <1>14, <1>15, <1>16, <1>17, <1>18, <1>19, <1>20, <1>21,
       <1>22
       DEF Next, MainThread, Environment

-----------------------------------------------------------------------------
(* The invariant *)

JInv ==
    /\ AInv
    /\ DisksSettled
    /\ Ordered
    /\ Announcing
    /\ Counted
    /\ Saved
    /\ ResetsCounted
    /\ Once
    /\ Noticed
    /\ PassHidesNoInterruption

LEMMA JInvInit == Init => JInv
  <1> SUFFICES ASSUME Init PROVE JInv
    OBVIOUS
  <1>n. TypeOK
    BY TypeInit
  <1>w. pc \notin Alive /\ pc \notin Closing
    BY DEF Init, Alive, Watching, Closing
  <1>1. DisksSettled
    BY <1>w, NewSessions DEF Init, DisksSettled
  <1>2. Ordered
    <2>1. \A k \in 1..Len(Plan) : ~(k < 1)
      BY PlanFacts, Positions
    <2> QED
      BY <2>1, NewSessions, NewInOrder DEF Init, Ordered, Positioned
  <1>f. /\ left.save_fails = MaxSaveFails /\ left.resets = MaxResets
        /\ mem = NoSession /\ disk = NoSession /\ reboot_request = 0 /\ reboots = 0
        /\ pc = "start"
    BY DEF Init
  <1>m. MaxSaveFails \in Nat /\ MaxResets \in Nat /\ RebootCycles \in Nat
    BY <1>n, Numbers
  <1>3. Announcing
    BY <1>f, <1>m, <1>w, NewSessions DEF Announcing, OnStick
  <1>4. Counted
    BY <1>f, <1>m, <1>w, NewSessions DEF Counted
  <1>5. Saved /\ ResetsCounted /\ Noticed /\ PassHidesNoInterruption
    BY <1>w, NewSessions
       DEF Init, Saved, ResetsCounted, Noticed, PassHidesNoInterruption
  <1>6. Once
    <2>1. \A p \in Stress : starts[p] = 0
      BY DEF Init, Stress
    <2> QED
      BY <2>1 DEF Once
  <1> QED
    BY <1>1, <1>2, <1>3, <1>4, <1>5, <1>6, AInvInit DEF JInv

LEMMA JInvNext == JInv /\ [Next]_vars => JInv'
  <1> SUFFICES ASSUME JInv, [Next]_vars PROVE JInv'
    OBVIOUS
  <1>1. AInv' /\ TypeOK /\ Placed /\ Closed /\ TypeOK'
    BY AInvNext DEF JInv, AInv
  <1>2. Ordered /\ Positioned /\ Announcing
    BY DEF JInv, Ordered
  <1>3. DisksSettled'
    BY <1>1, <1>2, DisksSettledNext DEF JInv
  <1>4. Ordered'
    BY <1>1, <1>2, InOrderNext, PositionedNext DEF Ordered
  <1>5. Announcing' /\ Counted' /\ Saved'
    BY <1>1, <1>2, AnnouncingNext, CountedNext, SavedNext DEF JInv
  <1>6. ResetsCounted' /\ Once'
    BY <1>1, <1>2, ResetsCountedNext, OnceNext DEF JInv
  <1>7. Noticed' /\ PassHidesNoInterruption'
    BY <1>1, <1>2, NoticedNext, PassNext DEF JInv
  <1> QED
    BY <1>1, <1>3, <1>4, <1>5, <1>6, <1>7 DEF JInv

\* The invariant the theorems below rest on: what Session.state on the stick
\* and in memory say of each other wherever the main thread may be hit.
THEOREM Invariant == Spec => []JInv
  BY JInvInit, JInvNext, PTL DEF Spec

\* run_phases announces a reboot only when the disk tests are over and no scan
\* runs, whatever saves fail and however often the session is interrupted.
THEOREM DisksEnd == Spec => []DisksEndBeforeReboot
  <1>1. JInv => DisksEndBeforeReboot
    BY DEF JInv, DisksSettled, DisksEndBeforeReboot
  <1> QED
    BY <1>1, Invariant, PTL

\* No record on the stick holds two running phases, so what _resume picks as
\* the phase that was hit is the phase that was hit.
THEOREM OneRuns == Spec => []OneRunningPhase
  <1>1. JInv => OneRunningPhase
    BY DEF JInv, Ordered, InOrder, OneRunningPhase
  <1> QED
    BY <1>1, Invariant, PTL

\* With at most two failing saves _resume counts no reset that did not happen:
\* of the three saves that announce a reboot one reaches the stick.
THEOREM PlannedIsNoCrash == Spec => [](Failed(2) => PlannedRebootIsNoCrash)
  <1>1. JInv => (Failed(2) => PlannedRebootIsNoCrash)
    <2> SUFFICES ASSUME JInv, Failed(2) PROVE PlannedRebootIsNoCrash
      OBVIOUS
    <2>1. mem.unexpected_reboots + left.resets <= MaxResets
      BY DEF JInv, Counted
    <2>2. /\ mem.unexpected_reboots \in Nat /\ left.resets \in Nat
          /\ MaxResets \in Nat
      BY Numbers DEF JInv, AInv
    <2> QED
      BY <2>1, <2>2 DEF PlannedRebootIsNoCrash
  <1> QED
    BY <1>1, Invariant, PTL

\* With at most two failing saves PowerCyclePhase reboots the machine no more
\* than reboot_cycles times, however often it is interrupted on the way.
THEOREM RebootsBounded == Spec => [](Failed(2) => RebootBudget)
  <1>1. JInv => (Failed(2) => RebootBudget)
    BY DEF JInv, Counted, RebootBudget
  <1> QED
    BY <1>1, Invariant, PTL

\* run_phases starts no stress phase twice in a session, as long as saves work.
THEOREM RunsOnce == Spec => []StressRunsOnce
  <1>1. JInv => StressRunsOnce
    BY DEF JInv, Once, StressRunsOnce, Stress
  <1> QED
    BY <1>1, Invariant, PTL

\* A plain PASS is never given to a session that a reset or a death of the
\* program broke into: record_incident has always left a finding by then.
THEOREM PassIsUninterrupted == Spec => []PassHidesNoInterruption
  <1>1. JInv => PassHidesNoInterruption
    BY DEF JInv
  <1> QED
    BY <1>1, Invariant, PTL

\* After max_unexpected_reboots resets run_phases starts no further phase.
THEOREM NothingAfterTooManyResets == Spec => NoPhaseAfterTooManyResets
  <1>1. JInv /\ JInv' /\ [Next]_vars =>
          [AllSaved /\ resets >= MaxUnexpected => starts' = starts \/ pc = "start"]_vars
    BY NoPhaseAfterTooManyResetsNext DEF JInv, AInv, Ordered
  <1> QED
    BY <1>1, Invariant, PTL DEF Spec, NoPhaseAfterTooManyResets
=============================================================================
