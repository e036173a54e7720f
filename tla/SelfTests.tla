----------------------------- MODULE SelfTests -----------------------------
(***************************************************************************)
(* The SMART side of DiskManager (disks.py): the baseline read in the      *)
(* inventory, the self-tests started there, and the comparison made after  *)
(* the stress phases and again after the planned reboots.  The records are *)
(* kept in the session under the name of the device.  The program may die, *)
(* the machine may be reset or rebooted, and a boot may give the drives    *)
(* other names.                                                            *)
(*                                                                         *)
(* A drive is its counter of defects, the newest entry of its self-test    *)
(* log and the test it is busy with.  A finding is on the stick once it is *)
(* added; the records are there once the session is saved.                 *)
(***************************************************************************)
EXTENDS Naturals, FiniteSets, Functions

CONSTANTS
    Names,        \* device names: the keys of baselines and selftests
    Drives,       \* the drives behind them
    Anonymous,    \* those whose SMART data has no serial number
    MaxStarts,    \* bounds: starts of the program, on the same boot or another,
    MaxDefects,   \*   a drive's counter,
    MaxHours      \*   and hours of operation

ASSUME SelfTestsAssumption ==
    /\ IsFiniteSet(Drives) /\ Anonymous \subseteq Drives
    /\ Cardinality(Names) <= Cardinality(Drives)
    /\ MaxStarts \in Nat \ {0} /\ MaxDefects \in Nat /\ MaxHours \in Nat

VARIABLES
    at,         \* the drive behind each name on this boot
    drive,      \* what each drive would tell
    boot,       \* boot_id
    starts,     \* starts of the program so far
    pc,         \* where the main thread is
    todo,       \* devices its loop has still to visit
    memory,     \* the session's state in memory: see Records
    stick,      \* and as last saved
    findings,   \* <<severity, what, name>>
    (* history *)
    grown,      \* baselines whose drive has counted more defects since
    told,       \* those that had when they were last compared
    fresh,      \* baselines whose drive has passed a test since
    mixed       \* baselines without a serial number that another drive met

vars == <<at, drive, boot, starts, pc, todo, memory, stick, findings, grown, told, fresh, mixed>>

\* A drive may also come up under a name that is not looked at.
Namings == Injection(Names, Drives)

\* A log entry shows the hour and the outcome: two tests of one hour look alike.
Entries == [hour : 0..MaxHours, outcome : {"none", "passed", "failed", "cut"}]

Smart == [defects : 0..MaxDefects, entry : Entries, testing : BOOLEAN]

NoBase == [drive |-> "none"]
NoTest == [started |-> FALSE, boot |-> 0, observed |-> FALSE, complete |-> FALSE]

Records == [base : [Names -> {NoBase} \cup [drive : Drives, defects : 0..MaxDefects, entry : Entries]],
            test : [Names -> [started : BOOLEAN, boot : 0..MaxStarts, observed : BOOLEAN,
                              complete : BOOLEAN]],
            inventoried : BOOLEAN,   \* the inventory phase is done
            finished : BOOLEAN]      \* disk_tests_finished

Init ==
    /\ at \in Namings
    /\ drive \in [Drives -> {s \in Smart : s.entry.hour = 0 /\ s.entry.outcome \in {"none", "passed"}}]
    /\ boot = 1 /\ starts = 1 /\ pc = "baseline" /\ todo = Names
    /\ memory = [base |-> [n \in Names |-> NoBase], test |-> [n \in Names |-> NoTest],
                 inventoried |-> FALSE, finished |-> FALSE]
    /\ stick = memory /\ findings = {}
    /\ grown = {} /\ told = {} /\ fresh = {} /\ mixed = {}

Based == {n \in Names : memory.base[n] # NoBase}
Of(d) == {n \in Based : memory.base[n].drive = d}

\* The devices are visited in one order.
FirstOf(S) == CHOOSE n \in S : TRUE

-----------------------------------------------------------------------------
(* The drives.                                                              *)

Grow(d) ==
    /\ drive[d].defects < MaxDefects
    /\ drive' = [drive EXCEPT ![d].defects = @ + 1]
    /\ grown' = grown \cup Of(d)
    /\ UNCHANGED <<at, boot, starts, pc, todo, memory, stick, findings, told, fresh, mixed>>

\* A test ends and is logged, in the hour of the previous one or a later one.
EndTest(d, hour, outcome) ==
    /\ drive[d].testing /\ hour >= drive[d].entry.hour
    /\ drive' = [drive EXCEPT ![d].testing = FALSE, ![d].entry = [hour |-> hour, outcome |-> outcome]]
    /\ fresh' = IF outcome = "passed" THEN fresh \cup Of(d) ELSE fresh
    /\ UNCHANGED <<at, boot, starts, pc, todo, memory, stick, findings, grown, told, mixed>>

-----------------------------------------------------------------------------
(* The inventory: smart_baseline and start_selftests.                       *)

\* smart_baseline keeps what an earlier start recorded under that name.
ReadBaseline(n) ==
    LET d == at[n]
    IN  /\ pc = "baseline" /\ todo # {} /\ n = FirstOf(todo) /\ todo' = todo \ {n}
        /\ \/ /\ findings' = findings \cup {<<"gap", "coverage", n>>}
              /\ UNCHANGED <<memory, grown, fresh>>
           \/ /\ memory.base[n] # NoBase
              /\ UNCHANGED <<memory, findings, grown, fresh>>
           \/ /\ memory.base[n] = NoBase
              /\ memory' = [memory EXCEPT !.base[n] =
                     [drive |-> d, defects |-> drive[d].defects, entry |-> drive[d].entry]]
              /\ grown' = grown \ {n}
              /\ fresh' = fresh \ {n}
              /\ UNCHANGED findings
        /\ UNCHANGED <<at, drive, boot, starts, pc, stick, told, mixed>>

\* Mutant of EndBaseline: tests are started on drives without a baseline.
EndBaselineAll ==
    /\ pc = "baseline" /\ todo = {}
    /\ stick' = memory /\ pc' = "start" /\ todo' = Names
    /\ UNCHANGED <<at, drive, boot, starts, memory, findings, grown, told, fresh, mixed>>

EndBaseline ==
    /\ pc = "baseline" /\ todo = {}
    /\ stick' = memory /\ pc' = "start" /\ todo' = Based
    /\ UNCHANGED <<at, drive, boot, starts, memory, findings, grown, told, fresh, mixed>>

\* smartctl -t: a drive that is busy with a test, or has none, refuses.
StartSelfTest(n) ==
    /\ pc = "start" /\ todo # {} /\ n = FirstOf(todo) /\ todo' = todo \ {n}
    /\ \/ /\ ~drive[at[n]].testing
          /\ drive' = [drive EXCEPT ![at[n]].testing = TRUE]
          /\ memory' = [memory EXCEPT !.test[n] = [NoTest EXCEPT !.started = TRUE, !.boot = boot]]
          /\ UNCHANGED findings
       \/ /\ memory' = [memory EXCEPT !.test[n] = [NoTest EXCEPT !.boot = boot]]
          /\ findings' = findings \cup {<<"gap", "coverage", n>>}
          /\ UNCHANGED drive
    /\ UNCHANGED <<at, boot, starts, pc, stick, grown, told, fresh, mixed>>

\* The save of start_selftests (Heartbeat's may stand for it), then run_phases'
\* save of the phase as done.
EndStart ==
    /\ pc = "start" /\ todo = {}
    /\ memory' = [memory EXCEPT !.inventoried = TRUE]
    /\ stick' = memory' /\ pc' = "stress"
    /\ UNCHANGED <<at, drive, boot, starts, todo, findings, grown, told, fresh, mixed>>

-----------------------------------------------------------------------------
(* smart_final, after the stress phases and after the planned reboots.      *)

\* The wait for the tests (of no length after an abort, and the second time).
BeginFinal ==
    /\ pc \in {"stress", "cycled"}
    /\ pc' = (IF memory.finished THEN "compare" ELSE "wait") /\ todo' = Based
    /\ UNCHANGED <<at, drive, boot, starts, memory, stick, findings, grown, told, fresh, mixed>>

Observe(n) ==
    /\ pc = "wait" /\ n \in todo
    /\ \/ /\ drive[at[n]].testing
          /\ memory' = [memory EXCEPT !.test[n].observed = TRUE] /\ UNCHANGED todo
       \/ ~drive[at[n]].testing /\ todo' = todo \ {n} /\ UNCHANGED memory
    /\ UNCHANGED <<at, drive, boot, starts, pc, stick, findings, grown, told, fresh, mixed>>

\* All have ended, or the time is over.
EndWait ==
    /\ pc = "wait" /\ pc' = "compare" /\ todo' = Based
    /\ UNCHANGED <<at, drive, boot, starts, memory, stick, findings, grown, told, fresh, mixed>>

\* Mutant of Completed: a test seen running counts on any boot.
CompletedAnyBoot(n, s) ==
    LET t == memory.test[n]
    IN  /\ t.started /\ s.entry.outcome = "passed" /\ ~s.testing
        /\ s.entry # memory.base[n].entry \/ t.observed

\* "A historical successful test is not this run's success."
Completed(n, s) ==
    LET t == memory.test[n]
    IN  /\ t.started /\ s.entry.outcome = "passed" /\ ~s.testing
        /\ s.entry # memory.base[n].entry \/ (t.observed /\ t.boot = boot)

If(condition, finding) == IF condition THEN {finding} ELSE {}

\* The baseline's serial number, if it has one, is that of d.
Identified(b, d) == b.drive = d \/ b.drive \in Anonymous

\* evaluate_smart of s against the metrics of the baseline, and the self-test.
Judged(n, s) == If(s.defects > memory.base[n].defects, <<"fail", "grew", n>>)
                \cup If(s.entry.outcome = "failed", <<"fail", "selftest", n>>)
                \cup If(~Completed(n, s), <<"gap", "coverage", n>>)

\* Mutant of Compare: the serial number is not looked at.
CompareUnidentified(n) ==
    LET d == at[n]
        b == memory.base[n]
    IN  /\ pc = "compare" /\ todo # {} /\ n = FirstOf(todo) /\ todo' = todo \ {n}
        /\ memory' = [memory EXCEPT !.test[n].complete = Completed(n, drive[d])]
        /\ findings' = findings \cup Judged(n, drive[d])
        /\ told' = (told \ {n}) \cup (grown \cap {n})
        /\ mixed' = mixed \cup If(b.drive # d /\ b.drive \in Anonymous, n)
        /\ UNCHANGED <<at, drive, boot, starts, pc, stick, grown, fresh>>

\* A drive without a serial number is taken for the one that had its name.
Compare(n) ==
    LET d == at[n]
        b == memory.base[n]
    IN  /\ pc = "compare" /\ todo # {} /\ n = FirstOf(todo) /\ todo' = todo \ {n}
        /\ memory' = [memory EXCEPT !.test[n].complete = Completed(n, drive[d])]
        /\ findings' = findings \cup If(~Identified(b, d), <<"gap", "identity", n>>)
                                \cup Judged(n, drive[d])
        /\ told' = (told \ {n}) \cup (grown \cap {n})
        /\ mixed' = mixed \cup If(b.drive # d /\ Identified(b, d), n)
        /\ UNCHANGED <<at, drive, boot, starts, pc, stick, grown, fresh>>

\* smartctl tells nothing: a gap of both kinds, and no metrics to compare.
CompareNothing(n) ==
    /\ pc = "compare" /\ todo # {} /\ n = FirstOf(todo) /\ todo' = todo \ {n}
    /\ memory' = [memory EXCEPT !.test[n].complete = FALSE]
    /\ findings' = findings \cup {<<"gap", "identity", n>>, <<"gap", "coverage", n>>}
    /\ UNCHANGED <<at, drive, boot, starts, pc, stick, grown, told, fresh, mixed>>

\* The save of smart_final; the first time, disk_tests_finished is another one.
EndFinal ==
    /\ pc = "compare" /\ todo = {}
    /\ \/ /\ memory.finished /\ stick' = memory /\ pc' = "over" /\ UNCHANGED memory
       \/ /\ ~memory.finished
          /\ memory' = [memory EXCEPT !.finished = TRUE] /\ stick' = memory'
          /\ pc' \in {"over", "cycled"}
    /\ UNCHANGED <<at, drive, boot, starts, todo, findings, grown, told, fresh, mixed>>

-----------------------------------------------------------------------------
(* Saves by other threads, starts and boots.                                *)

Heartbeat ==
    /\ pc # "over" /\ stick # memory /\ stick' = memory
    /\ UNCHANGED <<at, drive, boot, starts, pc, todo, memory, findings, grown, told, fresh, mixed>>

\* The next start goes on from what the stick holds.
Resume ==
    /\ memory' = stick /\ todo' = IF stick.inventoried THEN {} ELSE Names
    /\ pc' = IF ~stick.inventoried THEN "baseline" ELSE IF stick.finished THEN "cycled" ELSE "stress"

Die ==
    /\ pc # "over" /\ starts < MaxStarts /\ starts' = starts + 1
    /\ Resume
    /\ UNCHANGED <<at, drive, boot, stick, findings, grown, told, fresh, mixed>>

(* A reset, or a planned reboot ("cycled").  A test may survive it, be       *)
(* logged as interrupted, or vanish; the drives may get other names.         *)
Reboot ==
    /\ pc # "over" /\ starts < MaxStarts /\ starts' = starts + 1 /\ boot' = boot + 1
    /\ at' \in Namings
    /\ \E cut \in SUBSET {d \in Drives : drive[d].testing}, logged \in BOOLEAN :
          drive' = [d \in Drives |->
              IF d \notin cut THEN drive[d]
              ELSE [drive[d] EXCEPT !.testing = FALSE, !.entry.outcome = IF logged THEN "cut" ELSE @]]
    /\ Resume
    /\ UNCHANGED <<stick, findings, grown, told, fresh, mixed>>

Next ==
    \/ \E d \in Drives : Grow(d) \/ \E h \in 0..MaxHours, o \in {"passed", "failed"} : EndTest(d, h, o)
    \/ \E n \in Names : ReadBaseline(n) \/ StartSelfTest(n) \/ Observe(n) \/ Compare(n)
                         \/ CompareNothing(n)
    \/ EndBaseline \/ EndStart \/ BeginFinal \/ EndWait \/ EndFinal
    \/ Heartbeat \/ Die \/ Reboot

Spec == Init /\ [][Next]_vars

-----------------------------------------------------------------------------
(* Properties.                                                              *)

\* The variables hold what the code can hold, and only what was read is judged.
TypeOK ==
    /\ at \in Namings /\ drive \in [Drives -> Smart]
    /\ boot \in 1..starts /\ starts \in 1..MaxStarts
    /\ pc \in {"baseline", "start", "stress", "wait", "compare", "cycled", "over"}
    /\ todo \subseteq Names /\ {grown, told, fresh, mixed} \subseteq SUBSET Names
    /\ memory \in Records /\ stick \in Records
    /\ findings \subseteq {"fail", "gap"} \X
          {"coverage", "identity", "grew", "selftest"} \X Names
    /\ \A n \in Names : memory.test[n].started => n \in Based

(* A self-test counts as completed only if the drive whose baseline was read *)
(* has passed one since then: not an old log entry, not a test that a reset  *)
(* cut short, and not that of another drive that got its name, unless the    *)
(* change of identity is reported (smart_final).  The code cannot see that   *)
(* change when the baseline has no serial number: then the names that got    *)
(* another drive (mixed) are left out.                                       *)
CreditIsEarned ==
    \A n \in Names :
        memory.test[n].complete =>
            n \in fresh \/ <<"gap", "identity", n>> \in findings \/ n \in mixed

(* A run that ends without a failure or a gap about a drive has compared     *)
(* every drive with its own baseline, found it as it was, and seen it pass;  *)
(* again but for the names where a drive without a serial number was         *)
(* silently compared with another one.                                       *)
SilentRunTestedEveryDrive ==
    pc = "over" /\ findings = {} =>
        \A n \in Names \ mixed : n \in fresh \ told

(* disks.py:155, "increased during the test ({prev} -> {value})": such a     *)
(* failure is about a drive whose counter has grown.                         *)
GrowthIsReal ==
    \A n \in Names :
        <<"fail", "grew", n>> \in findings => grown # {}
=============================================================================
