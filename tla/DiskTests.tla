----------------------------- MODULE DiskTests -----------------------------
(***************************************************************************)
(* The background disk tests of disks.py: surface scans (threads), write   *)
(* and verify passes (fio processes), the confirmation of the destructive  *)
(* ones, the heartbeat that persists their progress, and DiskManager.stop. *)
(* The program may die at any point; the next one continues from the       *)
(* disk_scans entries on the stick.                                        *)
(*                                                                         *)
(* A disk has Size chunks.  Any save of the session may fail (an OSError   *)
(* that is logged); a finding is on the stick once it is added.            *)
(***************************************************************************)
EXTENDS Naturals

CONSTANTS
    Disks,           \* block_disks
    Eligible,        \* those destructive_candidates may accept
    Size,            \* chunks of a disk
    MaxReadErrors,   \* MAX_READ_ERRORS
    BadSets,         \* bounds: sets of unreadable chunks that may occur,
    MaxDeaths        \*   deaths of the program

ASSUME DisksAssumption ==
    /\ Eligible \subseteq Disks
    /\ Size \in Nat \ {0} /\ MaxReadErrors \in Nat \ {0}
    /\ BadSets \subseteq SUBSET (Disks \X (0..(Size - 1))) /\ MaxDeaths \in Nat

VARIABLES
    (* on the stick *)
    saved,      \* disk_scans entries
    kept,       \* destructive_disks: "unasked", "none" or "chosen"
    ended,      \* disk_tests_finished
    findings,   \* what was recorded about each disk
    (* in the memory of the program *)
    main,       \* where the main thread is
    victim,     \* the disk whose writer stop is terminating
    entry,      \* DiskManager.state
    choice,     \* destructive_disks of the session's state
    scan,       \* the SurfaceScan of each disk on this start
    writer,     \* the WriteVerify of each disk on this start
    stopping,   \* stop_event
    paused,     \* running_event is clear
    pending,    \* Context.pending_confirmation is not None
    cancel,     \* and its event is set
    (* environment *)
    bad,        \* chunks that cannot be read or written
    left,       \* deaths still to come
    (* history of the session *)
    tried,      \* chunks a scan has read or failed to read
    verified,   \* disks fio has written and verified to their end
    struck,     \* the program died while the stick called a test done too early
    failing     \* the last save of this program has failed

record == <<saved, kept, ended, failing>>
stick  == <<record, findings>>
asking == <<pending, cancel>>
flags  == <<stopping, paused, pending, cancel>>
world  == <<bad, left, tried, verified, struck>>
vars   == <<stick, main, victim, entry, choice, scan, writer, flags, world>>

NoDisk == "no disk"

Entry == [mode : {"none", "read", "write"}, offset : 0..Size,
          done : BOOLEAN, incomplete : BOOLEAN]

NoEntry == [mode |-> "none", offset |-> 0, done |-> FALSE, incomplete |-> FALSE]

Scan == [at : {"none", "open", "loop", "wait", "report", "over"},
         offset : 0..Size, errors : 0..MaxReadErrors, done : BOOLEAN,
         aborted : BOOLEAN]

NoScan == [at |-> "none", offset |-> 0, errors |-> 0, done |-> FALSE,
           aborted |-> FALSE]

\* proc: what poll() would say of the fio process.
Writer == [proc : {"none", "running", "ok", "bad", "killed"}, done : BOOLEAN]

NoWriter == [proc |-> "none", done |-> FALSE]

Finding == {"read errors", "cannot open", "write failed", "refused",
            "write unfinished", "scan partial"} \X Disks

-----------------------------------------------------------------------------
(* The start of the program *)

Init ==
    /\ saved = [d \in Disks |-> NoEntry] /\ entry = saved
    /\ kept = "unasked" /\ choice = kept /\ ended = FALSE /\ findings = {}
    /\ main = "start" /\ victim = NoDisk
    /\ scan = [d \in Disks |-> NoScan] /\ writer = [d \in Disks |-> NoWriter]
    /\ stopping = FALSE /\ paused = FALSE
    /\ pending = FALSE /\ cancel = FALSE
    /\ bad \in BadSets
    /\ left = MaxDeaths
    /\ tried = {} /\ verified = {} /\ struck = FALSE /\ failing = FALSE

Stopping == {"join", "writers", "kill", "mark", "final"}

\* stop has terminated the writer of d and set done; the mark is to come.
Marking(d) == main = "mark" /\ victim = d

(* The stick calls the test of d done, ahead of what goes with it: the       *)
(* findings of a scan that is over, the mark of a writer that was stopped.   *)
DoneTooEarly(d) ==
    saved[d].done /\ \/ scan[d].at = "report"
                     \/ ~saved[d].incomplete /\ (Marking(d) \/ entry[d].incomplete)

\* A reset, or a death of the program with its threads and fio.  The next
\* one starts from what is on the stick.
Die ==
    /\ left > 0
    /\ left' = left - 1
    /\ main' = (IF ended THEN "finished" ELSE "start") /\ victim' = NoDisk
    /\ entry' = saved /\ choice' = kept
    /\ scan' = [d \in Disks |-> NoScan] /\ writer' = [d \in Disks |-> NoWriter]
    /\ stopping' = FALSE /\ paused' = FALSE
    /\ pending' = FALSE /\ cancel' = FALSE
    /\ struck' = (struck \/ \E d \in Disks : DoneTooEarly(d))
    /\ failing' = FALSE
    /\ UNCHANGED <<saved, kept, ended, findings, bad, tried, verified>>

-----------------------------------------------------------------------------
(* start_disk_tests: the question, then start_scans *)

\* The disks that are not eligible are a gap.
Ask ==
    /\ main = "start" /\ choice = "unasked" /\ Eligible # {}
    /\ main' = "ask wait"
    /\ pending' = TRUE /\ cancel' = FALSE
    /\ findings' = findings \cup ({"refused"} \X (Disks \ Eligible))
    /\ UNCHANGED <<record, victim, choice, entry, scan, writer, stopping,
                   paused, world>>

\* wait(1) returned without an answer.
AskTick ==
    /\ main = "ask wait" /\ ~cancel
    /\ main' = "ask check"
    /\ UNCHANGED <<stick, victim, choice, entry, scan, writer, flags, world>>

\* The countdown is not over.
AskAgain ==
    /\ main = "ask check"
    /\ main' = "ask wait"
    /\ UNCHANGED <<stick, victim, choice, entry, scan, writer, flags, world>>

(* Session.save writes the whole record, or logs the error and returns: no   *)
(* caller learns of it.                                                      *)
Save ==
    \/ /\ saved' = entry' /\ kept' = choice' /\ ended' = (main' = "finished")
       /\ failing' = FALSE
    \/ failing' = TRUE /\ UNCHANGED <<saved, kept, ended>>

\* Mutant of Choose: the answer is not saved before the scans start.
ChooseUnsaved(answer, skipped) ==
    /\ main' = "scan"
    /\ pending' = FALSE /\ cancel' = FALSE
    /\ choice' = answer
    /\ findings' = findings \cup ({"refused"} \X skipped)
    /\ UNCHANGED <<record, victim, entry, scan, writer, stopping, paused,
                   world>>

\* session.update(destructive_disks=...), with a gap for each skipped disk.
Choose(answer, skipped) ==
    /\ main' = "scan"
    /\ pending' = FALSE /\ cancel' = FALSE
    /\ choice' = answer
    /\ findings' = findings \cup ({"refused"} \X skipped)
    /\ UNCHANGED <<victim, entry, scan, writer, stopping, paused, world>>
    /\ Save

\* The test is not destructive, or the safety discovery skips all disks.
NothingToAsk ==
    /\ main = "start" /\ choice = "unasked"
    /\ \E skipped \in {{}, Disks} : Choose("none", skipped)

AskCancelled == main = "ask wait" /\ cancel /\ Choose("none", {})

\* The countdown is over; abort_event makes it a no.
AskOver ==
    /\ main = "ask check"
    /\ \E answer \in {"none", "chosen"} : Choose(answer, {})

\* A resumed session has its answer.
AlreadyAsked ==
    /\ main = "start" /\ choice # "unasked"
    /\ main' = "scan"
    /\ UNCHANGED <<stick, victim, choice, entry, scan, writer, flags, world>>

\* KeyReader: "n" sets the event while there is one.
KeyRefuses ==
    /\ pending
    /\ cancel' = TRUE
    /\ UNCHANGED <<stick, main, victim, choice, entry, scan, writer, stopping,
                   paused, pending, world>>

\* The entry of a disk is made once and keeps its mode.
Opened(d) ==
    IF entry[d].mode # "none" THEN entry[d]
    ELSE [NoEntry EXCEPT !.mode = IF choice = "chosen" /\ d \in Eligible
                                  THEN "write" ELSE "read"]

\* start_scans goes through the disks that are not done.  The safety checks
\* are made again and may refuse a disk that was accepted before.
StartScans ==
    /\ main = "scan"
    /\ entry' = [d \in Disks |-> Opened(d)]
    /\ LET todo    == {d \in Disks : ~Opened(d).done}
           writers == {d \in todo : Opened(d).mode = "write"}
       IN \E unsafe \in SUBSET writers :
          /\ findings' = findings \cup ({"refused"} \X unsafe)
          /\ writer' = [d \in Disks |->
                          IF d \in writers \ unsafe
                          THEN [NoWriter EXCEPT !.proc = "running"] ELSE NoWriter]
          /\ scan' = [d \in Disks |->
                          IF d \in todo \ writers
                          THEN [NoScan EXCEPT !.at = "open",
                                              !.offset = entry[d].offset]
                          ELSE NoScan]
    /\ main' = "scan save"
    /\ UNCHANGED <<record, choice, victim, flags, world>>

ScansStarted ==
    /\ main = "scan save"
    /\ main' = "run"
    /\ UNCHANGED <<findings, victim, entry, choice, scan, writer, flags, world>>
    /\ Save

-----------------------------------------------------------------------------
(* Progress *)

Exited(w) == w.proc \in {"ok", "bad", "killed"}

\* WriteVerify.finished notices that fio has exited; anything but success is
\* taken for a failure of the disk.
Noticed == {d \in Disks : Exited(writer[d]) /\ ~writer[d].done}

Finished(ds) ==
    [d \in Disks |-> [writer[d] EXCEPT !.done = @ \/ d \in ds]]

Failures(ds) == {"write failed"} \X {d \in ds : writer[d].proc # "ok"}

\* What save_progress makes of the entries, given the writers it has asked.
Progress(ws, scans) ==
    [d \in Disks |->
        IF scans[d].at # "none"
        THEN [entry[d] EXCEPT !.offset = scans[d].offset, !.done = scans[d].done]
        ELSE IF ws[d].proc # "none"
        THEN [entry[d] EXCEPT !.done = ws[d].done /\ ~entry[d].incomplete]
        ELSE entry[d]]

\* save_progress, with the findings of its caller.
SaveProgress(fs, scans) ==
    /\ writer' = Finished(Noticed)
    /\ scan' = scans
    /\ entry' = Progress(writer', scans)
    /\ findings' = findings \cup fs \cup Failures(Noticed)

\* Heartbeat.poll: save_progress and session.update.
Heartbeat ==
    /\ SaveProgress({}, scan)
    /\ UNCHANGED <<choice, main, victim, flags, world>>
    /\ Save

\* A save of another monitor, of an abort, of smart_final: no progress with it.
OtherSave ==
    /\ UNCHANGED <<findings, entry, choice, main, victim, scan, writer, flags, world>>
    /\ Save

\* fio comes to its end, or meets a bad chunk.
WriterExits(d) ==
    /\ writer[d].proc = "running" /\ ~paused
    /\ IF \E c \in 0..(Size - 1) : <<d, c>> \in bad
       THEN /\ writer' = [writer EXCEPT ![d].proc = "bad"]
            /\ UNCHANGED verified
       ELSE /\ writer' = [writer EXCEPT ![d].proc = "ok"]
            /\ verified' = verified \cup {d}
    /\ UNCHANGED <<stick, main, victim, choice, entry, scan, flags, bad, left,
                   tried, struck>>

Becomes(d, s) == scan' = [scan EXCEPT ![d] = s]

RestOfScan == <<record, main, victim, entry, choice, writer, flags, bad,
                left, verified, struck>>

ScanOpens(d) ==
    /\ scan[d].at = "open"
    /\ Becomes(d, [scan[d] EXCEPT !.at = "loop"])
    /\ UNCHANGED <<RestOfScan, findings, tried>>

\* The device of a bad disk may not even open; nothing more is reported.
ScanCannotOpen(d) ==
    /\ scan[d].at = "open"
    /\ \E t \in bad : t[1] = d
    /\ Becomes(d, [scan[d] EXCEPT !.at = "over", !.done = TRUE])
    /\ findings' = findings \cup {<<"cannot open", d>>}
    /\ UNCHANGED <<RestOfScan, tried>>

\* Mutant of ScanGoesOn: one chunk too many.
ScanGoesOnTooFar(d) ==
    /\ scan[d].at = "loop" /\ scan[d].offset <= Size /\ ~stopping
    /\ Becomes(d, [scan[d] EXCEPT !.at = "wait"])
    /\ UNCHANGED <<RestOfScan, findings, tried>>

ScanGoesOn(d) ==
    /\ scan[d].at = "loop" /\ scan[d].offset < Size /\ ~stopping
    /\ Becomes(d, [scan[d] EXCEPT !.at = "wait"])
    /\ UNCHANGED <<RestOfScan, findings, tried>>

\* The scan is over: done unless it ended before the end of the disk.
Ended(s) == [s EXCEPT !.at = "report", !.done = s.offset >= Size \/ s.aborted]

\* One chunk is tried once running_event is set.
ScanTries(d) ==
    /\ scan[d].at = "wait" /\ ~paused
    /\ tried' = tried \cup {<<d, scan[d].offset>>}
    /\ UNCHANGED <<RestOfScan, findings>>

ScanReads(d) ==
    /\ ScanTries(d)
    /\ <<d, scan[d].offset>> \notin bad
    /\ Becomes(d, [scan[d] EXCEPT !.at = "loop", !.offset = @ + 1])

\* The read of a bad chunk fails: skip it, or give up after too many.
ScanFails(d) ==
    /\ ScanTries(d)
    /\ <<d, scan[d].offset>> \in bad
    /\ LET failed == [scan[d] EXCEPT !.errors = @ + 1]
       IN Becomes(d, IF failed.errors >= MaxReadErrors
                     THEN Ended([failed EXCEPT !.aborted = TRUE])
                     ELSE [failed EXCEPT !.at = "loop", !.offset = @ + 1])

\* It returns nothing: the device ends before its advertised size.
ScanMeetsEnd(d) ==
    /\ ScanTries(d)
    /\ <<d, scan[d].offset>> \in bad
    /\ Becomes(d, Ended([scan[d] EXCEPT !.errors = @ + 1]))

ScanLeaves(d) ==
    /\ scan[d].at = "loop" /\ (scan[d].offset >= Size \/ stopping)
    /\ Becomes(d, Ended(scan[d]))
    /\ UNCHANGED <<RestOfScan, findings, tried>>

\* Mutant of Reported: only a scan that gave up reports its errors.
ReportedIfAborted(d) == IF scan[d].aborted THEN {<<"read errors", d>>} ELSE {}

Reported(d) == IF scan[d].errors > 0 THEN {<<"read errors", d>>} ELSE {}

\* report_scan ends in save_progress.
ScanReports(d) ==
    /\ scan[d].at = "report"
    /\ SaveProgress(Reported(d), [scan EXCEPT ![d].at = "over"])
    /\ UNCHANGED <<record, main, victim, choice, flags, world>>

-----------------------------------------------------------------------------
(* The main thread: pauses during idle and combined phases, and the end *)

Pause ==
    /\ main = "run"
    /\ paused' = ~paused
    /\ UNCHANGED <<stick, main, victim, choice, entry, scan, writer, stopping,
                   asking, world>>

\* all_done in the wait of finish_disk_tests asks the writers too.
Poll ==
    /\ main = "run"
    /\ \E d \in Noticed :
          /\ writer' = Finished({d})
          /\ findings' = findings \cup Failures({d})
    /\ UNCHANGED <<record, main, victim, choice, entry, scan, flags,
                   world>>

\* DiskManager.stop
Stop ==
    /\ main = "run"
    /\ main' = "join"
    /\ stopping' = TRUE /\ paused' = FALSE
    /\ UNCHANGED <<stick, victim, choice, entry, scan, writer, asking, world>>

\* The scan threads have ended, or did not within their 120 seconds.
Joined ==
    /\ main = "join"
    /\ main' = "writers"
    /\ UNCHANGED <<stick, victim, choice, entry, scan, writer, flags, world>>

\* stop asks each writer; one that has not finished is terminated ...
StopWriter(d) ==
    /\ main = "writers"
    /\ writer[d].proc # "none" /\ ~writer[d].done
    /\ IF Exited(writer[d])
       THEN /\ writer' = Finished({d})
            /\ findings' = findings \cup Failures({d})
            /\ UNCHANGED <<main, victim>>
       ELSE /\ main' = "kill" /\ victim' = d
            /\ UNCHANGED <<writer, findings>>
    /\ UNCHANGED <<record, entry, choice, scan, flags, world>>

\* ... which takes a while ...
WriterDies ==
    /\ main = "kill" /\ writer[victim].proc = "running"
    /\ writer' = [writer EXCEPT ![victim].proc = "killed"]
    /\ UNCHANGED <<stick, main, victim, choice, entry, scan, flags, world>>

\* ... then done is set, whether fio could be killed or not ...
MarkDone ==
    /\ main = "kill"
    /\ writer' = [writer EXCEPT ![victim].done = TRUE]
    /\ main' = "mark"
    /\ UNCHANGED <<stick, victim, choice, entry, scan, flags, world>>

\* Mutant of MarkIncomplete: the entry of a stopped writer is not marked.
MarkIncompleteForgotten ==
    /\ main = "mark"
    /\ main' = "writers" /\ victim' = NoDisk
    /\ findings' = findings \cup {<<"write unfinished", victim>>}
    /\ UNCHANGED <<record, entry, choice, scan, writer, flags, world>>

\* ... and the entry and the findings say that it was not.
MarkIncomplete ==
    /\ main = "mark"
    /\ entry' = [entry EXCEPT ![victim].incomplete = TRUE]
    /\ findings' = findings \cup {<<"write unfinished", victim>>}
    /\ main' = "writers" /\ victim' = NoDisk
    /\ UNCHANGED <<record, choice, scan, writer, flags, world>>

Partial == {d \in Disks : scan[d].at # "none" /\ ~scan[d].done}

StopEnds ==
    /\ main = "writers"
    /\ \A d \in Disks : writer[d].proc # "none" => writer[d].done
    /\ SaveProgress({"scan partial"} \X Partial, scan)
    /\ main' = "final"
    /\ UNCHANGED <<record, victim, choice, flags, world>>

\* update(disk_tests_finished=True): no later start scans again.
TestsFinished ==
    /\ main = "final"
    /\ main' = "finished"
    /\ UNCHANGED <<findings, victim, entry, choice, scan, writer, flags, world>>
    /\ Save

Over == main = "finished" /\ UNCHANGED vars

Next ==
    \/ Die \/ Over
    \/ Ask \/ AskTick \/ AskAgain \/ AskCancelled \/ AskOver \/ NothingToAsk
    \/ AlreadyAsked \/ KeyRefuses \/ StartScans \/ ScansStarted
    \/ Heartbeat \/ OtherSave \/ Pause \/ Poll \/ Stop \/ Joined
    \/ WriterDies \/ MarkDone \/ MarkIncomplete \/ StopEnds \/ TestsFinished
    \/ \E d \in Disks :
          \/ WriterExits(d) \/ StopWriter(d)
          \/ ScanOpens(d) \/ ScanCannotOpen(d) \/ ScanGoesOn(d) \/ ScanReads(d)
          \/ ScanFails(d) \/ ScanMeetsEnd(d) \/ ScanLeaves(d) \/ ScanReports(d)

Spec == Init /\ [][Next]_vars

-----------------------------------------------------------------------------
(* Properties *)

\* The attributes of DiskManager, its scans and writers keep their shape.
TypeOK ==
    /\ saved \in [Disks -> Entry] /\ entry \in [Disks -> Entry]
    /\ {kept, choice} \subseteq {"unasked", "none", "chosen"}
    /\ findings \subseteq Finding
    /\ main \in {"start", "ask wait", "ask check", "scan", "scan save", "run",
                 "finished"}
                \cup Stopping
    /\ victim \in Disks \cup {NoDisk}
    /\ scan \in [Disks -> Scan] /\ writer \in [Disks -> Writer]
    /\ stopping \in BOOLEAN /\ paused \in BOOLEAN
    /\ pending \in BOOLEAN /\ cancel \in BOOLEAN
    /\ verified \subseteq Disks /\ {ended, struck, failing} \subseteq BOOLEAN

Faulty(d) == \E kind \in {"read errors", "cannot open", "write failed"} :
                <<kind, d>> \in findings

\* A scan has met an unreadable chunk.
Met(d) == \E t \in tried \cap bad : t[1] = d

Covered(d) == IF saved[d].mode = "write" THEN d \in verified
              ELSE \A c \in 0..(Size - 1) : <<d, c>> \in tried

(* The coverage_gaps of the report rest on "done": once the stick says that  *)
(* the disk tests are over, an entry that it calls done, and not incomplete  *)
(* (which is a gap by the finding that goes with it), was scanned chunk by   *)
(* chunk or verified to its end during this session - across deaths of the   *)
(* program, failing saves, and with progress saved by other threads - or the *)
(* disk has a fault on record.  Left out are sessions in which the program   *)
(* died while the stick said done too early (DoneTooEarly): from a save      *)
(* between a scan's done and its report until that report, and from a save   *)
(* between a stopped writer's done and its mark until the next save that     *)
(* works.                                                                    *)
DoneIsEarned ==
    ended /\ ~struck =>
        \A d \in Disks :
            saved[d].done /\ ~saved[d].incomplete /\ scan[d].at # "report"
                => Covered(d) \/ Faulty(d)

\* report_scan: when a scan that nothing interrupted has reported, every
\* unreadable chunk it met has led to a fault of that disk.
ErrorsAreReported ==
    left = MaxDeaths =>
        \A d \in Disks :
            scan[d].at = "over" /\ Met(d) => Faulty(d)

(* start_disk_tests: when the first fio starts to erase a disk, the yes is   *)
(* on the stick, so a program that dies after that never asks again about a  *)
(* disk which may be half erased, and never scans it as if it had been left  *)
(* alone.  The code does not look whether the answer was saved: without it   *)
(* fio runs only as long as no save has worked since.                        *)
WritesAreChosen ==
    (\E d \in Disks : writer[d].proc # "none") =>
        kept = "chosen" \/ (failing /\ kept = "unasked" /\ choice = "chosen")

\* SurfaceScan: "Reads every sector of a disk ... resumable after reboot".  An
\* unreadable chunk that some program of the session met is on record when the
\* disk tests are over with that disk done.  The errors of a scan are kept in
\* memory until it ends, its offset is not: a program that dies takes them
\* along, and the next one continues behind them.
ErrorsAreNotForgotten ==
    ended =>
        \A d \in Disks :
            saved[d].done /\ scan[d].at # "report" /\ Met(d) => Faulty(d)

\* "a deliberate stop must not become a hardware failure in finished()"
\* (DiskManager.stop).  Until done is set, the heartbeat's save_progress may
\* find fio terminated and take it for a failure of the disk.
DeliberateStopIsNoFault ==
    \A d \in Disks : <<"write failed", d>> \in findings => \E t \in bad : t[1] = d

=============================================================================
