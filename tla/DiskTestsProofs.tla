--------------------------- MODULE DiskTestsProofs ---------------------------
(***************************************************************************)
(* For any disks, of any size, with any unreadable chunks, any number of   *)
(* deaths of the program and any saves that fail: what the record of the   *)
(* disk tests calls done is earned, a scan reports the errors it met, and  *)
(* a disk is written only with the yes on the stick, or while its save and *)
(* every later one has failed.                                             *)
(***************************************************************************)
EXTENDS DiskTests, TLAPS

Scanned(d, n) == \A c \in 0..(n - 1) : <<d, c>> \in tried

\* Before the scans start there is neither a scan nor a writer.
Before ==
    main \in {"start", "ask wait", "ask check", "scan"} =>
        \A d \in Disks : scan[d] = NoScan /\ writer[d] = NoWriter

\* The answer in memory is the one on the stick, or could not be saved; while
\* it is asked for, there is none.
Asked ==
    /\ choice = kept \/ (failing /\ kept = "unasked")
    /\ main \in {"ask wait", "ask check"} => choice = "unasked"

\* Once the tests are over on the stick, so are the marks of stopped writers.
Closed == ended => /\ main = "finished"
                   /\ \A d \in Disks : entry[d].incomplete => saved[d].incomplete

Counted == left \in 0..MaxDeaths

\* stop is ending a writer.
Ending == main \in {"kill", "mark"} => victim \in Disks /\ writer[victim].proc # "none"

\* An entry, in memory or on the stick, with the answer beside it: the scan
\* goes on behind what was tried.
Record(r, answer, d) == /\ Scanned(d, r.offset)
                        /\ r.mode = "write" => answer = "chosen"
                        /\ r.incomplete => r.mode = "write"

Earned(r, d) ==
    \/ IF r.mode = "write" THEN d \in verified ELSE Scanned(d, Size)
    \/ Faulty(d) \/ struck

\* A scan that has ended with errors will report them.
Due(d) == scan[d].at = "report" /\ scan[d].errors > 0

\* While stop ends a writer, done may be set, and saved, before the mark.
Early(d) == Marking(d) \/ entry[d].incomplete

EntryIsEarned(d) == entry[d].done => Earned(entry[d], d) \/ Due(d) \/ Early(d)

SavedIsEarned(d) ==
    saved[d].done => Earned(saved[d], d) \/ Due(d) \/ saved[d].incomplete \/ Early(d)

ScanSound(d) ==
    /\ scan[d].at # "none" => entry[d].mode # "write" /\ Scanned(d, scan[d].offset)
    /\ scan[d].at = "none" => scan[d] = NoScan
    /\ scan[d].at = "wait" => scan[d].offset < Size
    /\ scan[d].at \in {"open", "loop", "wait"} =>
          scan[d].errors < MaxReadErrors /\ ~scan[d].aborted /\ ~scan[d].done
    /\ scan[d].done => Scanned(d, Size) \/ Faulty(d) \/ Due(d)

WriterSound(d) ==
    /\ writer[d].proc # "none" => entry[d].mode = "write"
    /\ writer[d].proc = "ok" => d \in verified
    /\ writer[d].done => \/ d \in verified \/ Faulty(d) \/ entry[d].incomplete
                         \/ Marking(d)

\* Before anything died, an unreadable chunk is counted until it is reported.
ErrorsKept(d) ==
    left = MaxDeaths /\ Met(d) =>
        Faulty(d) \/ (scan[d].at \in {"loop", "wait", "report"} /\ scan[d].errors > 0)

PerDisk(d) ==
    /\ Record(entry[d], choice, d) /\ Record(saved[d], kept, d)
    /\ EntryIsEarned(d) /\ SavedIsEarned(d)
    /\ ScanSound(d) /\ WriterSound(d) /\ ErrorsKept(d)

IInv == /\ TypeOK /\ Before /\ Asked /\ Closed /\ Counted /\ Ending
        /\ \A d \in Disks : PerDisk(d)

-----------------------------------------------------------------------------
(* What was tried, verified and found stays so.                             *)

LEMMA Grows ==
    ASSUME tried \subseteq tried', verified \subseteq verified', findings \subseteq findings',
           struck => struck'
    PROVE  /\ \A d : Faulty(d) => Faulty(d)'
           /\ \A d, n : Scanned(d, n) => Scanned(d, n)'
           /\ \A r, d : Earned(r, d) => Earned(r, d)'
  <1>1. \A d : Faulty(d) => Faulty(d)'
      BY DEF Faulty
  <1>2. \A d, n : Scanned(d, n) => Scanned(d, n)'
      BY DEF Scanned
  <1> QED
      BY <1>1, <1>2 DEF Earned

LEMMA Sizes == Size \in Nat \ {0} /\ MaxReadErrors \in Nat \ {0} /\ MaxDeaths \in Nat
  BY DisksAssumption

\* The entry, scan and writer that a disk starts with.
LEMMA Fresh ==
    /\ NoEntry \in Entry /\ NoEntry.offset = 0 /\ NoEntry.done = FALSE
    /\ NoEntry.incomplete = FALSE
    /\ NoScan \in Scan /\ NoScan.at = "none" /\ NoScan.errors = 0
    /\ NoScan.done = FALSE /\ NoScan.aborted = FALSE
    /\ NoWriter \in Writer /\ NoWriter.proc = "none" /\ NoWriter.done = FALSE
  <1>1. 0 \in 0..Size /\ 0 \in 0..MaxReadErrors
      BY Sizes
  <1> QED
      BY <1>1 DEF NoEntry, Entry, NoScan, Scan, NoWriter, Writer

LEMMA InitHolds == Init => IInv
  <1> SUFFICES ASSUME Init PROVE IInv
      OBVIOUS
  <1>1. Size \in Nat /\ MaxReadErrors \in Nat \ {0} /\ MaxDeaths \in Nat
      BY Sizes
  <1>2. NoEntry \in Entry /\ NoScan \in Scan /\ NoWriter \in Writer
      BY <1>1 DEF NoEntry, Entry, NoScan, Scan, NoWriter, Writer
  <1>3. TypeOK
      BY <1>2 DEF Init, TypeOK
  <1>4. Before /\ Asked /\ Closed /\ Counted /\ Ending
      BY <1>1 DEF Init, Before, Asked, Closed, Counted, Ending
  <1>5. ASSUME NEW d \in Disks PROVE PerDisk(d)
      <2>1. entry[d] = NoEntry /\ saved[d] = NoEntry /\ scan[d] = NoScan /\ writer[d] = NoWriter
          BY DEF Init
      <2>2. Record(entry[d], choice, d) /\ Record(saved[d], kept, d)
          BY <2>1 DEF Record, NoEntry, Scanned
      <2>3. EntryIsEarned(d) /\ SavedIsEarned(d)
          BY <2>1 DEF EntryIsEarned, SavedIsEarned, NoEntry
      <2>4. ScanSound(d) /\ WriterSound(d)
          BY <2>1 DEF ScanSound, WriterSound, NoScan, NoWriter
      <2>5. ErrorsKept(d)
          BY DEF Init, ErrorsKept, Met
      <2> QED
          BY <2>2, <2>3, <2>4, <2>5 DEF PerDisk
  <1> QED
      BY <1>3, <1>4, <1>5 DEF IInv

-----------------------------------------------------------------------------
(* Steps of the main thread that leave entries, scans and writers alone.    *)

\* A save that worked, failed or was not made.
Recorded ==
    \/ saved' = entry' /\ kept' = choice' /\ ended' = (main' = "finished")
    \/ UNCHANGED <<saved, kept, ended>> /\ (failing => failing')

LEMMA Saves == Save \/ UNCHANGED record => Recorded
  BY DEF Save, Recorded, record

\* The answer, once there is one, stays; it may go to the stick.
LEMMA QuietKeepsDisks ==
    ASSUME IInv, Recorded, UNCHANGED <<entry, scan, writer, bad, left, tried, verified, struck>>,
           findings \subseteq findings', choice' = choice \/ choice = "unasked",
           main = "mark" => UNCHANGED <<main, victim>>,
           NEW d \in Disks
    PROVE  PerDisk(d)'
  <1>1. /\ Faulty(d) => Faulty(d)'
        /\ \A n : Scanned(d, n) => Scanned(d, n)'
        /\ \A r : Earned(r, d) => Earned(r, d)'
      BY Grows
  <1>2. Due(d)' = Due(d) /\ Met(d)' = Met(d) /\ (Early(d) => Early(d)')
      BY DEF Due, Met, Early, Marking
  <1>3. (Record(entry[d], choice, d) /\ Record(saved[d], kept, d))'
      BY <1>1 DEF IInv, PerDisk, Record, Recorded
  <1>4. EntryIsEarned(d)'
      BY <1>1, <1>2 DEF IInv, PerDisk, EntryIsEarned
  <1>5. SavedIsEarned(d)'
      <2>1. CASE saved' = entry'
          BY <1>4, <2>1 DEF EntryIsEarned, SavedIsEarned
      <2>2. CASE saved' = saved
          BY <1>1, <1>2, <2>2 DEF IInv, PerDisk, SavedIsEarned
      <2> QED
          BY <2>1, <2>2 DEF Recorded
  <1>6. ScanSound(d)'
      BY <1>1, <1>2 DEF IInv, PerDisk, ScanSound
  <1>7. WriterSound(d)' /\ ErrorsKept(d)'
      BY <1>1, <1>2 DEF IInv, PerDisk, WriterSound, ErrorsKept, Marking
  <1> QED
      BY <1>3, <1>4, <1>5, <1>6, <1>7 DEF PerDisk

LEMMA TalkKeeps ==
    ASSUME IInv, Ask \/ AskTick \/ AskAgain \/ AlreadyAsked \/ KeyRefuses \/ Pause \/ Stop \/ Joined
    PROVE  IInv'
  <1>1. /\ UNCHANGED <<record, entry, choice, scan, writer, bad, left, tried, verified, struck>>
        /\ findings \subseteq findings' /\ findings' \subseteq findings \cup ({"refused"} \X Disks)
        /\ UNCHANGED victim
        /\ main' = main \/ main \in {"start", "ask wait", "ask check", "run", "join"}
      BY DEF Ask, AskTick, AskAgain, AlreadyAsked, KeyRefuses, Pause, Stop, Joined, stick, flags,
             asking, world
  <1>2. /\ main' \in {main, "ask wait", "ask check", "scan", "join", "writers"}
        /\ main' \in {"ask wait", "ask check", "scan"} =>
              main \in {"start", "ask wait", "ask check", "scan"}
        /\ main' \in {"ask wait", "ask check"} => choice = "unasked"
        /\ main \in {"mark", "finished"} => main' = main
      BY DEF Ask, AskTick, AskAgain, AlreadyAsked, KeyRefuses, Pause, Stop, Joined, IInv, Asked,
             stick, flags, asking, world
  <1>3. {stopping', paused', pending', cancel'} \subseteq BOOLEAN
      BY DEF Ask, AskTick, AskAgain, AlreadyAsked, KeyRefuses, Pause, Stop, Joined, IInv, TypeOK,
             stick, flags, asking, world
  <1>4. TypeOK'
      BY <1>1, <1>2, <1>3 DEF IInv, TypeOK, Finding, Stopping, record
  <1>5. Before' /\ Asked' /\ Closed' /\ Counted' /\ Ending'
      BY <1>1, <1>2 DEF IInv, Before, Asked, Closed, Counted, Ending, record
  <1>6. \A d \in Disks : PerDisk(d)'
      BY <1>1, <1>2, Saves, QuietKeepsDisks
  <1> QED
      BY <1>4, <1>5, <1>6 DEF IInv

LEMMA ChooseKeeps ==
    ASSUME IInv, NothingToAsk \/ AskCancelled \/ AskOver
    PROVE  IInv'
  <1>1. PICK answer \in {"none", "chosen"}, skipped \in SUBSET Disks : Choose(answer, skipped)
      BY DEF NothingToAsk, AskCancelled, AskOver
  <1>2. main \in {"start", "ask wait", "ask check"} /\ choice = "unasked" /\ kept = "unasked"
      BY DEF NothingToAsk, AskCancelled, AskOver, IInv, Asked
  <1>3. /\ UNCHANGED <<victim, entry, scan, writer, stopping, paused, world>>
        /\ main' = "scan" /\ pending' = FALSE /\ cancel' = FALSE
        /\ choice' = answer /\ Save
        /\ findings' = findings \cup ({"refused"} \X skipped)
      BY <1>1 DEF Choose
  <1>4. TypeOK'
      <2>1. saved' \in [Disks -> Entry] /\ kept' \in {"unasked", "none", "chosen"}
          BY <1>3 DEF IInv, TypeOK, Save
      <2>2. ended' \in BOOLEAN /\ failing' \in BOOLEAN
          BY <1>3 DEF IInv, TypeOK, Save
      <2> QED
          BY <1>3, <2>1, <2>2 DEF IInv, TypeOK, Finding, world
  <1>5. Before' /\ Asked' /\ Closed' /\ Counted' /\ Ending'
      <2>1. Before' /\ Counted' /\ Ending'
          BY <1>2, <1>3 DEF IInv, Before, Counted, Ending, world
      <2>2. Asked'
          BY <1>2, <1>3 DEF Asked, Save
      <2>3. Closed'
          BY <1>2, <1>3 DEF IInv, Closed, Save
      <2> QED
          BY <2>1, <2>2, <2>3
  <1>6. \A d \in Disks : PerDisk(d)'
      BY <1>2, <1>3, Saves, QuietKeepsDisks DEF world
  <1> QED
      BY <1>4, <1>5, <1>6 DEF IInv

LEMMA PlainSaveKeeps ==
    ASSUME IInv, ScansStarted \/ TestsFinished \/ OtherSave
    PROVE  IInv'
  <1>1. /\ UNCHANGED <<findings, victim, entry, choice, scan, writer, flags, world>> /\ Save
        /\ main' = main \/ (main = "scan save" /\ main' = "run")
                       \/ (main = "final" /\ main' = "finished")
      BY DEF ScansStarted, TestsFinished, OtherSave
  <1>2. TypeOK'
      <2>1. saved' \in [Disks -> Entry] /\ kept' \in {"unasked", "none", "chosen"}
          BY <1>1 DEF IInv, TypeOK, Save
      <2>2. ended' \in BOOLEAN /\ failing' \in BOOLEAN
          BY <1>1 DEF IInv, TypeOK, Save
      <2> QED
          BY <1>1, <2>1, <2>2 DEF IInv, TypeOK, flags, world
  <1>3. Before' /\ Asked' /\ Closed' /\ Counted' /\ Ending'
      <2>1. Before' /\ Counted' /\ Ending'
          BY <1>1 DEF IInv, Before, Counted, Ending, world
      <2>2. Asked'
          BY <1>1 DEF IInv, Asked, Save
      <2>3. Closed'
          BY <1>1 DEF IInv, Closed, Save
      <2> QED
          BY <2>1, <2>2, <2>3
  <1>4. \A d \in Disks : PerDisk(d)'
      BY <1>1, Saves, QuietKeepsDisks DEF world
  <1> QED
      BY <1>2, <1>3, <1>4 DEF IInv

\* What was saved too early, and died so, struck the session.
LEMMA DieKeeps ==
    ASSUME IInv, Die
    PROVE  IInv'
  <1>1. /\ left > 0 /\ left' = left - 1 /\ entry' = saved /\ choice' = kept
        /\ main' = IF ended THEN "finished" ELSE "start"
        /\ scan' = [d \in Disks |-> NoScan] /\ writer' = [d \in Disks |-> NoWriter]
        /\ struck' = (struck \/ \E d \in Disks : DoneTooEarly(d))
        /\ UNCHANGED <<saved, kept, ended, findings, bad, tried, verified>>
        /\ victim' = NoDisk /\ stopping' = FALSE /\ paused' = FALSE /\ pending' = FALSE
        /\ cancel' = FALSE /\ failing' = FALSE
      BY DEF Die
  <1>2. NoScan \in Scan /\ NoWriter \in Writer
      BY DisksAssumption DEF NoScan, Scan, NoWriter, Writer
  <1>3. struck' \in BOOLEAN
      BY <1>1, Zenon DEF IInv, TypeOK
  <1>4. TypeOK'
      BY <1>1, <1>2, <1>3 DEF IInv, TypeOK
  <1>5. Before' /\ Asked' /\ Closed' /\ Ending'
      BY <1>1 DEF Before, Asked, Closed, Ending
  <1>6. Counted' /\ left' # MaxDeaths
      BY <1>1, DisksAssumption DEF IInv, Counted
  <1>7. ASSUME NEW d \in Disks PROVE PerDisk(d)'
      <2>1. /\ Faulty(d) => Faulty(d)'
            /\ \A n : Scanned(d, n) => Scanned(d, n)'
            /\ \A r : Earned(r, d) => Earned(r, d)'
          BY <1>1, Grows
      <2>2. scan'[d] = NoScan /\ writer'[d] = NoWriter
          BY <1>1
      <2>3. (Record(entry[d], choice, d) /\ Record(saved[d], kept, d))'
          BY <1>1, <2>1 DEF IInv, PerDisk, Record
      <2>4. saved[d].done => Earned(saved[d], d)' \/ saved[d].incomplete
          <3>1. SavedIsEarned(d)
              BY DEF IInv, PerDisk
          <3>2. DoneTooEarly(d) => Earned(saved[d], d)'
              BY <1>1 DEF Earned
          <3> QED
              BY <1>1, <2>1, <3>1, <3>2 DEF SavedIsEarned, DoneTooEarly, Due, Early
      <2>5. EntryIsEarned(d)' /\ SavedIsEarned(d)'
          BY <1>1, <2>4 DEF EntryIsEarned, SavedIsEarned, Early
      <2>6. ScanSound(d)' /\ WriterSound(d)'
          BY <2>2 DEF ScanSound, WriterSound, NoScan, NoWriter
      <2>7. ErrorsKept(d)'
          BY <1>6 DEF ErrorsKept
      <2> QED
          BY <2>3, <2>5, <2>6, <2>7 DEF PerDisk
  <1> QED
      BY <1>4, <1>5, <1>6, <1>7 DEF IInv

-----------------------------------------------------------------------------
(* start_scans.                                                             *)

LEMMA OpenedEntry ==
    ASSUME IInv, NEW d \in Disks
    PROVE  /\ Opened(d) \in Entry /\ Opened(d).mode \in {"read", "write"}
           /\ Opened(d).mode = "write" => choice = "chosen"
           /\ Opened(d).done \/ Opened(d).incomplete \/ entry[d].incomplete => Opened(d) = entry[d]
           /\ Scanned(d, Opened(d).offset)
  <1>1. entry[d] \in Entry
      BY DEF IInv, TypeOK
  <1>2. CASE entry[d].mode # "none"
      BY <1>1, <1>2 DEF Opened, IInv, PerDisk, Record, Entry
  <1>3. CASE entry[d].mode = "none"
      <2> DEFINE m == IF choice = "chosen" /\ d \in Eligible THEN "write" ELSE "read"
                 o == [NoEntry EXCEPT !.mode = m]
      <2>1. Opened(d) = o
          BY <1>3 DEF Opened
      <2>2. m \in {"read", "write"} /\ (m = "write" => choice = "chosen")
          OBVIOUS
      <2> HIDE DEF m
      <2>3. o \in Entry /\ o.mode = m /\ o.done = FALSE /\ o.incomplete = FALSE /\ o.offset = 0
          BY <2>2, Fresh DEF Entry
      <2> QED
          BY <1>3, <2>1, <2>2, <2>3 DEF Scanned, IInv, PerDisk, Record
  <1> QED
      BY <1>2, <1>3

LEMMA StartScansKeeps ==
    ASSUME IInv, StartScans
    PROVE  IInv'
  <1> DEFINE todo == {d \in Disks : ~Opened(d).done}
             writers == {d \in todo : Opened(d).mode = "write"}
             Fio == [NoWriter EXCEPT !.proc = "running"]
             Scanner(d) == [NoScan EXCEPT !.at = "open", !.offset = entry[d].offset]
  <1>1. PICK unsafe \in SUBSET writers :
          /\ findings' = findings \cup ({"refused"} \X unsafe)
          /\ writer' = [d \in Disks |-> IF d \in writers \ unsafe THEN Fio ELSE NoWriter]
          /\ scan' = [d \in Disks |-> IF d \in todo \ writers THEN Scanner(d) ELSE NoScan]
      BY DEF StartScans
  <1>2. /\ main = "scan" /\ main' = "scan save" /\ entry' = [d \in Disks |-> Opened(d)]
        /\ UNCHANGED <<record, choice, victim, flags, world>>
      BY DEF StartScans
  <1>3. \A d \in Disks : scan[d] = NoScan
      BY <1>2 DEF IInv, Before
  <1>4. /\ Fio \in Writer /\ Fio.proc = "running" /\ Fio.done = FALSE
        /\ NoWriter \in Writer /\ NoWriter.proc = "none" /\ NoWriter.done = FALSE /\ NoScan \in Scan
      BY Fresh DEF Writer
  <1>5. \A d \in Disks : /\ Scanner(d) \in Scan /\ Scanner(d).at = "open" /\ Scanner(d).errors = 0
                         /\ Scanner(d).offset = entry[d].offset
                         /\ Scanner(d).done = FALSE /\ Scanner(d).aborted = FALSE
      <2> TAKE d \in Disks
      <2>1. entry[d].offset \in 0..Size
          BY DEF IInv, TypeOK, Entry
      <2> QED
          BY <2>1, Fresh DEF Scan
  <1> HIDE DEF Fio, Scanner
  <1>6. unsafe \subseteq Disks /\ findings \subseteq findings' /\ findings' \subseteq Finding
      <2>1. findings \subseteq Finding
          BY DEF IInv, TypeOK
      <2> QED
          BY <1>1, <2>1 DEF Finding
  <1>7. TypeOK'
      <2>1. entry' \in [Disks -> Entry]
          BY <1>2, OpenedEntry
      <2>2. writer' \in [Disks -> Writer] /\ scan' \in [Disks -> Scan]
          BY <1>1, <1>4, <1>5
      <2> HIDE DEF writers, todo
      <2> QED
          BY <1>2, <1>6, <2>1, <2>2 DEF IInv, TypeOK, record, flags, world
  <1>8. Before' /\ Asked' /\ Closed' /\ Counted' /\ Ending'
      BY <1>2 DEF IInv, Before, Asked, Closed, Counted, Ending, record, world
  <1>9. ASSUME NEW d \in Disks PROVE PerDisk(d)'
      <2>1. /\ Faulty(d) => Faulty(d)'
            /\ \A n : Scanned(d, n) => Scanned(d, n)'
            /\ \A r : Earned(r, d) => Earned(r, d)'
          BY <1>2, <1>6, Grows DEF world
      <2>2. entry'[d] = Opened(d)
          BY <1>2
      <2>3. ~Due(d)
          BY <1>3 DEF Due, NoScan
      <2>4. (Record(entry[d], choice, d) /\ Record(saved[d], kept, d))'
          BY <1>2, <2>1, <2>2, OpenedEntry DEF IInv, PerDisk, Record, record
      <2>5. EntryIsEarned(d)'
          BY <1>2, <2>1, <2>2, <2>3, OpenedEntry DEF IInv, PerDisk, EntryIsEarned, Early, Marking
      <2>6. SavedIsEarned(d)'
          BY <1>2, <2>1, <2>2, <2>3, OpenedEntry
             DEF IInv, PerDisk, SavedIsEarned, Early, Marking, record
      <2>7. ScanSound(d)'
          <3>1. CASE d \in todo \ writers
              <4>1. scan'[d] = Scanner(d) /\ entry'[d].mode # "write"
                  BY <1>1, <2>2, <3>1
              <4>2. \A n : n = entry[d].offset => Scanned(d, n)'
                  BY <2>1 DEF IInv, PerDisk, Record
              <4> QED
                  BY <1>5, <4>1, <4>2, Sizes DEF ScanSound
          <3>2. CASE d \notin todo \ writers
              <4>1. scan'[d] = NoScan
                  BY <1>1, <3>2
              <4> QED
                  BY <4>1 DEF ScanSound, NoScan
          <3> QED
              BY <3>1, <3>2
      <2>8. WriterSound(d)'
          BY <1>1, <1>4, <2>2 DEF WriterSound
      <2>9. ErrorsKept(d)'
          <3>1. Met(d)' = Met(d) /\ left' = left
              BY <1>2 DEF Met, world
          <3>2. left = MaxDeaths /\ Met(d) => Faulty(d)
              BY <1>3 DEF IInv, PerDisk, ErrorsKept, NoScan
          <3> QED
              BY <2>1, <3>1, <3>2 DEF ErrorsKept
      <2> QED
          BY <2>4, <2>5, <2>6, <2>7, <2>8, <2>9 DEF PerDisk
  <1> QED
      BY <1>7, <1>8, <1>9 DEF IInv

-----------------------------------------------------------------------------
(* save_progress, of the heartbeat, of a scan that reports and of stop.     *)

\* A scan may report along with it.
MayReport(scans, fs) ==
    \A d \in Disks :
        \/ scans[d] = scan[d]
        \/ /\ scan[d].at = "report" /\ scans[d] = [scan[d] EXCEPT !.at = "over"]
           /\ scan[d].errors > 0 => <<"read errors", d>> \in fs

\* Stop goes on when every writer has been asked.
MayEnd == UNCHANGED victim /\ (main' = main \/ (main = "writers" /\ main' = "final"))

\* finished() of some writers sets their done.
LEMMA FinishedWriters ==
    ASSUME IInv, NEW ds, NEW d \in Disks
    PROVE  /\ Finished(ds)[d] \in Writer /\ Finished(ds)[d].proc = writer[d].proc
           /\ Finished(ds)[d].done = (writer[d].done \/ d \in ds)
           /\ Finished(ds) \in [Disks -> Writer]
  <1>1. ASSUME NEW x \in Disks
        PROVE  /\ Finished(ds)[x] \in Writer /\ Finished(ds)[x].proc = writer[x].proc
               /\ Finished(ds)[x].done = (writer[x].done \/ x \in ds)
      <2> DEFINE b == writer[x].done \/ x \in ds
      <2>1. Finished(ds)[x] = [writer[x] EXCEPT !.done = b]
          BY DEF Finished
      <2>2. b \in BOOLEAN /\ writer[x] \in Writer
          BY Zenon DEF IInv, TypeOK, Writer
      <2> HIDE DEF b
      <2>3. /\ [writer[x] EXCEPT !.done = b] \in Writer
            /\ [writer[x] EXCEPT !.done = b].done = b
            /\ [writer[x] EXCEPT !.done = b].proc = writer[x].proc
          BY <2>2 DEF Writer
      <2> QED
          BY <2>1, <2>3 DEF b
  <1>2. Finished(ds) = [x \in Disks |-> Finished(ds)[x]]
      BY DEF Finished
  <1> QED
      BY <1>1, <1>2

LEMMA SaveProgressKeeps ==
    ASSUME IInv, NEW fs \in SUBSET Finding, NEW scans \in [Disks -> Scan],
           SaveProgress(fs, scans), MayReport(scans, fs), MayEnd,
           Save \/ UNCHANGED record, UNCHANGED <<choice, flags, bad, left, tried, verified, struck>>
    PROVE  IInv'
  <1>1. /\ writer' = Finished(Noticed) /\ scan' = scans /\ entry' = Progress(writer', scans)
        /\ findings' = findings \cup fs \cup Failures(Noticed)
      BY DEF SaveProgress
  <1>2. /\ writer \in [Disks -> Writer] /\ entry \in [Disks -> Entry] /\ saved \in [Disks -> Entry]
        /\ findings \subseteq Finding
      BY DEF IInv, TypeOK
  <1>3. \A d \in Disks : /\ writer'[d] \in Writer /\ writer'[d].proc = writer[d].proc
                         /\ writer'[d].done = (writer[d].done \/ d \in Noticed)
      BY <1>1, FinishedWriters
  <1>4. \A d \in Disks :
          /\ entry'[d] \in Entry
          /\ entry'[d].mode = entry[d].mode /\ entry'[d].incomplete = entry[d].incomplete
          /\ scans[d].at # "none" => entry'[d].offset = scans[d].offset /\ entry'[d].done = scans[d].done
          /\ scans[d].at = "none" => entry'[d].offset = entry[d].offset
          /\ scans[d].at = "none" /\ writer[d].proc # "none" =>
                entry'[d].done = (writer'[d].done /\ ~entry[d].incomplete)
          /\ scans[d].at = "none" /\ writer[d].proc = "none" => entry'[d] = entry[d]
      <2> TAKE d \in Disks
      <2> DEFINE b == writer'[d].done /\ ~entry[d].incomplete
                 e == [entry[d] EXCEPT !.offset = scans[d].offset, !.done = scans[d].done]
                 f == [entry[d] EXCEPT !.done = b]
      <2>1. entry'[d] = IF scans[d].at # "none" THEN e
                        ELSE IF writer'[d].proc # "none" THEN f ELSE entry[d]
          BY <1>1 DEF Progress
      <2>2. b \in BOOLEAN
          BY <1>2, <1>3, Zenon DEF Writer, Entry
      <2>3. b = (writer'[d].done /\ ~entry[d].incomplete)
          OBVIOUS
      <2> HIDE DEF b
      <2>4. /\ e \in Entry /\ e.mode = entry[d].mode /\ e.incomplete = entry[d].incomplete
            /\ e.offset = scans[d].offset /\ e.done = scans[d].done
          BY <1>2 DEF Entry, Scan
      <2>5. /\ f \in Entry /\ f.mode = entry[d].mode /\ f.incomplete = entry[d].incomplete
            /\ f.offset = entry[d].offset /\ f.done = b
          BY <1>2, <2>2 DEF Entry
      <2> HIDE DEF e, f
      <2>6. entry[d] \in Entry /\ writer'[d].proc = writer[d].proc
          BY <1>2, <1>3
      <2> QED
          BY <2>1, <2>3, <2>4, <2>5, <2>6
  <1>5. TypeOK'
      <2>1. entry' \in [Disks -> Entry]
          <3>1. entry' = [d \in Disks |-> entry'[d]]
              BY <1>1 DEF Progress
          <3> QED
              BY <1>4, <3>1
      <2>2. writer' \in [Disks -> Writer]
          <3>1. writer' = [d \in Disks |-> writer'[d]]
              BY <1>1 DEF Finished
          <3> QED
              BY <1>3, <3>1
      <2>3. findings' \subseteq Finding
          BY <1>1, <1>2 DEF Failures, Noticed, Finding
      <2>4. saved' \in [Disks -> Entry] /\ kept' \in {"unasked", "none", "chosen"}
          BY <1>2, <2>1 DEF Save, record, IInv, TypeOK
      <2>5. /\ main' \in {"start", "ask wait", "ask check", "scan", "scan save", "run", "finished"}
                         \cup Stopping
            /\ victim' \in Disks \cup {NoDisk}
          BY DEF MayEnd, IInv, TypeOK, Stopping
      <2>6. ended' \in BOOLEAN /\ failing' \in BOOLEAN
          BY DEF Save, record, IInv, TypeOK
      <2> QED
          BY <1>1, <2>1, <2>2, <2>3, <2>4, <2>5, <2>6 DEF IInv, TypeOK, flags
  <1>6. ASSUME NEW d \in Disks
        PROVE  /\ scans[d].at = "none" <=> scan[d].at = "none"
               /\ scans[d].offset = scan[d].offset /\ scans[d].errors = scan[d].errors
               /\ scans[d].done = scan[d].done /\ scans[d].aborted = scan[d].aborted
               /\ scans[d] = scan[d] \/ /\ scan[d].at = "report" /\ scans[d].at = "over"
                                        /\ Due(d) => Faulty(d)'
      <2>1. CASE scans[d] = scan[d]
          BY <2>1
      <2>2. CASE /\ scan[d].at = "report" /\ scans[d] = [scan[d] EXCEPT !.at = "over"]
                 /\ scan[d].errors > 0 => <<"read errors", d>> \in fs
          <3>1. scan[d] \in Scan
              BY DEF IInv, TypeOK
          <3>2. /\ scans[d].at = "over" /\ scans[d].offset = scan[d].offset
                /\ scans[d].errors = scan[d].errors
                /\ scans[d].done = scan[d].done /\ scans[d].aborted = scan[d].aborted
              BY <2>2, <3>1 DEF Scan
          <3>3. Due(d) => Faulty(d)'
              BY <1>1, <2>2 DEF Due, Faulty
          <3> QED
              BY <2>2, <3>2, <3>3
      <2> QED
          BY <2>1, <2>2 DEF MayReport
  <1>7. Before'
      <2> SUFFICES ASSUME main' \in {"start", "ask wait", "ask check", "scan"}, NEW d \in Disks
                   PROVE  scan'[d] = NoScan /\ writer'[d] = NoWriter
          BY DEF Before
      <2>1. scan[d] = NoScan /\ writer[d] = NoWriter
          BY DEF IInv, Before, MayEnd
      <2>2. scan'[d] = NoScan
          BY <1>1, <1>6, <2>1, Fresh
      <2>3. writer'[d].proc = "none" /\ ~writer'[d].done /\ writer'[d] \in Writer
          <3>1. d \notin Noticed
              BY <2>1, Fresh DEF Noticed, Exited
          <3> QED
              BY <1>3, <2>1, <3>1, Fresh
      <2> QED
          BY <2>2, <2>3 DEF Writer, NoWriter
  <1>8. Asked' /\ Closed' /\ Counted' /\ Ending'
      <2>1. Closed'
          BY <1>4 DEF IInv, Closed, Save, record, MayEnd
      <2> QED
          BY <1>3, <2>1 DEF IInv, Asked, Counted, Ending, Save, record, MayEnd
  <1>9. ASSUME NEW d \in Disks PROVE PerDisk(d)'
      <2>1. /\ Faulty(d) => Faulty(d)'
            /\ \A n : Scanned(d, n) => Scanned(d, n)'
            /\ \A r : Earned(r, d) => Earned(r, d)'
          BY <1>1, Grows
      <2>2. Due(d) => Due(d)' \/ Faulty(d)'
          BY <1>1, <1>6 DEF Due
      <2>3. Record(entry[d], choice, d)'
          <3>1. Scanned(d, entry[d].offset) /\ (scan[d].at # "none" => Scanned(d, scan[d].offset))
              BY DEF IInv, PerDisk, Record, ScanSound
          <3>2. Scanned(d, entry'[d].offset)
              BY <1>4, <1>6, <3>1
          <3>3. /\ entry'[d].mode = "write" => choice' = "chosen"
                /\ entry'[d].incomplete => entry'[d].mode = "write"
              BY <1>4 DEF IInv, PerDisk, Record
          <3> QED
              BY <2>1, <3>2, <3>3 DEF Record
      <2>4. Record(saved[d], kept, d)'
          <3>1. saved' = saved /\ kept' = kept => Record(saved[d], kept, d)'
              BY <2>1 DEF IInv, PerDisk, Record
          <3>2. saved' = entry' /\ kept' = choice' => Record(saved[d], kept, d)'
              BY <2>3 DEF Record
          <3> QED
              BY <3>1, <3>2, Saves DEF Recorded
      <2>5. ScanSound(d)'
          BY <1>1, <1>4, <1>6, <2>1, <2>2 DEF IInv, PerDisk, ScanSound
      <2>6. writer'[d].done => \/ (d \in verified)' \/ Faulty(d)' \/ entry'[d].incomplete
                               \/ Marking(d)
          <3>1. CASE writer[d].done
              BY <1>4, <2>1, <3>1 DEF IInv, PerDisk, WriterSound
          <3>2. CASE d \in Noticed /\ writer[d].proc = "ok"
              BY <3>2 DEF IInv, PerDisk, WriterSound
          <3>3. CASE d \in Noticed /\ writer[d].proc # "ok"
              BY <1>1, <3>3 DEF Failures, Faulty
          <3> QED
              BY <1>3, <3>1, <3>2, <3>3
      <2>7. WriterSound(d)'
          BY <1>3, <1>4, <2>6 DEF IInv, PerDisk, WriterSound, MayEnd, Marking
      <2>8. EntryIsEarned(d)'
          <3> SUFFICES ASSUME entry'[d].done
                       PROVE  Earned(entry[d], d)' \/ Due(d)' \/ Early(d)'
              BY DEF EntryIsEarned
          <3>1. CASE scan[d].at # "none"
              <4>1. scan'[d].done /\ entry'[d].mode # "write"
                  BY <1>1, <1>4, <1>6, <3>1 DEF IInv, PerDisk, ScanSound
              <4> QED
                  BY <2>5, <4>1 DEF ScanSound, Earned
          <3>2. CASE scan[d].at = "none" /\ writer[d].proc # "none"
              <4>1. writer'[d].done /\ ~entry'[d].incomplete /\ entry'[d].mode = "write"
                  BY <1>4, <1>6, <3>2 DEF IInv, PerDisk, WriterSound
              <4>2. CASE (d \in verified)' \/ Faulty(d)'
                  BY <4>1, <4>2 DEF Earned
              <4>3. CASE Marking(d)
                  BY <4>3 DEF MayEnd, Early, Marking
              <4> QED
                  BY <2>6, <4>1, <4>2, <4>3
          <3>3. CASE scan[d].at = "none" /\ writer[d].proc = "none"
              <4>1. entry'[d] = entry[d] /\ ~Due(d)
                  BY <1>4, <1>6, <3>3 DEF Due
              <4>2. Earned(entry[d], d) \/ Early(d)
                  BY <3>3, <4>1 DEF IInv, PerDisk, EntryIsEarned
              <4> QED
                  BY <2>1, <4>1, <4>2 DEF Early, Marking, MayEnd
          <3> QED
              BY <3>1, <3>2, <3>3
      <2>9. SavedIsEarned(d)'
          <3>1. CASE saved' = saved
              <4>1. Early(d) => Early(d)'
                  BY <1>4 DEF Early, Marking, MayEnd
              <4>2. Faulty(d)' => Earned(saved[d], d)'
                  BY <3>1 DEF Earned
              <4> QED
                  BY <2>1, <2>2, <3>1, <4>1, <4>2 DEF IInv, PerDisk, SavedIsEarned
          <3>2. CASE saved' = entry'
              BY <2>8, <3>2 DEF EntryIsEarned, SavedIsEarned
          <3> QED
              BY <3>1, <3>2, Saves DEF Recorded
      <2>10. ErrorsKept(d)'
          <3>1. Met(d)' = Met(d) /\ left' = left
              BY DEF Met
          <3>2. scan[d].at \in {"loop", "wait", "report"} /\ scan[d].errors > 0 =>
                    \/ Faulty(d)'
                    \/ scan'[d].at \in {"loop", "wait", "report"} /\ scan'[d].errors > 0
              BY <1>1, <1>6 DEF Due
          <3> QED
              BY <2>1, <3>1, <3>2 DEF IInv, PerDisk, ErrorsKept
      <2> QED
          BY <2>3, <2>4, <2>5, <2>7, <2>8, <2>9, <2>10 DEF PerDisk
  <1> QED
      BY <1>5, <1>7, <1>8, <1>9 DEF IInv

LEMMA ProgressSteps ==
    ASSUME IInv, Heartbeat \/ StopEnds \/ \E d \in Disks : ScanReports(d)
    PROVE  IInv'
  <1>1. scan \in [Disks -> Scan]
      BY DEF IInv, TypeOK
  <1>2. CASE Heartbeat
      <2>1. MayReport(scan, {}) /\ MayEnd
          BY <1>2 DEF MayReport, MayEnd, Heartbeat
      <2> QED
          BY <1>1, <1>2, <2>1, SaveProgressKeeps DEF Heartbeat, world
  <1>3. CASE StopEnds
      <2>1. MayReport(scan, {"scan partial"} \X Partial) /\ MayEnd
          BY <1>3 DEF MayReport, MayEnd, StopEnds
      <2>2. {"scan partial"} \X Partial \in SUBSET Finding
          BY DEF Partial, Finding
      <2> QED
          BY <1>1, <1>3, <2>1, <2>2, SaveProgressKeeps DEF StopEnds, world
  <1>4. ASSUME NEW d \in Disks, ScanReports(d) PROVE IInv'
      <2> DEFINE scans == [scan EXCEPT ![d].at = "over"]
      <2>1. /\ scan[d].at = "report" /\ SaveProgress(Reported(d), scans)
            /\ UNCHANGED <<record, main, victim, choice, flags, world>>
          BY <1>4 DEF ScanReports
      <2>2. scans[d] = [scan[d] EXCEPT !.at = "over"] /\ \A x \in Disks \ {d} : scans[x] = scan[x]
          BY <1>1
      <2>3. scans \in [Disks -> Scan]
          BY <1>1 DEF Scan
      <2> HIDE DEF scans
      <2>4. MayReport(scans, Reported(d)) /\ MayEnd
          BY <2>1, <2>2 DEF MayReport, MayEnd, Reported
      <2>5. Reported(d) \in SUBSET Finding
          <3>1. <<"read errors", d>> \in Finding
              BY DEF Finding
          <3> QED
              BY <3>1 DEF Reported
      <2> QED
          BY <2>1, <2>3, <2>4, <2>5, SaveProgressKeeps DEF world
  <1> QED
      BY <1>2, <1>3, <1>4

-----------------------------------------------------------------------------
(* The writers.                                                             *)

LEMMA WriterStepKeepsDisks ==
    ASSUME IInv, NEW d \in Disks,
           UNCHANGED <<record, choice, scan, bad, left, tried, struck>>,
           verified \subseteq verified', findings \subseteq findings',
           entry'[d].mode = entry[d].mode, entry'[d].offset = entry[d].offset,
           entry'[d].done = entry[d].done, Early(d) => Early(d)',
           entry'[d].incomplete => entry[d].incomplete \/ entry[d].mode = "write",
           writer[d].proc # "none" => writer'[d].proc # "none",
           WriterSound(d)'
    PROVE  PerDisk(d)'
  <1>1. /\ Faulty(d) => Faulty(d)'
        /\ \A n : Scanned(d, n) => Scanned(d, n)'
        /\ \A r : Earned(r, d) => Earned(r, d)'
      BY Grows
  <1>2. Due(d)' = Due(d) /\ Met(d)' = Met(d)
      BY DEF Due, Met
  <1>3. (Record(entry[d], choice, d) /\ Record(saved[d], kept, d))'
      BY <1>1 DEF IInv, PerDisk, Record, record
  <1>4. EntryIsEarned(d)'
      <2>1. Earned(entry[d], d) => Earned(entry[d], d)'
          BY <1>1 DEF Earned
      <2> QED
          BY <1>2, <2>1 DEF IInv, PerDisk, EntryIsEarned
  <1>5. SavedIsEarned(d)'
      BY <1>1, <1>2 DEF IInv, PerDisk, SavedIsEarned, record
  <1>6. ScanSound(d)'
      BY <1>1, <1>2 DEF IInv, PerDisk, ScanSound
  <1>7. ErrorsKept(d)'
      BY <1>1, <1>2 DEF IInv, PerDisk, ErrorsKept
  <1> QED
      BY <1>3, <1>4, <1>5, <1>6, <1>7 DEF PerDisk

LEMMA WriterExitsKeeps ==
    ASSUME IInv, NEW w \in Disks, WriterExits(w)
    PROVE  IInv'
  <1>1. PICK end \in {"ok", "bad"} :
          /\ writer' = [writer EXCEPT ![w].proc = end]
          /\ verified' = IF end = "ok" THEN verified \cup {w} ELSE verified
      BY DEF WriterExits
  <1>2. /\ writer[w].proc = "running"
        /\ UNCHANGED <<record, findings, main, victim, entry, choice, scan, flags, bad, left,
                       tried, struck>>
      BY DEF WriterExits, stick
  <1>3. /\ writer' \in [Disks -> Writer]
        /\ writer'[w].proc = end /\ writer'[w].done = writer[w].done
        /\ \A d \in Disks \ {w} : writer'[d] = writer[d]
      BY <1>1 DEF IInv, TypeOK, Writer
  <1>4. TypeOK'
      BY <1>1, <1>2, <1>3 DEF IInv, TypeOK, flags, record
  <1>5. writer[w] # NoWriter
      BY <1>2, Fresh
  <1>6. Before' /\ Asked' /\ Closed' /\ Counted' /\ Ending'
      BY <1>2, <1>3, <1>5 DEF IInv, Before, Asked, Closed, Counted, Ending, record
  <1>7. ASSUME NEW d \in Disks PROVE PerDisk(d)'
      <2>1. Faulty(d)' = Faulty(d)
          BY <1>2 DEF Faulty
      <2>2. WriterSound(d)'
          BY <1>1, <1>2, <1>3, <2>1 DEF IInv, PerDisk, WriterSound, Marking
      <2>3. /\ UNCHANGED <<record, choice, scan, bad, left, tried, struck>>
            /\ verified \subseteq verified' /\ findings \subseteq findings'
            /\ entry' = entry /\ (Early(d) => Early(d)')
          BY <1>1, <1>2 DEF Early, Marking
      <2>4. writer[d].proc # "none" => writer'[d].proc # "none"
          BY <1>1, <1>3
      <2> QED
          BY <2>2, <2>3, <2>4, WriterStepKeepsDisks
  <1> QED
      BY <1>4, <1>6, <1>7 DEF IInv

\* A writer that has exited is asked, in the wait or by stop.
LEMMA AskedWriterKeeps ==
    ASSUME IInv, NEW w \in Disks, Exited(writer[w]), main \notin {"start", "ask wait", "ask check", "scan"},
           writer' = Finished({w}), findings' = findings \cup Failures({w}),
           UNCHANGED <<record, main, victim, entry, choice, scan, flags, world>>
    PROVE  IInv'
  <1>1. \A d \in Disks : /\ writer'[d].proc = writer[d].proc
                         /\ writer'[d].done = (writer[d].done \/ d = w)
      BY FinishedWriters
  <1>2. TypeOK'
      <2>1. writer' \in [Disks -> Writer]
          BY FinishedWriters
      <2>2. Failures({w}) \subseteq Finding
          BY DEF Failures, Finding
      <2>3. findings' \subseteq Finding
          BY <2>2 DEF IInv, TypeOK
      <2> QED
          BY <2>1, <2>3 DEF IInv, TypeOK, record, flags, world
  <1>3. Before' /\ Asked' /\ Closed' /\ Counted' /\ Ending'
      BY <1>1 DEF IInv, Before, Asked, Closed, Counted, Ending, record, world
  <1>4. ASSUME NEW d \in Disks PROVE PerDisk(d)'
      <2>1. Faulty(d) => Faulty(d)'
          BY DEF Faulty
      <2>2. writer[w].proc # "ok" => Faulty(w)'
          BY DEF Failures, Faulty
      <2>3. writer[w].proc = "ok" => w \in verified
          BY DEF IInv, PerDisk, WriterSound
      <2>4. WriterSound(d)'
          BY <1>1, <2>1, <2>2, <2>3 DEF IInv, PerDisk, WriterSound, Marking, world
      <2>5. /\ UNCHANGED <<record, choice, scan, bad, left, tried, struck>>
            /\ verified \subseteq verified' /\ findings \subseteq findings'
            /\ entry' = entry /\ (Early(d) => Early(d)')
          BY DEF world, Early, Marking
      <2>6. writer[d].proc # "none" => writer'[d].proc # "none"
          BY <1>1
      <2> QED
          BY <2>4, <2>5, <2>6, WriterStepKeepsDisks
  <1> QED
      BY <1>2, <1>3, <1>4 DEF IInv

\* What stop does to a writer that still runs.
StopBegins ==
    /\ main = "writers" /\ main' = "kill" /\ victim' \in Disks
    /\ writer[victim'].proc # "none" /\ UNCHANGED <<writer, entry, findings>>

\* Each of the steps, seen from one disk.
LEMMA StopStep ==
    ASSUME IInv, StopBegins \/ WriterDies \/ MarkDone \/ MarkIncomplete
    PROVE  /\ writer' \in [Disks -> Writer] /\ entry' \in [Disks -> Entry]
           /\ findings \subseteq findings' /\ findings' \subseteq Finding
           /\ \A d \in Disks :
                /\ \/ writer'[d].proc = writer[d].proc
                   \/ writer[d].proc = "running" /\ writer'[d].proc = "killed"
                /\ writer'[d].done = writer[d].done \/ (main' = "mark" /\ victim' = d)
                /\ entry'[d].mode = entry[d].mode /\ entry'[d].offset = entry[d].offset
                /\ entry'[d].done = entry[d].done
                /\ entry[d].incomplete => entry'[d].incomplete
                /\ entry'[d].incomplete => entry[d].incomplete \/ entry[d].mode = "write"
                /\ Marking(d) => entry'[d].incomplete
           /\ main \in {"writers", "kill", "mark"} /\ main' \in {"writers", "kill", "mark"}
           /\ main' \in {"kill", "mark"} => victim' \in Disks /\ writer'[victim'].proc # "none"
           /\ victim' \in Disks \cup {NoDisk}
           /\ main = "mark" => main' = "writers"
  <1>1. /\ entry \in [Disks -> Entry] /\ writer \in [Disks -> Writer] /\ findings \subseteq Finding
        /\ main \in {"kill", "mark"} => /\ victim \in Disks /\ writer[victim].proc # "none"
                                        /\ entry[victim].mode = "write"
      BY DEF IInv, TypeOK, Ending, PerDisk, WriterSound
  <1>2. CASE StopBegins
      BY <1>1, <1>2 DEF StopBegins, Marking
  <1>3. CASE WriterDies
      <2> DEFINE w == [writer[victim] EXCEPT !.proc = "killed"]
      <2>1. /\ main = "kill" /\ victim \in Disks /\ writer[victim].proc = "running"
            /\ writer' = [writer EXCEPT ![victim] = w]
            /\ UNCHANGED <<main, victim, entry, findings>>
          BY <1>1, <1>3 DEF WriterDies, stick
      <2>2. w \in Writer /\ w.proc = "killed" /\ w.done = writer[victim].done
          BY <1>1, <2>1 DEF Writer
      <2> HIDE DEF w
      <2>3. writer' \in [Disks -> Writer]
          BY <1>1, <2>1, <2>2
      <2> QED
          BY <1>1, <2>1, <2>2, <2>3 DEF Marking
  <1>4. CASE MarkDone
      <2> DEFINE w == [writer[victim] EXCEPT !.done = TRUE]
      <2>1. /\ main = "kill" /\ main' = "mark" /\ victim \in Disks /\ writer[victim].proc # "none"
            /\ writer' = [writer EXCEPT ![victim] = w]
            /\ UNCHANGED <<victim, entry, findings>>
          BY <1>1, <1>4 DEF MarkDone, stick
      <2>2. w \in Writer /\ w.proc = writer[victim].proc
          BY <1>1, <2>1 DEF Writer
      <2> HIDE DEF w
      <2>3. writer' \in [Disks -> Writer]
          BY <1>1, <2>1, <2>2
      <2> QED
          BY <1>1, <2>1, <2>2, <2>3 DEF Marking
  <1>5. CASE MarkIncomplete
      <2> DEFINE e == [entry[victim] EXCEPT !.incomplete = TRUE]
      <2>1. /\ main = "mark" /\ main' = "writers" /\ victim \in Disks /\ victim' = NoDisk
            /\ entry' = [entry EXCEPT ![victim] = e]
            /\ findings' = findings \cup {<<"write unfinished", victim>>}
            /\ writer' = writer /\ entry[victim].mode = "write"
          BY <1>1, <1>5 DEF MarkIncomplete
      <2>2. /\ e \in Entry /\ e.mode = entry[victim].mode /\ e.offset = entry[victim].offset
            /\ e.done = entry[victim].done /\ e.incomplete = TRUE
          BY <1>1, <2>1 DEF Entry
      <2> HIDE DEF e
      <2>3. entry' \in [Disks -> Entry]
          BY <1>1, <2>1, <2>2
      <2>4. findings' \subseteq Finding
          <3>1. <<"write unfinished", victim>> \in Finding
              BY <2>1 DEF Finding
          <3> QED
              BY <1>1, <2>1, <3>1
      <2> QED
          BY <1>1, <2>1, <2>2, <2>3, <2>4 DEF Marking
  <1> QED
      BY <1>2, <1>3, <1>4, <1>5

LEMMA StopStepKeeps ==
    ASSUME IInv, StopBegins \/ WriterDies \/ MarkDone \/ MarkIncomplete,
           UNCHANGED <<record, choice, scan, flags, world>>
    PROVE  IInv'
  <1>1. TypeOK'
      <2>1. /\ writer' \in [Disks -> Writer] /\ entry' \in [Disks -> Entry]
            /\ findings' \subseteq Finding
            /\ main' \in {"writers", "kill", "mark"} /\ victim' \in Disks \cup {NoDisk}
          BY StopStep
      <2> QED
          BY <2>1 DEF IInv, TypeOK, record, flags, world, Stopping
  <1>2. Before' /\ Asked' /\ Closed' /\ Counted' /\ Ending'
      BY StopStep DEF IInv, Before, Asked, Closed, Counted, Ending, record, world
  <1>3. ASSUME NEW d \in Disks PROVE PerDisk(d)'
      <2>1. /\ findings \subseteq findings'
            /\ main \in {"writers", "kill", "mark"} /\ main' \in {"writers", "kill", "mark"}
            /\ main = "mark" => main' = "writers"
            /\ \/ writer'[d].proc = writer[d].proc
               \/ writer[d].proc = "running" /\ writer'[d].proc = "killed"
            /\ writer'[d].done = writer[d].done \/ (main' = "mark" /\ victim' = d)
            /\ entry'[d].mode = entry[d].mode /\ entry'[d].offset = entry[d].offset
            /\ entry'[d].done = entry[d].done
            /\ entry[d].incomplete => entry'[d].incomplete
            /\ entry'[d].incomplete => entry[d].incomplete \/ entry[d].mode = "write"
            /\ Marking(d) => entry'[d].incomplete
          BY StopStep
      <2>2. Faulty(d) => Faulty(d)'
          BY <2>1 DEF Faulty
      <2>3. WriterSound(d)'
          BY <2>1, <2>2 DEF IInv, PerDisk, WriterSound, Marking, world
      <2>4. /\ UNCHANGED <<record, choice, scan, bad, left, tried, struck>>
            /\ verified \subseteq verified' /\ (Early(d) => Early(d)')
          BY <2>1 DEF world, Early
      <2>5. writer[d].proc # "none" => writer'[d].proc # "none"
          BY <2>1
      <2> QED
          BY <2>1, <2>3, <2>4, <2>5, WriterStepKeepsDisks
  <1> QED
      BY <1>1, <1>2, <1>3 DEF IInv

LEMMA WriterSteps ==
    ASSUME IInv, \/ Poll \/ WriterDies \/ MarkDone \/ MarkIncomplete
                 \/ \E d \in Disks : WriterExits(d) \/ StopWriter(d)
    PROVE  IInv'
  <1>1. CASE Poll
      <2>1. PICK d \in Noticed : writer' = Finished({d}) /\ findings' = findings \cup Failures({d})
          BY <1>1 DEF Poll
      <2> QED
          BY <1>1, <2>1, AskedWriterKeeps DEF Poll, Noticed
  <1>2. CASE WriterDies \/ MarkDone \/ MarkIncomplete
      <2>1. UNCHANGED <<record, choice, scan, flags, world>>
          BY <1>2 DEF WriterDies, MarkDone, MarkIncomplete, stick
      <2> QED
          BY <1>2, <2>1, StopStepKeeps
  <1>3. ASSUME NEW d \in Disks, StopWriter(d) PROVE IInv'
      <2>1. CASE Exited(writer[d])
          BY <1>3, <2>1, AskedWriterKeeps DEF StopWriter
      <2>2. CASE ~Exited(writer[d])
          BY <1>3, <2>2, StopStepKeeps DEF StopWriter, StopBegins
      <2> QED
          BY <2>1, <2>2
  <1> QED
      BY <1>1, <1>2, <1>3, WriterExitsKeeps

-----------------------------------------------------------------------------
(* The threads of the surface scans.                                        *)

\* A scan that runs goes on as s, having tried no chunk of another disk.
LEMMA ScanMoves ==
    ASSUME IInv, NEW d \in Disks, NEW s \in Scan, Becomes(d, s),
           scan[d].at \in {"open", "loop", "wait"}, s.at # "none",
           UNCHANGED <<record, main, victim, entry, choice, writer, flags, bad, left,
                       verified, struck>>,
           findings \subseteq findings', findings' \subseteq Finding,
           \A x \in Disks \ {d} : Faulty(x)' = Faulty(x),
           tried \subseteq tried', \A t \in tried' : t \in tried \/ t[1] = d,
           \A n : n = s.offset => Scanned(d, n)',
           s.at = "wait" => s.offset < Size,
           s.at \in {"open", "loop", "wait"} =>
               s.errors < MaxReadErrors /\ ~s.aborted /\ ~s.done,
           s.done => Scanned(d, Size)' \/ Faulty(d)' \/ (s.at = "report" /\ s.errors > 0),
           left = MaxDeaths /\ Met(d)' =>
               Faulty(d)' \/ (s.at \in {"loop", "wait", "report"} /\ s.errors > 0)
    PROVE  IInv'
  <1>1. /\ scan' \in [Disks -> Scan] /\ scan'[d] = s
        /\ \A x \in Disks \ {d} : scan'[x] = scan[x]
      BY DEF Becomes, IInv, TypeOK
  <1>2. TypeOK'
      BY <1>1 DEF IInv, TypeOK, record, flags
  <1>3. scan[d] # NoScan
      BY Fresh
  <1>4. Before' /\ Asked' /\ Closed' /\ Counted' /\ Ending'
      BY <1>3 DEF IInv, Before, Asked, Closed, Counted, Ending, record
  <1>5. ASSUME NEW x \in Disks PROVE PerDisk(x)'
      <2>1. /\ Faulty(x) => Faulty(x)'
            /\ \A n : Scanned(x, n) => Scanned(x, n)'
            /\ \A r : Earned(r, x) => Earned(r, x)'
          BY Grows
      <2>2. (Record(entry[x], choice, x) /\ Record(saved[x], kept, x))'
          BY <2>1 DEF IInv, PerDisk, Record, record
      <2>3. (Due(x) => Due(x)') /\ Early(x)' = Early(x)
          BY <1>1 DEF Due, Early, Marking
      <2>4. EntryIsEarned(x)' /\ SavedIsEarned(x)'
          BY <2>1, <2>3 DEF IInv, PerDisk, EntryIsEarned, SavedIsEarned, record
      <2>5. WriterSound(x)'
          BY <2>1 DEF IInv, PerDisk, WriterSound, Marking
      <2>6. CASE x = d
          <3>1. scan'[d] = s /\ entry' = entry /\ entry[d].mode # "write"
              BY <1>1, <1>3 DEF IInv, PerDisk, ScanSound
          <3>2. ScanSound(d)'
              BY <3>1 DEF ScanSound, Due
          <3>3. ErrorsKept(d)'
              BY <3>1 DEF ErrorsKept
          <3> QED
              BY <2>2, <2>4, <2>5, <2>6, <3>2, <3>3 DEF PerDisk
      <2>7. CASE x # d
          <3>1. scan'[x] = scan[x]
              BY <1>1, <2>7
          <3>2. Met(x)' => Met(x)
              BY <2>7 DEF Met
          <3>3. ScanSound(x)' /\ ErrorsKept(x)'
              BY <2>1, <2>3, <3>1, <3>2 DEF IInv, PerDisk, ScanSound, ErrorsKept
          <3> QED
              BY <2>2, <2>4, <2>5, <3>3 DEF PerDisk
      <2> QED
          BY <2>6, <2>7
  <1> QED
      BY <1>2, <1>4, <1>5 DEF IInv

\* What the invariant says of a scan that runs.
LEMMA RunningScan ==
    ASSUME IInv, NEW d \in Disks, scan[d].at \in {"open", "loop", "wait"}
    PROVE  /\ scan[d] \in Scan /\ Scanned(d, scan[d].offset)
           /\ scan[d].offset \in 0..Size /\ scan[d].errors \in 0..MaxReadErrors
           /\ scan[d].errors < MaxReadErrors
           /\ scan[d].aborted = FALSE /\ scan[d].done = FALSE
           /\ scan[d].at = "wait" => scan[d].offset < Size
           /\ left = MaxDeaths /\ Met(d) =>
                  Faulty(d) \/ (scan[d].at # "open" /\ scan[d].errors > 0)
           /\ findings \subseteq Finding
  <1>1. scan[d] \in Scan /\ findings \subseteq Finding
      BY DEF IInv, TypeOK
  <1>2. ScanSound(d) /\ ErrorsKept(d)
      BY DEF IInv, PerDisk
  <1> QED
      BY <1>1, <1>2 DEF ScanSound, ErrorsKept, Scan

\* A scan that ends reports; it is done at the end of the disk or when it gave up.
LEMMA EndedScan ==
    ASSUME NEW s \in Scan
    PROVE  /\ Ended(s) \in Scan /\ Ended(s).at = "report" /\ Ended(s).errors = s.errors
           /\ Ended(s).offset = s.offset /\ Ended(s).aborted = s.aborted
           /\ Ended(s).done => s.offset >= Size \/ s.aborted
  <1> DEFINE b == s.offset >= Size \/ s.aborted
  <1>1. b \in BOOLEAN
      BY Zenon DEF Scan
  <1>2. Ended(s) = [s EXCEPT !.at = "report", !.done = b] /\ b = (s.offset >= Size \/ s.aborted)
      BY DEF Ended
  <1> HIDE DEF b
  <1>3. /\ [s EXCEPT !.at = "report", !.done = b] \in Scan
        /\ [s EXCEPT !.at = "report", !.done = b].done = b
        /\ [s EXCEPT !.at = "report", !.done = b].at = "report"
        /\ [s EXCEPT !.at = "report", !.done = b].errors = s.errors
        /\ [s EXCEPT !.at = "report", !.done = b].offset = s.offset
        /\ [s EXCEPT !.at = "report", !.done = b].aborted = s.aborted
      BY <1>1 DEF Scan
  <1> QED
      BY <1>2, <1>3

\* Steps that try no chunk.
LEMMA ScanGoesKeeps ==
    ASSUME IInv, NEW d \in Disks, ScanOpens(d) \/ ScanGoesOn(d) \/ ScanLeaves(d) \/ ScanCannotOpen(d)
    PROVE  IInv'
  <1>1. /\ scan[d].at \in {"open", "loop", "wait"}
        /\ UNCHANGED <<record, main, victim, entry, choice, writer, flags, bad, left,
                       verified, struck, tried>>
        /\ findings' = findings \/ findings' = findings \cup {<<"cannot open", d>>}
      BY DEF ScanOpens, ScanGoesOn, ScanLeaves, ScanCannotOpen, RestOfScan
  <1>2. /\ findings \subseteq findings' /\ findings' \subseteq Finding
        /\ \A x \in Disks \ {d} : Faulty(x)' = Faulty(x)
      <2>1. <<"cannot open", d>> \in Finding
          BY DEF Finding
      <2> QED
          BY <1>1, <2>1, RunningScan DEF Faulty
  <1>3. /\ tried \subseteq tried' /\ \A t \in tried' : t \in tried \/ t[1] = d
        /\ \A n : Scanned(d, n)' = Scanned(d, n)
        /\ Met(d)' = Met(d) /\ (Faulty(d) => Faulty(d)')
      BY <1>1, <1>2 DEF Scanned, Met, Faulty
  <1>4. CASE ScanOpens(d)
      <2> DEFINE s == [scan[d] EXCEPT !.at = "loop"]
      <2>1. scan[d].at = "open" /\ Becomes(d, s)
          BY <1>4 DEF ScanOpens
      <2>2. /\ s \in Scan /\ s.at = "loop" /\ s.offset = scan[d].offset
            /\ s.errors = scan[d].errors /\ s.aborted = FALSE /\ s.done = FALSE
          BY <1>1, RunningScan DEF Scan
      <2> HIDE DEF s
      <2> QED
          BY <1>1, <1>2, <1>3, <2>1, <2>2, RunningScan, ScanMoves
  <1>5. CASE ScanGoesOn(d)
      <2> DEFINE s == [scan[d] EXCEPT !.at = "wait"]
      <2>1. scan[d].at = "loop" /\ scan[d].offset < Size /\ Becomes(d, s)
          BY <1>5 DEF ScanGoesOn
      <2>2. /\ s \in Scan /\ s.at = "wait" /\ s.offset = scan[d].offset
            /\ s.errors = scan[d].errors /\ s.aborted = FALSE /\ s.done = FALSE
          BY <1>1, RunningScan DEF Scan
      <2> HIDE DEF s
      <2> QED
          BY <1>1, <1>2, <1>3, <2>1, <2>2, RunningScan, ScanMoves
  <1>6. CASE ScanLeaves(d)
      <2> DEFINE s == Ended(scan[d])
      <2>1. scan[d].at = "loop" /\ Becomes(d, s)
          BY <1>6 DEF ScanLeaves
      <2>2. scan[d] \in Scan /\ scan[d].offset \in 0..Size /\ scan[d].aborted = FALSE
          BY <1>1, RunningScan
      <2>3. /\ s \in Scan /\ s.at = "report" /\ s.offset = scan[d].offset
            /\ s.errors = scan[d].errors
            /\ s.done => s.offset = Size
          BY <2>2, EndedScan, Sizes
      <2> HIDE DEF s
      <2> QED
          BY <1>1, <1>2, <1>3, <2>1, <2>3, RunningScan, ScanMoves
  <1>7. CASE ScanCannotOpen(d)
      <2> DEFINE s == [scan[d] EXCEPT !.at = "over", !.done = TRUE]
      <2>1. Becomes(d, s) /\ Faulty(d)'
          BY <1>7 DEF ScanCannotOpen, Faulty
      <2>2. s \in Scan /\ s.at = "over" /\ s.offset = scan[d].offset
          BY <1>1, RunningScan DEF Scan
      <2> HIDE DEF s
      <2> QED
          BY <1>1, <1>2, <1>3, <2>1, <2>2, RunningScan, ScanMoves
  <1> QED
      BY <1>4, <1>5, <1>6, <1>7

\* Steps that try the chunk at the offset.
LEMMA ScanTriesKeeps ==
    ASSUME IInv, NEW d \in Disks, ScanReads(d) \/ ScanFails(d) \/ ScanMeetsEnd(d)
    PROVE  IInv'
  <1> DEFINE o == scan[d].offset
             t == <<d, o>>
  <1>1. /\ scan[d].at = "wait"
        /\ UNCHANGED <<record, main, victim, entry, choice, writer, flags, bad, left,
                       verified, struck, findings>>
        /\ tried' = tried \cup {t}
      BY DEF ScanReads, ScanFails, ScanMeetsEnd, ScanTries, RestOfScan
  <1>2. /\ findings \subseteq findings' /\ findings' \subseteq Finding
        /\ \A x \in Disks : Faulty(x)' = Faulty(x)
      BY <1>1, RunningScan DEF Faulty
  <1>3. /\ tried \subseteq tried' /\ \A u \in tried' : u \in tried \/ u[1] = d
        /\ Met(d)' => Met(d) \/ t \in bad
      BY <1>1 DEF Met
  <1>4. /\ o \in 0..Size /\ o < Size /\ scan[d].errors \in 0..MaxReadErrors
        /\ scan[d] \in Scan /\ scan[d].errors < MaxReadErrors /\ scan[d].aborted = FALSE
        /\ scan[d].done = FALSE /\ Scanned(d, o)
        /\ left = MaxDeaths /\ Met(d) => Faulty(d) \/ scan[d].errors > 0
      BY <1>1, RunningScan
  <1>5. \A n : n = o \/ n = o + 1 => Scanned(d, n)'
      <2> SUFFICES ASSUME NEW c \in 0..o PROVE <<d, c>> \in tried'
          BY <1>4, Sizes DEF Scanned
      <2>1. CASE c = o
          BY <1>1, <2>1
      <2>2. CASE c # o
          BY <1>1, <1>4, <2>2, Sizes DEF Scanned
      <2> QED
          BY <2>1, <2>2
  <1> HIDE DEF o
  <1>6. o = scan[d].offset /\ o + 1 \in 0..Size
      BY <1>4, Sizes DEF o
  \* A chunk that is read.
  <1>7. CASE ScanReads(d)
      <2> DEFINE s == [scan[d] EXCEPT !.at = "loop", !.offset = o + 1]
      <2>1. Becomes(d, s) /\ t \notin bad
          BY <1>6, <1>7 DEF ScanReads
      <2>2. /\ s \in Scan /\ s.at = "loop" /\ s.offset = o + 1
            /\ s.errors = scan[d].errors /\ s.aborted = FALSE /\ s.done = FALSE
          BY <1>4, <1>6 DEF Scan
      <2> HIDE DEF s
      <2>3. Met(d)' => Met(d)
          BY <1>3, <2>1
      <2> QED
          BY <1>1, <1>2, <1>3, <1>4, <1>5, <2>1, <2>2, <2>3, ScanMoves
  \* One that is not.
  <1> DEFINE failed == [scan[d] EXCEPT !.errors = @ + 1]
             given == [failed EXCEPT !.aborted = TRUE]
             on == [failed EXCEPT !.at = "loop", !.offset = o + 1]
  <1>8. /\ failed \in Scan /\ failed.errors > 0 /\ failed.errors \in 0..MaxReadErrors
        /\ failed.offset = o /\ failed.aborted = FALSE /\ failed.done = FALSE
      <2>1. scan[d].errors + 1 \in 0..MaxReadErrors /\ scan[d].errors + 1 > 0
          BY <1>4, Sizes
      <2> QED
          BY <1>4, <1>6, <2>1 DEF Scan
  <1>9. CASE ScanMeetsEnd(d)
      <2> DEFINE s == Ended(failed)
      <2>1. Becomes(d, s)
          BY <1>9 DEF ScanMeetsEnd
      <2> HIDE DEF failed
      <2>2. s \in Scan /\ s.at = "report" /\ s.offset = o /\ s.errors > 0
          BY <1>8, EndedScan
      <2> HIDE DEF s
      <2> QED
          BY <1>1, <1>2, <1>3, <1>5, <2>1, <2>2, ScanMoves
  <1>10. CASE ScanFails(d) /\ failed.errors >= MaxReadErrors
      <2> DEFINE s == Ended(given)
      <2>1. Becomes(d, s)
          BY <1>10 DEF ScanFails
      <2> HIDE DEF failed
      <2>2. given \in Scan /\ given.errors > 0 /\ given.offset = o
          BY <1>8 DEF Scan
      <2> HIDE DEF given
      <2>3. s \in Scan /\ s.at = "report" /\ s.offset = o /\ s.errors > 0
          BY <2>2, EndedScan
      <2> HIDE DEF s
      <2> QED
          BY <1>1, <1>2, <1>3, <1>5, <2>1, <2>3, ScanMoves
  <1>11. CASE ScanFails(d) /\ ~(failed.errors >= MaxReadErrors)
      <2>1. Becomes(d, on)
          BY <1>6, <1>8, <1>11 DEF ScanFails
      <2> HIDE DEF failed
      <2>2. /\ on \in Scan /\ on.at = "loop" /\ on.offset = o + 1 /\ on.errors > 0
            /\ on.errors < MaxReadErrors /\ on.aborted = FALSE /\ on.done = FALSE
          <3>1. failed.errors < MaxReadErrors
              BY <1>8, <1>11, Sizes
          <3> QED
              BY <1>6, <1>8, <3>1 DEF Scan
      <2> HIDE DEF on
      <2> QED
          BY <1>1, <1>2, <1>3, <1>5, <2>1, <2>2, ScanMoves
  <1> QED
      BY <1>7, <1>9, <1>10, <1>11

-----------------------------------------------------------------------------

LEMMA Inductive == IInv /\ [Next]_vars => IInv'
  <1> SUFFICES ASSUME IInv, [Next]_vars PROVE IInv'
      OBVIOUS
  <1>1. CASE UNCHANGED vars
      <2>1. UNCHANGED <<record, saved, kept, ended, failing, findings, main, victim, entry, choice, scan, writer, stopping,
                        paused, pending, cancel, bad, left, tried, verified, struck>>
          BY <1>1 DEF vars, record, stick, flags, world
      <2>2. (TypeOK /\ Before /\ Asked /\ Closed /\ Counted /\ Ending)'
          BY <2>1 DEF IInv, TypeOK, Before, Asked, Closed, Counted, Ending
      <2>3. \A d \in Disks : PerDisk(d)'
          BY <2>1, Saves, QuietKeepsDisks
      <2> QED
          BY <2>2, <2>3 DEF IInv
  <1>2. CASE Next
      <2>1. CASE Over
          BY <1>1, <2>1 DEF Over
      <2>2. CASE \E d \in Disks : ScanOpens(d) \/ ScanGoesOn(d) \/ ScanLeaves(d) \/ ScanCannotOpen(d)
          BY <2>2, ScanGoesKeeps
      <2>3. CASE \E d \in Disks : ScanReads(d) \/ ScanFails(d) \/ ScanMeetsEnd(d)
          BY <2>3, ScanTriesKeeps
      <2>4. CASE \E d \in Disks : WriterExits(d) \/ StopWriter(d)
          BY <2>4, WriterSteps
      <2>5. CASE \E d \in Disks : ScanReports(d)
          BY <2>5, ProgressSteps
      <2> QED
          BY <1>2, <2>1, <2>2, <2>3, <2>4, <2>5, TalkKeeps, ChooseKeeps, PlainSaveKeeps, DieKeeps,
             StartScansKeeps, ProgressSteps, WriterSteps
             DEF Next
  <1> QED
      BY <1>1, <1>2

LEMMA Invariance == Spec => []IInv
  BY InitHolds, Inductive, PTL DEF Spec

\* The attributes of DiskManager, its scans and its writers keep their shape.
THEOREM TypeCorrect == Spec => []TypeOK
  <1>1. IInv => TypeOK
      BY DEF IInv
  <1> QED
      BY <1>1, Invariance, PTL

\* The coverage the report claims: once the disk tests are over on the stick, a
\* disk they call done, and not incomplete, was scanned chunk by chunk or
\* verified to its end, or has a fault on record - unless the program has died
\* while the stick said done too early.
THEOREM DoneEarned == Spec => []DoneIsEarned
  <1>1. IInv => DoneIsEarned
      <2> SUFFICES ASSUME IInv, ended, ~struck, NEW d \in Disks, saved[d].done,
                          ~saved[d].incomplete, scan[d].at # "report"
                   PROVE  Covered(d) \/ Faulty(d)
          BY DEF DoneIsEarned
      <2>1. ~Early(d)
          BY DEF IInv, Closed, Early, Marking
      <2>2. Earned(saved[d], d)
          BY <2>1 DEF IInv, PerDisk, SavedIsEarned, Due
      <2> QED
          BY <2>2 DEF Earned, Covered, Scanned
  <1> QED
      BY <1>1, Invariance, PTL

\* report_scan: a scan that nothing interrupted reports the unreadable chunks it met.
THEOREM ErrorsReported == Spec => []ErrorsAreReported
  <1>1. IInv => ErrorsAreReported
      BY DEF IInv, PerDisk, ErrorsKept, ErrorsAreReported
  <1> QED
      BY <1>1, Invariance, PTL

\* start_disk_tests: fio runs with the yes on the stick, or while no save of the
\* program has worked since it was given.
THEOREM WritesChosen == Spec => []WritesAreChosen
  <1>1. IInv => WritesAreChosen
      BY DEF IInv, PerDisk, WriterSound, Record, Asked, WritesAreChosen
  <1> QED
      BY <1>1, Invariance, PTL
=============================================================================
