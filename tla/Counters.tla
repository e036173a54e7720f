------------------------------ MODULE Counters ------------------------------
(***************************************************************************)
(* One source of hardware errors and everything between it and the         *)
(* finding on the stick: the monitor that polls a counter with a cursor    *)
(* (monitors.py, ras.py), the kernel log reader that meets the same error  *)
(* as a message (kmsg.py), the heartbeat, the saves of the session that    *)
(* carry the cursors, and the final sample of the main thread.             *)
(*                                                                         *)
(* A source is one of the cursor disciplines of the code:                  *)
(*   edac, ue   corrected and uncorrected errors of a DIMM                 *)
(*   aer        corrected PCIe errors, also told by the kernel log         *)
(*   throttle   likewise, without a threshold                              *)
(*   ras        rows of a database, taken one by one                       *)
(*   nic        the first value seen on a boot is the baseline             *)
(*   sel        the BMC's log: outlives the boot, baseline once, and saved *)
(*              by the monitor itself                                      *)
(*   mce        told by the kernel log only                                *)
(***************************************************************************)
EXTENDS Integers, FiniteSets

CONSTANTS
    Sources,     \* the disciplines to consider
    Threshold,   \* ce_fail, aer_fail, mce_fail
    RingSize,    \* records the kernel's ring buffer holds
    Batch,       \* kernel.log is written after so many lines (200)
    Bounds       \* for each source: how many errors, polls that raise, deaths of
                 \* the program that leave the machine up, and resets

Polled == {"edac", "ue", "aer", "throttle", "ras", "nic", "sel"}
KernelTold == {"aer", "throttle", "mce"}
Baselined == {"nic", "sel"}
Thresholded == {"edac", "aer", "ras", "sel", "mce"}

ASSUME CountersAssumption ==
    /\ Sources \subseteq Polled \cup KernelTold
    /\ Threshold \in Nat \ {0} /\ RingSize \in Nat \ {0} /\ Batch \in Nat \ {0}
    /\ Bounds \in [Sources -> [errors : Nat, raises : Nat, dies : Nat, resets : Nat]]

Threads == {"monitor", "main", "kmsg", "heartbeat"}

\* A cursor that the session does not have yet.
Absent == -1

VARIABLES
    source,    \* which source this is
    errors,    \* errors it shows: a counter, rows, events or log records
    session,   \* cursors in Session.state: of the monitor, and kmsg's last_seq
    stored,    \* the same on the stick
    items,     \* the finding of this source, and those that say coverage was lost
    saved,     \* findings on the stick
    dirty,     \* Findings._dirty
    up,        \* the program runs
    pc, then,  \* where each thread is, and where it goes after a flush
    got,       \* what a poll, or kmsg, has read
    snap,      \* the snapshot a thread is writing
    lock,      \* holder of the monitor's poll_lock
    pos,       \* next record of the ring buffer kmsg will be given
    pending,   \* records read and not yet in kernel.log
    logged,    \* records of this boot in kernel.log
    history,   \* see Init
    left       \* errors, raising polls, deaths and resets still to come

vars == <<source, errors, session, stored, items, saved, dirty, up, pc, then, got,
          snap, lock, pos, pending, logged, history, left>>

threads == <<pc, then, got, snap, lock>>
kernel == <<pos, pending, logged>>

None == [count |-> 0, rank |-> 0, gaps |-> {}]

\* Findings only grow, so of two snapshots the larger one is the newer one.
Newer(f, g) == [count |-> IF f.count > g.count THEN f.count ELSE g.count,
                rank  |-> IF f.rank > g.rank THEN f.rank ELSE g.rank,
                gaps  |-> f.gaps \cup g.gaps]

NoCursors == [cursor |-> Absent, seq |-> 0]

Severity == IF source = "ue" THEN 2 ELSE 1

Prev == IF session.cursor = Absent THEN 0 ELSE session.cursor

Oldest == IF errors > RingSize THEN errors - RingSize + 1 ELSE 1

Idle == /\ pc = [t \in Threads |-> "idle"] /\ then = [t \in Threads |-> "idle"]
        /\ got = [t \in Threads |-> 0] /\ snap = [t \in Threads |-> None]
        /\ lock = "free" /\ pos = 0 /\ pending = {}

Init ==
    /\ source \in Sources /\ errors = 0
    /\ session = NoCursors /\ stored = NoCursors
    /\ items = None /\ saved = None /\ dirty = FALSE
    /\ up = FALSE /\ Idle /\ logged = {}
    \* total: errors of all boots; earlier: what the cursors of earlier boots
    \* had passed; base: what a baseline left out; sampled: value of the final
    \* sample; unseen: records that were neither logged nor in the ring
    \* buffer when it was opened; died, torn: a death of
    \* the program on the same boot, and a death during a flush; quiet: all other threads had ended before
    \* the last flush
    /\ history = [total |-> 0, earlier |-> 0, base |-> 0, sampled |-> 0,
                  unseen |-> {}, died |-> FALSE, torn |-> FALSE, reset |-> FALSE, quiet |-> FALSE]
    /\ left = Bounds[source]

-----------------------------------------------------------------------------
(* The machine.                                                            *)

HardwareError ==
    /\ left.errors > 0 /\ pc["main"] # "done"
    /\ left' = [left EXCEPT !.errors = @ - 1]
    /\ errors' = errors + 1
    /\ history' = [history EXCEPT !.total = @ + 1]
    /\ UNCHANGED <<source, session, stored, items, saved, dirty, up, threads, kernel>>

\* Some thread is inside flush: what it has to write is not on the stick yet, and
\* another thread may rely on it.
Flushing == \E t \in Threads : pc[t] \in {"flush", "write"}

Down(why) ==
    /\ up' = FALSE
    /\ pc' = [t \in Threads |-> "idle"] /\ then' = [t \in Threads |-> "idle"]
    /\ got' = [t \in Threads |-> 0] /\ snap' = [t \in Threads |-> None]
    /\ lock' = "free" /\ pos' = 0 /\ pending' = {}
    /\ items' = saved /\ dirty' = FALSE
    /\ left' = [left EXCEPT ![why] = @ - 1]
    /\ UNCHANGED <<source, saved>>

\* The program dies and the machine stays up: the counters go on.
Die ==
    /\ up /\ left.dies > 0 /\ pc["main"] # "done"
    /\ Down("dies")
    /\ session' = stored
    /\ history' = [history EXCEPT !.died = TRUE, !.torn = @ \/ Flushing]
    /\ UNCHANGED <<errors, stored, logged>>

\* Mutant of Reset: the cursors are not kept per boot.
ResetKeepsCursors ==
    /\ up /\ left.resets > 0 /\ pc["main"] # "done"
    /\ Down("resets")
    /\ errors' = IF source = "sel" THEN errors ELSE 0
    /\ session' = stored
    /\ logged' = {}
    /\ history' = [history EXCEPT !.reset = TRUE, !.unseen = {}]
    /\ UNCHANGED stored

\* The machine resets: counters and the kernel log start over, and the cursors
\* are kept under another boot_id.  The BMC does not notice.
Reset ==
    /\ up /\ left.resets > 0 /\ pc["main"] # "done"
    /\ Down("resets")
    /\ errors' = IF source = "sel" THEN errors ELSE 0
    /\ stored' = IF source = "sel" THEN stored ELSE NoCursors
    /\ session' = stored'
    /\ logged' = {}
    /\ history' = [history EXCEPT
          !.reset = TRUE, !.torn = @ \/ Flushing, !.unseen = {},
          !.earlier = IF source = "sel" THEN @
                      ELSE @ + (IF stored.cursor = Absent THEN 0 ELSE stored.cursor)
                             + stored.seq]

\* main: findings and session are read back, the threads start (those that have
\* to do with the source).
Start ==
    /\ ~up /\ up' = TRUE
    /\ pc' = [pc EXCEPT !["kmsg"] = IF source \in KernelTold THEN "open" ELSE "ended",
                        !["monitor"] = IF source \in Polled THEN "idle" ELSE "ended"]
    /\ got' = [got EXCEPT !["kmsg"] = session.seq]
    /\ UNCHANGED <<source, errors, session, stored, items, saved, dirty, then, snap,
                   lock, kernel, history, left>>

Environment == HardwareError \/ Die \/ Reset \/ Start

-----------------------------------------------------------------------------
(* Findings.add, escalate and flush.  The snapshot is taken under the lock *)
(* and written after it, as in FindingsStore.                              *)

At(t, where) == up /\ pc[t] = where

Goto(t, where) == pc' = [pc EXCEPT ![t] = where]

\* Flush, and go on where afterwards.
FlushThen(t, where) ==
    /\ Goto(t, "flush") /\ then' = [then EXCEPT ![t] = where]

\* Mutant of AddFinding: only a FAIL is urgent.
AddFindingLazily(t, rank, count, where) ==
    /\ items' = [items EXCEPT
          !.count = IF @ = 0 /\ count = 0 THEN 1 ELSE @ + count,
          !.rank = IF rank > @ THEN rank ELSE @]
    /\ dirty' = TRUE
    /\ IF rank = 2
       THEN FlushThen(t, where)
       ELSE Goto(t, where) /\ UNCHANGED then

\* add for thread t: urgent findings are flushed.  A new finding counts at least 1.
AddFinding(t, rank, count, where) ==
    /\ items' = [items EXCEPT
          !.count = IF @ = 0 /\ count = 0 THEN 1 ELSE @ + count,
          !.rank = IF rank > @ THEN rank ELSE @]
    /\ dirty' = TRUE
    /\ IF items.count = 0 \/ rank = 2
       THEN FlushThen(t, where)
       ELSE Goto(t, where) /\ UNCHANGED then

\* A finding that says coverage was lost; repeated, it changes nothing.
AddGap(t, key, where) ==
    /\ items' = [items EXCEPT !.gaps = @ \cup {key}]
    /\ IF key \in items.gaps
       THEN Goto(t, where) /\ UNCHANGED <<then, dirty>>
       ELSE FlushThen(t, where) /\ dirty' = TRUE

FlushEnds(t) == Goto(t, then[t]) /\ then' = [then EXCEPT ![t] = "idle"]

Snapshot(t) ==
    /\ At(t, "flush")
    /\ IF dirty
       THEN /\ snap' = [snap EXCEPT ![t] = items] /\ dirty' = FALSE
            /\ Goto(t, "write") /\ UNCHANGED then
       ELSE FlushEnds(t) /\ UNCHANGED <<snap, dirty>>
    /\ UNCHANGED <<source, errors, session, stored, items, saved, up, got, lock, kernel,
                   history, left>>

Write(t) ==
    /\ At(t, "write")
    /\ saved' = Newer(saved, snap[t])
    /\ snap' = [snap EXCEPT ![t] = None]
    /\ FlushEnds(t)
    /\ UNCHANGED <<source, errors, session, stored, items, dirty, up, got, lock, kernel,
                   history, left>>

-----------------------------------------------------------------------------
(* A poll, by the monitor's own thread or by main for the final sample.    *)

Pollers == {"monitor", "main"}

\* The monitor polls until it is told to stop, main once.
PollDue(t) == At(t, IF t = "main" THEN "sample" ELSE "idle")

\* Mutant of BeginPoll: the final sample does not ask for the lock.
BeginPollUnlocked(t) ==
    /\ PollDue(t)
    /\ t = "main" \/ lock = "free"
    /\ lock' = t
    /\ Goto(t, "read")
    /\ UNCHANGED <<source, errors, session, stored, items, saved, dirty, up, then,
                   got, snap, kernel, history, left>>

\* sample takes poll_lock.
BeginPoll(t) ==
    /\ PollDue(t)
    /\ lock = "free" /\ lock' = t
    /\ Goto(t, "read")
    /\ UNCHANGED <<source, errors, session, stored, items, saved, dirty, up, then,
                   got, snap, kernel, history, left>>

\* poll raises: the finding of sample says so.
Raise(t) ==
    /\ At(t, "read") /\ left.raises > 0
    /\ left' = [left EXCEPT !.raises = @ - 1]
    /\ AddGap(t, "monitor-error", "leave")
    /\ UNCHANGED <<source, errors, session, stored, saved, up, got, snap, lock,
                   kernel, history>>

\* The value is read once and used for the finding and for the cursor.
Read(t) ==
    /\ At(t, "read")
    /\ got' = [got EXCEPT ![t] = errors]
    /\ \/ /\ ~(source \in Baselined /\ session.cursor = Absent)
          /\ Goto(t, IF errors > Prev THEN "add" ELSE "advance")
          /\ UNCHANGED <<session, history>>
       \* NicMonitor.poll, IpmiMonitor.baseline: what was there before the test
       \/ /\ source \in Baselined /\ session.cursor = Absent
          /\ session' = [session EXCEPT !.cursor = errors]
          /\ history' = [history EXCEPT !.base = errors]
          /\ Goto(t, IF source = "sel" THEN "saves" ELSE "leave")
    /\ UNCHANGED <<source, errors, stored, items, saved, dirty, up, then, snap, lock,
                   kernel, left>>

\* RasMonitor takes one row, the others the difference.
Add(t) ==
    /\ At(t, "add")
    /\ AddFinding(t, Severity, IF source = "ras" THEN 1 ELSE got[t] - Prev, "check")
    /\ UNCHANGED <<source, errors, session, stored, saved, up, got, snap, lock,
                   kernel, history, left>>

\* Mutant of Reached: more than the threshold.
Exceeded == source \in Thresholded /\ items.count > Threshold

\* The threshold is compared with the count of the finding as it is now.
Reached == source \in Thresholded /\ items.count >= Threshold

\* Mutant of Check: escalate leaves the writing to the heartbeat.
CheckUnflushed(t) ==
    /\ At(t, "check")
    /\ IF Reached
       THEN items' = [items EXCEPT !.rank = 2] /\ dirty' = (dirty \/ items.rank < 2)
       ELSE UNCHANGED <<items, dirty>>
    /\ Goto(t, IF t = "kmsg" THEN "idle" ELSE "advance")
    /\ UNCHANGED <<source, errors, session, stored, saved, up, then, got, snap, lock,
                   kernel, history, left>>

\* escalate flushes whether or not it changed anything.
Check(t) ==
    /\ At(t, "check")
    /\ IF Reached
       THEN /\ items' = [items EXCEPT !.rank = 2]
            /\ dirty' = (dirty \/ items.rank < 2)
            /\ FlushThen(t, IF t = "kmsg" THEN "idle" ELSE "advance")
       ELSE /\ Goto(t, IF t = "kmsg" THEN "idle" ELSE "advance")
            /\ UNCHANGED <<items, dirty, then>>
    /\ UNCHANGED <<source, errors, session, stored, saved, up, got, snap, lock,
                   kernel, history, left>>

\* Mutant of Advance: the counter is read again.
AdvanceToNow(t) ==
    /\ At(t, "advance")
    /\ session' = [session EXCEPT !.cursor = errors]
    /\ Goto(t, IF source = "sel" THEN "saves" ELSE "leave")
    /\ UNCHANGED <<source, errors, stored, items, saved, dirty, up, then, got, snap,
                   lock, kernel, history, left>>

\* The cursor moves behind what was recorded; RasMonitor goes on with the next row.
Advance(t) ==
    /\ At(t, "advance")
    /\ LET seen == IF source = "ras" /\ got[t] > Prev THEN Prev + 1 ELSE got[t]
       IN  /\ session' = [session EXCEPT !.cursor = seen]
           /\ Goto(t, IF seen < got[t] THEN "add"
                      ELSE IF source = "sel" /\ seen > Prev THEN "saves" ELSE "leave")
    /\ UNCHANGED <<source, errors, stored, items, saved, dirty, up, then, got, snap,
                   lock, kernel, history, left>>

\* IpmiMonitor saves the session itself.
SaveCursor(t) ==
    /\ At(t, "saves")
    /\ stored' = session
    /\ Goto(t, "leave")
    /\ UNCHANGED <<source, errors, session, items, saved, dirty, up, then, got, snap,
                   lock, kernel, history, left>>

Leave(t) ==
    /\ At(t, "leave")
    /\ lock' = "free"
    /\ got' = [got EXCEPT ![t] = 0]
    /\ IF t = "main"
       THEN Goto(t, "stop") /\ history' = [history EXCEPT !.sampled = got[t]]
       ELSE Goto(t, "idle") /\ UNCHANGED history
    /\ UNCHANGED <<source, errors, session, stored, items, saved, dirty, up, then,
                   snap, kernel, left>>

Poll(t) == \/ BeginPoll(t) \/ Raise(t) \/ Read(t) \/ Add(t) \/ Check(t)
           \/ Advance(t) \/ SaveCursor(t) \/ Leave(t)

-----------------------------------------------------------------------------
(* KmsgMonitor.run: read, process, write a batch to kernel.log, and only   *)
(* then move last_seq.                                                     *)

KmsgOpens ==
    /\ At("kmsg", "open")
    /\ pos' = Oldest
    /\ history' = [history EXCEPT !.unseen = @ \cup (1..(Oldest - 1) \ logged)]
    /\ Goto("kmsg", "idle")
    /\ UNCHANGED <<source, errors, session, stored, items, saved, dirty, up, then,
                   got, snap, lock, pending, logged, left>>

KmsgUnavailable ==
    /\ At("kmsg", "open") /\ left.raises > 0
    /\ left' = [left EXCEPT !.raises = @ - 1]
    /\ AddGap("kmsg", "kmsg-unavailable", "ended")
    /\ UNCHANGED <<source, errors, session, stored, saved, up, got, snap, lock,
                   kernel, history>>

\* The cursor of the thread is ahead of the one in the session.
KmsgReads ==
    /\ At("kmsg", "idle")
    /\ Oldest <= pos /\ pos <= errors
    /\ pos' = pos + 1
    /\ IF pos <= got["kmsg"]
       THEN UNCHANGED <<got, pending, pc>>
       ELSE /\ got' = [got EXCEPT !["kmsg"] = pos]
            /\ pending' = pending \cup {pos}
            /\ Goto("kmsg", "process")
    /\ UNCHANGED <<source, errors, session, stored, items, saved, dirty, up, then,
                   snap, lock, logged, history, left>>

\* EPIPE: the record to be read next is overwritten.
KmsgOverrun ==
    /\ At("kmsg", "idle")
    /\ pos < Oldest
    /\ AddGap("kmsg", "kmsg-overrun", "idle")
    /\ pos' = Oldest
    /\ UNCHANGED <<source, errors, session, stored, saved, up, got, snap, lock,
                   pending, logged, history, left>>

\* _process: where a monitor owns the count, the message is only evidence.
KmsgProcesses ==
    /\ At("kmsg", "process")
    /\ AddFinding("kmsg", 1, IF source \in Polled THEN 0 ELSE 1,
                  IF source \in Polled THEN "idle" ELSE "check")
    /\ UNCHANGED <<source, errors, session, stored, saved, up, got, snap, lock,
                   kernel, history, left>>

\* Mutant of KmsgLogs: the cursor moves before the file is written.
KmsgLogsLate ==
    /\ At("kmsg", "idle") /\ pending # {}
    /\ pos > errors \/ Cardinality(pending) >= Batch
    /\ session' = [session EXCEPT !.seq = got["kmsg"]]
    /\ logged' = logged /\ Goto("kmsg", "acknowledge")
    /\ UNCHANGED <<source, errors, stored, items, saved, dirty, up, then, got, snap,
                   lock, pos, pending, history, left>>

\* A batch is written when nothing is left to read or it is full.
KmsgLogs ==
    /\ At("kmsg", "idle") /\ pending # {}
    /\ pos > errors \/ Cardinality(pending) >= Batch
    /\ logged' = logged \cup pending
    /\ pending' = {}
    /\ Goto("kmsg", "acknowledge")
    /\ UNCHANGED <<source, errors, session, stored, items, saved, dirty, up, then,
                   got, snap, lock, pos, history, left>>

KmsgAcknowledges ==
    /\ At("kmsg", "acknowledge")
    /\ session' = [session EXCEPT !.seq = got["kmsg"]]
    /\ Goto("kmsg", "idle")
    /\ UNCHANGED <<source, errors, stored, items, saved, dirty, up, then, got, snap,
                   lock, kernel, history, left>>

Kmsg == \/ KmsgOpens \/ KmsgUnavailable \/ KmsgReads \/ KmsgOverrun \/ KmsgProcesses
        \/ Check("kmsg") \/ KmsgLogs \/ KmsgAcknowledges

-----------------------------------------------------------------------------
(* The heartbeat, the saves, and the end of the run.                       *)

\* Any thread saves the session, and the cursors of all monitors with it.
Save ==
    /\ up /\ stored' = session
    /\ UNCHANGED <<source, errors, session, items, saved, dirty, up, threads, kernel,
                   history, left>>

HeartbeatFlush ==
    /\ At("heartbeat", "idle") /\ dirty /\ pc["main"] # "done"
    /\ snap' = [snap EXCEPT !["heartbeat"] = items] /\ dirty' = FALSE
    /\ Goto("heartbeat", "write")
    /\ UNCHANGED <<source, errors, session, stored, items, saved, up, then, got, lock,
                   kernel, history, left>>

Main(from, to) ==
    /\ At("main", from) /\ Goto("main", to)
    /\ UNCHANGED <<source, errors, session, stored, items, saved, dirty, up, then, got,
                   snap, lock, kernel, history, left>>

\* finalize: a last sample of every Monitor, which KmsgMonitor is not.
FinalSamples == Main("idle", IF source \in Polled THEN "sample" ELSE "stop")

StopMonitors == Main("stop", "join")

Stopping == pc["main"] \in {"join", "done"} \/ then["main"] = "done"

\* stop_event is seen; kmsg writes out what it has read.
ThreadEnds(t) ==
    /\ Stopping /\ At(t, "idle")
    /\ Goto(t, "ended")
    /\ IF t = "kmsg"
       THEN logged' = logged \cup pending /\ pending' = {}
       ELSE UNCHANGED <<logged, pending>>
    /\ UNCHANGED <<source, errors, session, stored, items, saved, dirty, up, then, got,
                   snap, lock, pos, history, left>>

\* The joins may have timed out.  This flush writes in any case.
LastFlush ==
    /\ At("main", "join")
    /\ snap' = [snap EXCEPT !["main"] = items] /\ dirty' = FALSE
    /\ Goto("main", "write") /\ then' = [then EXCEPT !["main"] = "done"]
    /\ history' = [history EXCEPT !.quiet = /\ pc["monitor"] = "ended" /\ pc["kmsg"] = "ended"
                                           /\ pc["heartbeat"] = "idle"]
    /\ UNCHANGED <<source, errors, session, stored, items, saved, up, got, lock, kernel,
                   left>>

Finalize == FinalSamples \/ StopMonitors \/ LastFlush

Over == pc["main"] = "done" /\ UNCHANGED vars

Next ==
    \/ Environment
    \/ \E t \in Pollers : Poll(t)
    \/ Kmsg
    \/ \E t \in Threads : Snapshot(t) \/ Write(t)
    \/ \E t \in {"monitor", "kmsg"} : ThreadEnds(t)
    \/ Save \/ HeartbeatFlush \/ Finalize \/ Over

Spec == Init /\ [][Next]_vars

\* Threads that have started something go on; the service starts the program.
\* Nothing is assumed of the hardware, nor of how often the heartbeat comes.
FairSpec ==
    /\ Spec
    /\ WF_vars(Start)
    /\ \A t \in Pollers : WF_vars(Poll(t))
    /\ WF_vars(Kmsg)
    /\ \A t \in Threads : WF_vars(Snapshot(t) \/ Write(t))

-----------------------------------------------------------------------------
(* Properties.                                                             *)

Findings == [count : Nat, rank : 0..2,
             gaps : SUBSET {"monitor-error", "kmsg-overrun", "kmsg-unavailable"}]

Points == {"idle", "sample", "read", "add", "check", "advance", "saves", "leave",
           "flush", "write", "open", "process", "acknowledge", "stop", "join",
           "done", "ended"}

\* Types; and no cursor, in memory or on the stick, is ahead of its source: a
\* counter that starts over with the boot takes its cursor along.
TypeOK ==
    /\ source \in Sources /\ errors \in 0..Bounds[source].errors
    /\ \A c \in {session, stored} : c.cursor \in Absent..errors /\ c.seq \in 0..errors
    /\ items \in Findings /\ saved \in Findings
    /\ dirty \in BOOLEAN /\ up \in BOOLEAN
    /\ pc \in [Threads -> Points] /\ then \in [Threads -> Points]
    /\ got \in [Threads -> Nat] /\ snap \in [Threads -> Findings]
    /\ lock \in {"free"} \cup Pollers
    /\ pos \in 0..(errors + 1)
    /\ pending \in SUBSET (1..errors) /\ logged \in SUBSET (1..errors)

\* What the kernel log may add to a count that a monitor owns: a message that
\* comes first creates the finding, and a new finding counts 1.
Extra == IF source \in KernelTold \cap Polled THEN 1 ELSE 0

\* No error is counted twice, by the monitor and the final sample, by the
\* monitor and the kernel log, or before and after a reset: poll_lock, and
\* cursors that are kept per boot.  Left out are restarts of the program on the
\* same boot, and the BMC's log across a reset, whose cursors may be behind.
CountedOnce ==
    ~history.died /\ (source = "sel" => ~history.reset)
        => items.count <= history.total + Extra

\* With no restart, the report counts every error the final sample saw
\* (finalize's mon.sample), unless it says that a poll was lost.
FinalCountIsComplete ==
    pc["main"] = "done" /\ ~history.died /\ ~history.reset /\ saved.gaps = {}
        => saved.count >= history.sampled - history.base

\* A cursor on the stick says that something was recorded: then the finding is
\* there too, and all counts of an uncorrectable error (findings.add flushes what
\* is new or FAIL before the poll moves its cursor).  Left out are deaths
\* during a flush of another thread, which clears _dirty before it writes.
CursorsHaveEvidence ==
    ~history.torn /\ ~Flushing /\ source \notin Baselined =>
        LET cursor == IF stored.cursor = Absent THEN 0 ELSE stored.cursor
            passed == history.earlier + cursor + stored.seq
        IN  /\ passed > 0 => saved.count > 0
            /\ source = "ue" => saved.count >= passed

\* When the run ends after all monitors have, a count at the threshold is a FAIL
\* (escalate), also when the program was restarted between the count and the
\* escalation.
ThresholdFails ==
    LET over == /\ pc["main"] = "done" /\ history.quiet
                /\ ~history.reset /\ ~history.torn /\ saved.gaps = {}
    IN  over /\ source \in Thresholded \ (IF history.died THEN {"mce"} ELSE {})
            => (saved.count >= Threshold => saved.rank = 2)

\* Every record that last_seq on the stick has passed is in kernel.log, unless it
\* was gone when the device was opened or a finding says so: the cursor moves after
\* the batch was synced.
PassedIsLogged ==
    ~history.torn /\ ~Flushing =>
        \A n \in 1..stored.seq :
            n \in logged \/ n \in history.unseen \/ saved.gaps # {}

\* Errors that reach the threshold become a FAIL on the stick, whenever the
\* heartbeat comes, or a finding says what was lost.
FailReachesTheStick ==
    (source \in Thresholded \ Baselined /\ history.total >= Threshold)
        ~> (\/ saved.rank = 2 \/ items.gaps # {} \/ history.unseen # {}
            \/ history.died \/ history.reset \/ Stopping)

\* kmsg.py:199, "the sysfs monitor owns the count": a FAIL for corrected errors
\* needs as many of them as the threshold says.
FailNeedsThreshold ==
    source \in Thresholded /\ items.rank = 2 => history.total >= Threshold
=============================================================================
