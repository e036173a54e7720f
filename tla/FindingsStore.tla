--------------------------- MODULE FindingsStore ---------------------------
(***************************************************************************)
(* The findings of findings.py between the threads that add them and the   *)
(* two slots of findings.json.  The dictionary is guarded by a lock, the   *)
(* writing is not: flush takes a snapshot and a sequence number under the  *)
(* lock and writes after it let go, so several threads may be writing.     *)
(*                                                                         *)
(* atomic_write is taken apart: writers of the same slot share the name of *)
(* the temporary file, and with it the file itself.  A file is a member of *)
(* Files; slots and tmp are the directory entries.                         *)
(***************************************************************************)
EXTENDS Naturals, FiniteSets

CONSTANTS
    Keys,        \* finding keys
    Monitors,    \* monitor threads
    Files,       \* enough files for all entries and open handles
    None,        \* no file
    MaxAdds,     \* bounds: calls of add and escalate,
    MaxFails,    \*   writes that end in an OSError,
    MaxDeaths    \*   deaths of the program

ASSUME FindingsAssumption ==
    /\ None \notin Files /\ IsFiniteSet(Monitors)
    /\ Cardinality(Files) >= 5 + Cardinality(Monitors)
    /\ "main" \notin Monitors
    /\ MaxAdds \in Nat /\ MaxFails \in Nat /\ MaxDeaths \in Nat

Threads == Monitors \cup {"main"}

\* Severity of a finding: 0 = no such finding, 1 = WARN, 2 = FAIL.
Rank == 0..2

Nothing == [k \in Keys |-> 0]

\* What a file may hold: a snapshot, or something that does not parse.
Damaged == [seq |-> 0, items |-> Nothing]

VARIABLES
    items,      \* _items: severity of every finding
    dirty,      \* _dirty
    seq,        \* _seq; 0 here is the -1 of a store that was never written
    pc,         \* where each thread is inside add, escalate or flush
    snap,       \* the snapshot a thread is writing
    handle,     \* the file a thread has open
    content,    \* what is in a file
    tmp, slots, \* directory entries of the temporary files and the slots
    asked,      \* what the call of a thread has to make durable
    returned,   \* history: what calls that returned had to make durable
    ending,     \* finalize told the monitors to stop
    quiet,      \* and all of them had stopped before it flushed
    left        \* calls, failing writes and deaths still to come

vars == <<items, dirty, seq, pc, snap, handle, content, tmp, slots, asked,
          returned, ending, quiet, left>>

Slot(n) == n % 2

\* read_rotating
Stored(s) == IF slots[s] = None THEN Damaged ELSE content[slots[s]]

OnDisk == IF Stored(0).seq > Stored(1).seq THEN Stored(0) ELSE Stored(1)

Higher(f, g) == [k \in Keys |-> IF f[k] > g[k] THEN f[k] ELSE g[k]]

Only(k, r) == [Nothing EXCEPT ![k] = r]

-----------------------------------------------------------------------------
Init ==
    /\ items = Nothing /\ dirty = FALSE /\ seq = 0
    /\ pc = [t \in Threads |-> "idle"]
    /\ snap = [t \in Threads |-> Damaged]
    /\ handle = [t \in Threads |-> None]
    /\ content = [f \in Files |-> Damaged]
    /\ tmp = [s \in {0, 1} |-> None] /\ slots = [s \in {0, 1} |-> None]
    /\ asked = [t \in Threads |-> Nothing] /\ returned = Nothing
    /\ ending = FALSE /\ quiet = FALSE
    /\ left = [adds |-> MaxAdds, fails |-> MaxFails, deaths |-> MaxDeaths]

\* A call returns: what it was asked for counts as done.
Return(t, where) ==
    /\ pc' = [pc EXCEPT ![t] = where]
    /\ returned' = Higher(returned, asked[t])
    /\ asked' = [asked EXCEPT ![t] = Nothing]
    /\ snap' = [snap EXCEPT ![t] = Damaged]
    /\ handle' = [handle EXCEPT ![t] = None]

\* finalize makes its own last checks before it stops the monitors.
Calling(t) == pc[t] = "idle" /\ left.adds > 0 /\ ~(t = "main" /\ ending)

\* Mutant of Add: a later, lower severity wins.
AddOverwrites(t) ==
    /\ Calling(t)
    /\ left' = [left EXCEPT !.adds = @ - 1]
    /\ \E k \in Keys, severity \in {1, 2} :
          /\ items' = [items EXCEPT ![k] = severity]
          /\ IF items[k] = 0 \/ severity = 2
             THEN /\ pc' = [pc EXCEPT ![t] = "flush"]
                  /\ asked' = [asked EXCEPT ![t] = Only(k, severity)]
             ELSE UNCHANGED <<pc, asked>>
    /\ dirty' = TRUE
    /\ UNCHANGED <<seq, snap, handle, content, tmp, slots, returned, ending, quiet>>

\* add, under the lock.  Only a new finding or a FAIL is flushed at once.
Add(t) ==
    /\ Calling(t)
    /\ left' = [left EXCEPT !.adds = @ - 1]
    /\ \E k \in Keys, severity \in {1, 2} :
          /\ items' = Higher(items, Only(k, severity))
          /\ IF items[k] = 0 \/ severity = 2
             THEN /\ pc' = [pc EXCEPT ![t] = "flush"]
                  /\ asked' = [asked EXCEPT ![t] = Only(k, severity)]
             ELSE UNCHANGED <<pc, asked>>
    /\ dirty' = TRUE
    /\ UNCHANGED <<seq, snap, handle, content, tmp, slots, returned, ending, quiet>>

\* Mutant of Escalate: one rank up, whatever the rank is.
EscalateByOne(t) ==
    /\ Calling(t)
    /\ left' = [left EXCEPT !.adds = @ - 1]
    /\ \E k \in Keys : items[k] > 0 /\ items' = [items EXCEPT ![k] = @ + 1]
    /\ dirty' = TRUE
    /\ pc' = [pc EXCEPT ![t] = "flush"]
    /\ UNCHANGED <<seq, snap, handle, content, tmp, slots, asked, returned, ending,
                   quiet>>

\* escalate to FAIL, under the lock; it always flushes.
Escalate(t) ==
    /\ Calling(t)
    /\ left' = [left EXCEPT !.adds = @ - 1]
    /\ \E k \in Keys :
          IF items[k] = 1
          THEN /\ items' = [items EXCEPT ![k] = 2]
               /\ dirty' = TRUE
               /\ asked' = [asked EXCEPT ![t] = Only(k, 2)]
          ELSE UNCHANGED <<items, dirty, asked>>
    /\ pc' = [pc EXCEPT ![t] = "flush"]
    /\ UNCHANGED <<seq, snap, handle, content, tmp, slots, returned, ending, quiet>>

\* Heartbeat.poll flushes what is not urgent.
HeartbeatFlush(t) ==
    /\ pc[t] = "idle" /\ dirty
    /\ pc' = [pc EXCEPT ![t] = "flush"]
    /\ UNCHANGED <<items, dirty, seq, snap, handle, content, tmp, slots, asked,
                   returned, ending, quiet, left>>

\* finalize flushes whether the store is dirty or not.
Forced(t) == t = "main" /\ ending

\* flush, under the lock: nothing to do, or a snapshot and a number.
Snapshot(t) ==
    /\ pc[t] = "flush" /\ (dirty \/ Forced(t))
    /\ dirty' = FALSE
    /\ seq' = seq + 1
    /\ snap' = [snap EXCEPT ![t] = [seq |-> seq + 1, items |-> items]]
    /\ pc' = [pc EXCEPT ![t] = "open"]
    /\ UNCHANGED <<items, handle, content, tmp, slots, asked, returned, ending,
                   quiet, left>>

NothingToFlush(t) ==
    /\ pc[t] = "flush" /\ ~dirty /\ ~Forced(t)
    /\ Return(t, "idle")
    /\ UNCHANGED <<items, dirty, seq, content, tmp, slots, ending, quiet, left>>

Mine(t) == Slot(snap[t].seq)

InUse == {tmp[s] : s \in {0, 1}} \cup {slots[s] : s \in {0, 1}}
         \cup {handle[t] : t \in Threads}

\* open(tmp, "w") truncates the file of that name, whoever is writing it, or
\* makes a new one.
Open(t) ==
    /\ pc[t] = "open"
    /\ LET f == IF tmp[Mine(t)] # None THEN tmp[Mine(t)]
                ELSE CHOOSE g \in Files : g \notin InUse
       IN  /\ tmp' = [tmp EXCEPT ![Mine(t)] = f]
           /\ handle' = [handle EXCEPT ![t] = f]
           /\ content' = [content EXCEPT ![f] = Damaged]
    /\ pc' = [pc EXCEPT ![t] = "write"]
    /\ UNCHANGED <<items, dirty, seq, snap, slots, asked, returned, ending,
                   quiet, left>>

\* write, flush and fsync.  Over the bytes of another writer the result may or
\* may not parse.
Write(t) ==
    /\ pc[t] = "write"
    /\ \E c \in IF content[handle[t]] = Damaged
               THEN {snap[t]} ELSE {snap[t], Damaged} :
          content' = [content EXCEPT ![handle[t]] = c]
    /\ pc' = [pc EXCEPT ![t] = "replace"]
    /\ UNCHANGED <<items, dirty, seq, snap, handle, tmp, slots, asked, returned,
                   ending, quiet, left>>

\* os.replace moves whatever file has the temporary name.  A file without a
\* name and a handle is gone.
Replace(t) ==
    /\ pc[t] = "replace" /\ tmp[Mine(t)] # None
    /\ slots' = [slots EXCEPT ![Mine(t)] = tmp[Mine(t)]]
    /\ tmp' = [tmp EXCEPT ![Mine(t)] = None]
    /\ Return(t, IF Forced(t) THEN "flushed" ELSE "idle")
    /\ content' = [f \in Files |-> IF f \in InUse' THEN content[f] ELSE Damaged]
    /\ UNCHANGED <<items, dirty, seq, ending, quiet, left>>

\* An OSError is logged and the flush returns: the medium fails, or another
\* writer has moved the temporary file away.
WriteFails(t) ==
    /\ \/ pc[t] \in {"open", "write"} /\ left.fails > 0
          /\ left' = [left EXCEPT !.fails = @ - 1]
       \/ pc[t] = "replace" /\ tmp[Mine(t)] = None /\ UNCHANGED left
    /\ Return(t, IF Forced(t) THEN "lost" ELSE "idle")
    /\ UNCHANGED <<items, dirty, seq, content, tmp, slots, ending, quiet>>

\* finalize tells the monitors to stop, waits for each of them for a while and
\* flushes; a monitor inside a poll goes on until that poll is over.
StopMonitors ==
    /\ pc["main"] = "idle" /\ ~ending
    /\ ending' = TRUE
    /\ UNCHANGED <<items, dirty, seq, pc, snap, handle, content, tmp, slots, asked,
                   returned, quiet, left>>

MonitorStops(t) ==
    /\ ending /\ t # "main" /\ pc[t] = "idle"
    /\ pc' = [pc EXCEPT ![t] = "stopped"]
    /\ UNCHANGED <<items, dirty, seq, snap, handle, content, tmp, slots, asked,
                   returned, ending, quiet, left>>

LastFlush ==
    /\ ending /\ pc["main"] = "idle"
    /\ quiet' = (\A t \in Monitors : pc[t] = "stopped")
    /\ pc' = [pc EXCEPT !["main"] = "flush"]
    /\ UNCHANGED <<items, dirty, seq, snap, handle, content, tmp, slots, asked,
                   returned, ending, left>>

\* Mutant of Restart: numbering starts over.
RestartFromZero ==
    /\ pc["main"] \notin {"flushed", "lost"} /\ left.deaths > 0
    /\ left' = [left EXCEPT !.deaths = @ - 1]
    /\ items' = OnDisk.items
    /\ seq' = 0
    /\ dirty' = FALSE
    /\ pc' = [t \in Threads |-> "idle"]
    /\ snap' = [t \in Threads |-> Damaged]
    /\ handle' = [t \in Threads |-> None]
    /\ asked' = [t \in Threads |-> Nothing]
    /\ returned' = OnDisk.items
    /\ ending' = FALSE
    /\ quiet' = FALSE
    /\ UNCHANGED <<content, tmp, slots>>

\* The program dies and the service restarts it: it reads the slots.  What
\* the calls of the old one had made durable no longer matters.
Restart ==
    /\ pc["main"] \notin {"flushed", "lost"} /\ left.deaths > 0
    /\ left' = [left EXCEPT !.deaths = @ - 1]
    /\ items' = OnDisk.items
    /\ seq' = OnDisk.seq
    /\ dirty' = FALSE
    /\ pc' = [t \in Threads |-> "idle"]
    /\ snap' = [t \in Threads |-> Damaged]
    /\ handle' = [t \in Threads |-> None]
    /\ asked' = [t \in Threads |-> Nothing]
    /\ returned' = OnDisk.items
    /\ ending' = FALSE
    /\ quiet' = FALSE
    /\ UNCHANGED <<content, tmp, slots>>

Over ==
    /\ pc["main"] \in {"flushed", "lost"}
    /\ \A t \in Monitors : pc[t] = "stopped"
    /\ UNCHANGED vars

Next ==
    \/ \E t \in Threads :
          \/ Add(t) \/ Escalate(t) \/ HeartbeatFlush(t)
          \/ Snapshot(t) \/ NothingToFlush(t)
          \/ Open(t) \/ Write(t) \/ Replace(t) \/ WriteFails(t)
    \/ \E t \in Monitors : MonitorStops(t)
    \/ StopMonitors \/ LastFlush \/ Restart \/ Over

Spec == Init /\ [][Next]_vars

-----------------------------------------------------------------------------
(* Properties *)

\* The attributes of Findings, the calls under way and the files keep their
\* shape.
TypeOK ==
    /\ items \in [Keys -> Rank] /\ returned \in [Keys -> Rank]
    /\ asked \in [Threads -> [Keys -> Rank]]
    /\ dirty \in BOOLEAN /\ ending \in BOOLEAN /\ quiet \in BOOLEAN
    /\ seq \in Nat
    /\ pc \in [Threads -> {"idle", "flush", "open", "write", "replace",
                            "stopped", "flushed", "lost"}]
    /\ snap \in [Threads -> [seq : Nat, items : [Keys -> Rank]]]
    /\ content \in [Files -> [seq : Nat, items : [Keys -> Rank]]]
    /\ handle \in [Threads -> Files \cup {None}]
    /\ tmp \in [{0, 1} -> Files \cup {None}]
    /\ slots \in [{0, 1} -> Files \cup {None}]

\* finalize's flush, made after all monitors had stopped, leaves findings.json
\* complete, so the report that is built from it misses nothing - whatever
\* writers overtook, truncated or replaced each other's files before, and
\* whatever writes failed.
LastFlushIsComplete ==
    pc["main"] = "flushed" /\ quiet => OnDisk.items = items

\* No flush makes findings.json claim more than was found, and a program that
\* restarts never finds a newer number than it will give next: an old slot
\* cannot come back.
DiskIsNeverAhead ==
    /\ OnDisk.seq <= seq
    /\ \A k \in Keys : OnDisk.items[k] <= items[k]

\* "Flushed to disk immediately when a new finding appears or anything reaches
\* FAIL" (class Findings).  Another thread's flush can clear _dirty while it
\* has yet to write, and an older snapshot can be written last.
UrgentIsOnDisk == \A k \in Keys : OnDisk.items[k] >= returned[k]
=============================================================================
