--------------------------- MODULE RotatingStore ---------------------------
(***************************************************************************)
(* The two rotating slots of util.py (write_rotating, read_rotating) and   *)
(* their single writer Session.save, on a file system that may lose or     *)
(* tear the directory entries it has not synced when the power goes.       *)
(*                                                                         *)
(* The n-th state handed to save is the value n; 0 is "no state".          *)
(***************************************************************************)
EXTENDS Naturals

CONSTANTS
    MaxAttempts,   \* tries of one save; 5 in Session.save
    MaxSaves,      \* bounds: calls of save,
    MaxFails,      \*   attempts that raise,
    MaxKills,      \*   deaths of the program,
    MaxCuts        \*   power cuts

ASSUME StoreAssumption ==
    /\ MaxAttempts \in Nat \ {0}
    /\ MaxSaves \in Nat /\ MaxFails \in Nat /\ MaxKills \in Nat /\ MaxCuts \in Nat

VARIABLES
    cache,     \* the slots as the running system sees them
    platter,   \* the slots as they are on the medium
    seq,       \* Session._seq
    version,   \* the last state handed to save
    attempt,   \* tries of the current save
    pc,        \* "idle", "write", "replaced" inside save; "dead"
    saved,     \* history: the last save that returned normally
    cut,       \* history: the power went since the program last ran
    disturbed, \* history: an attempt or its sync failed, or the program died
               \* before the sync, since the last save that was synced
    left       \* failing attempts, deaths and cuts still to come

vars == <<cache, platter, seq, version, attempt, pc, saved, cut, disturbed,
          left>>

Slots == {0, 1}

Copy == [seq : Nat, val : Nat]

\* A slot that is missing or does not parse; real sequence numbers start at 1.
NoCopy == [seq |-> 0, val |-> 0]

\* Mutant of Slot: all saves go to one file.
SlotFixed(n) == 0

Slot(n) == n % 2

\* Mutant of Newest: the first readable slot wins.
NewestFirst(slots) == IF slots[0] # NoCopy THEN slots[0] ELSE slots[1]

\* read_rotating: the readable slot with the highest save_seq.
Newest(slots) == IF slots[0].seq > slots[1].seq THEN slots[0] ELSE slots[1]

Unsynced(s) == cache[s] # platter[s]

-----------------------------------------------------------------------------
Init ==
    /\ cache = [s \in Slots |-> NoCopy] /\ platter = cache
    /\ seq = 0 /\ version = 0 /\ attempt = 1 /\ pc = "idle"
    /\ saved = 0 /\ cut = FALSE /\ disturbed = FALSE
    /\ left = [fails |-> MaxFails, kills |-> MaxKills, cuts |-> MaxCuts]

\* save takes the lock; its first attempt takes a sequence number.
Save ==
    /\ pc = "idle" /\ version < MaxSaves
    /\ version' = version + 1
    /\ attempt' = 1
    /\ seq' = seq + 1
    /\ pc' = "write"
    /\ UNCHANGED <<cache, platter, saved, cut, disturbed, left>>

\* Mutant of SerializeFails: the attempts are not counted down.
SerializeFailsForever ==
    /\ pc = "write" /\ left.fails > 0
    /\ left' = [left EXCEPT !.fails = @ - 1]
    /\ attempt' = attempt + 1 /\ seq' = seq + 1
    /\ disturbed' = TRUE
    /\ UNCHANGED <<cache, platter, version, pc, saved, cut>>

\* RuntimeError while serialising: another attempt, with another number, or
\* the save is given up.
SerializeFails ==
    /\ pc = "write" /\ left.fails > 0
    /\ left' = [left EXCEPT !.fails = @ - 1]
    /\ \/ attempt < MaxAttempts /\ attempt' = attempt + 1 /\ seq' = seq + 1
          /\ UNCHANGED pc
       \/ attempt = MaxAttempts /\ pc' = "idle" /\ UNCHANGED <<attempt, seq>>
    /\ disturbed' = TRUE
    /\ UNCHANGED <<cache, platter, version, saved, cut>>

\* OSError before the rename took effect: logged, the number stays taken.
WriteFails ==
    /\ pc = "write" /\ left.fails > 0
    /\ left' = [left EXCEPT !.fails = @ - 1]
    /\ pc' = "idle"
    /\ disturbed' = TRUE
    /\ UNCHANGED <<cache, platter, seq, version, attempt, saved, cut>>

\* atomic_write: the temporary file is complete and renamed over the slot.
Replace ==
    /\ pc = "write"
    /\ cache' = [cache EXCEPT ![Slot(seq)] = [seq |-> seq, val |-> version]]
    /\ pc' = "replaced"
    /\ UNCHANGED <<platter, seq, version, attempt, saved, cut, disturbed, left>>

\* sync_storage: the directory entries reach the medium; save returns.
Sync ==
    /\ pc = "replaced"
    /\ platter' = cache
    /\ saved' = version
    /\ pc' = "idle"
    /\ disturbed' = FALSE
    /\ UNCHANGED <<cache, seq, version, attempt, cut, left>>

\* sync_storage cannot open the directory: it returns, and so does save.
SyncSkipped ==
    /\ pc = "replaced" /\ left.fails > 0
    /\ left' = [left EXCEPT !.fails = @ - 1]
    /\ saved' = version
    /\ pc' = "idle"
    /\ disturbed' = TRUE
    /\ UNCHANGED <<cache, platter, seq, version, attempt, cut>>

\* The kernel writes an entry back on its own.
Writeback ==
    /\ \E s \in Slots : Unsynced(s) /\ platter' = [platter EXCEPT ![s] = cache[s]]
    /\ UNCHANGED <<cache, seq, version, attempt, pc, saved, cut, disturbed, left>>

\* The program dies; the system and what it caches stay up.
Kill ==
    /\ pc # "dead" /\ left.kills > 0
    /\ left' = [left EXCEPT !.kills = @ - 1]
    /\ pc' = "dead"
    /\ disturbed' = (disturbed \/ pc = "replaced")
    /\ UNCHANGED <<cache, platter, seq, version, attempt, saved, cut>>

\* What a power cut can leave of a slot that was not synced: the old copy, the
\* new one, or a damaged file.
Survives(s) ==
    IF Unsynced(s) THEN {cache[s], platter[s], NoCopy} ELSE {platter[s]}

PowerCut ==
    /\ left.cuts > 0
    /\ left' = [left EXCEPT !.cuts = @ - 1]
    /\ \E x \in Survives(0), y \in Survives(1) :
          platter' = [s \in Slots |-> IF s = 0 THEN x ELSE y]
    /\ cache' = platter'
    /\ pc' = "dead"
    /\ cut' = TRUE
    /\ disturbed' = FALSE
    /\ UNCHANGED <<seq, version, attempt, saved>>

\* Mutant of Restart: numbering starts over.
RestartFromZero ==
    /\ pc = "dead"
    /\ seq' = 0
    /\ saved' = Newest(cache).val
    /\ pc' = "idle"
    /\ cut' = FALSE
    /\ UNCHANGED <<cache, platter, version, attempt, disturbed, left>>

\* _find_running reads the slots and continues their numbering; if neither is
\* readable a new session starts at 0.
Restart ==
    /\ pc = "dead"
    /\ seq' = Newest(cache).seq
    /\ saved' = Newest(cache).val
    /\ pc' = "idle"
    /\ cut' = FALSE
    /\ UNCHANGED <<cache, platter, version, attempt, disturbed, left>>

\* The last save was that of Session.finish.
Finished ==
    /\ pc = "idle" /\ version = MaxSaves
    /\ UNCHANGED vars

Next ==
    \/ Finished
    \/ Save \/ SerializeFails \/ WriteFails \/ Replace \/ Sync
    \/ SyncSkipped \/ Writeback \/ Kill \/ PowerCut \/ Restart

Spec == Init /\ [][Next]_vars

-----------------------------------------------------------------------------
(* Properties *)

\* Session._seq, the slots and the progress of save keep their shape.
TypeOK ==
    /\ cache \in [Slots -> Copy] /\ platter \in [Slots -> Copy]
    /\ seq \in Nat /\ version \in Nat /\ saved \in Nat
    /\ attempt \in 1..MaxAttempts
    /\ pc \in {"idle", "write", "replaced", "dead"}
    /\ cut \in BOOLEAN /\ disturbed \in BOOLEAN
    /\ left \in [fails : Nat, kills : Nat, cuts : Nat]

\* read_rotating after a restart of the program alone finds the last save
\* that returned, or a newer one: failed attempts, deaths at any point and
\* slots damaged by earlier power cuts do not make an older copy win.
RestartFindsLastSave == ~cut => Newest(cache).val >= saved

\* Values a power cut may find on their way to the medium.
Underway ==
    {cache[s].val : s \in {t \in Slots : Unsynced(t)}} \cup
    (IF pc \in {"write", "replaced"} THEN {version} ELSE {})

Cell == INSTANCE DurableCell WITH
            Values <- 0..MaxSaves,
            acked  <- Newest(platter).val,
            maybe  <- Underway

\* write_rotating keeps the promise of its docstring as far as it can be kept:
\* "an interrupted write costs at most the newest save", unless an attempt
\* failed or was not synced, or the program died before the sync, since the
\* last save that succeeded.  No sequence of saves, deaths and cuts breaks it otherwise.
KeepsDurableCell == Cell!Spec

\* "A power cut must never destroy both copies of the state"
\* (tests/test_rules.py, PersistenceTest).  A failed attempt uses up a sequence
\* number, so the next save goes to the slot of the newest copy - at the start
\* of a session the only one.
NeverBothCopiesLost == saved > 0 => Newest(cache) # NoCopy
=============================================================================
