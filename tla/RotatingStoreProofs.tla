------------------------ MODULE RotatingStoreProofs ------------------------
(***************************************************************************)
(* For any number of saves, attempts, failures, deaths and power cuts:     *)
(* Session.save over the two slots implements DurableCell, and a program   *)
(* that is started again finds the last save.                              *)
(***************************************************************************)
EXTENDS RotatingStore, TLAPS

Other(n) == 1 - Slot(n)

\* What may be read from a slot, now or after a power cut.
Copies == {NoCopy, cache[0], cache[1], platter[0], platter[1]}

\* A copy lies in the slot of its number.
InItsSlot(slots) == \A s \in Slots : slots[s].seq = 0 \/ Slot(slots[s].seq) = s

\* The medium lags behind, and the next number is a new one.
Numbered ==
    \A s \in Slots :
        /\ platter[s].seq <= cache[s].seq
        /\ pc # "dead" => cache[s].seq <= seq
        /\ pc = "write" => cache[s].seq < seq

\* A larger number means a later state.
Ordered == \A c, d \in Copies : c.seq <= d.seq => c.val <= d.val

Bounded == version <= MaxSaves /\ \A c \in Copies : c.val <= version

\* Inside sync_storage the copy just written is the newest.
Written ==
    pc = "replaced" => /\ cache[Slot(seq)] = [seq |-> seq, val |-> version]
                       /\ cache[Other(seq)].seq < seq

\* While nothing went wrong, all is on the medium but perhaps the copy just
\* written, which has not replaced the newest one.
Undisturbed ==
    ~disturbed =>
        /\ pc # "replaced" => platter = cache
        /\ pc = "idle" => cache[Other(seq)].seq <= cache[Slot(seq)].seq
        /\ pc = "write" => cache[Slot(seq)].seq <= cache[Other(seq)].seq
        /\ pc = "replaced" => /\ platter[Other(seq)] = cache[Other(seq)]
                              /\ \/ platter = cache
                                 \/ platter[Slot(seq)].seq <= platter[Other(seq)].seq

IInv == /\ TypeOK /\ InItsSlot(cache) /\ InItsSlot(platter)
        /\ Numbered /\ Ordered /\ Bounded /\ Written /\ Undisturbed
        /\ RestartFindsLastSave

-----------------------------------------------------------------------------
(* Slots and copies *)

LEMMA SlotFacts ==
    \A n \in Nat : /\ Slot(n) \in Slots /\ Other(n) \in Slots /\ Slot(n) # Other(n)
                   /\ \A s \in Slots : s = Slot(n) \/ s = Other(n)
                   /\ Slot(n + 1) = Other(n) /\ Other(n + 1) = Slot(n)
  BY DEF Slot, Other, Slots

LEMMA CopyFacts ==
    ASSUME TypeOK
    PROVE  /\ \A c \in Copies : c \in Copy
           /\ \A s \in Slots : cache[s] \in Copies /\ platter[s] \in Copies
           /\ NoCopy \in Copies /\ NoCopy.seq = 0 /\ NoCopy.val = 0
  BY DEF TypeOK, Copies, Copy, NoCopy, Slots

\* read_rotating takes a copy whose number no other exceeds.
LEMMA NewestFacts ==
    ASSUME NEW f \in [Slots -> Copy]
    PROVE  /\ \E s \in Slots : Newest(f) = f[s]
           /\ \A s \in Slots : f[s].seq <= Newest(f).seq
           /\ Newest(f) \in Copy
  BY DEF Newest, Slots, Copy

LEMMA NewestIs ==
    ASSUME NEW f \in [Slots -> Copy], NEW s \in Slots,
           \A t \in Slots \ {s} : f[t].seq < f[s].seq
    PROVE  Newest(f) = f[s]
  BY DEF Newest, Slots, Copy

-----------------------------------------------------------------------------
(* The invariant holds at first, and every step keeps it *)

LEMMA InitHolds == Init => IInv
  <1> SUFFICES ASSUME Init PROVE IInv
    OBVIOUS
  <1>1. TypeOK
    <2>1. NoCopy \in Copy /\ 1 \in 1..MaxAttempts
      BY StoreAssumption DEF Copy, NoCopy
    <2>2. left \in [fails : Nat, kills : Nat, cuts : Nat]
      BY StoreAssumption DEF Init
    <2> QED
      BY <2>1, <2>2 DEF Init, TypeOK
  <1>2. \A s \in Slots : cache[s] = NoCopy /\ platter[s] = NoCopy
    BY DEF Init
  <1>3. InItsSlot(cache) /\ InItsSlot(platter) /\ Numbered /\ Written
    BY <1>2 DEF Init, InItsSlot, Numbered, Written, NoCopy
  <1>4. Copies = {NoCopy}
    BY <1>2 DEF Copies, Slots
  <1>5. Ordered /\ Bounded
    BY <1>4, StoreAssumption DEF Ordered, Bounded, NoCopy, Init
  <1>6. Undisturbed
    BY <1>2, SlotFacts DEF Undisturbed, Init, NoCopy
  <1>7. RestartFindsLastSave
    BY <1>2 DEF RestartFindsLastSave, Newest, Init, NoCopy, Slots
  <1> QED
    BY <1>1, <1>3, <1>5, <1>6, <1>7 DEF IInv

LEMMA SaveKeeps == IInv /\ Save => IInv'
  <1> SUFFICES ASSUME IInv, Save PROVE IInv'
    OBVIOUS
  <1> USE DEF IInv, Save
  <1>1. TypeOK'
    BY StoreAssumption DEF TypeOK
  <1>2. InItsSlot(cache)' /\ InItsSlot(platter)' /\ Written' /\ RestartFindsLastSave'
    BY DEF InItsSlot, Written, RestartFindsLastSave, Newest
  <1>3. Numbered'
    BY DEF Numbered, TypeOK, Copy
  <1>4. Copies' = Copies
    BY DEF Copies
  <1>5. Ordered'
    BY <1>4 DEF Ordered
  <1>6. Bounded'
    <2>1. \A c \in Copies : c.val \in Nat
      BY CopyFacts DEF Copy
    <2>2. version' \in Nat /\ version \in Nat /\ MaxSaves \in Nat /\ version' = version + 1
      BY StoreAssumption DEF TypeOK
    <2> QED
      BY <1>4, <2>1, <2>2 DEF Bounded
  <1>7. Undisturbed'
    BY SlotFacts DEF Undisturbed, TypeOK
  <1> QED
    BY <1>1, <1>2, <1>3, <1>5, <1>6, <1>7

\* An attempt that fails touches no slot.
LEMMA FailureKeeps == IInv /\ (SerializeFails \/ WriteFails) => IInv'
  <1> SUFFICES ASSUME IInv, SerializeFails \/ WriteFails PROVE IInv'
    OBVIOUS
  <1> USE DEF IInv, SerializeFails, WriteFails
  <1>1. TypeOK'
    <2>1. left' \in [fails : Nat, kills : Nat, cuts : Nat]
      BY DEF TypeOK
    <2>2. attempt' \in 1..MaxAttempts /\ seq' \in Nat
      BY StoreAssumption DEF TypeOK
    <2> QED
      BY <2>1, <2>2 DEF TypeOK
  <1>2. InItsSlot(cache)' /\ InItsSlot(platter)' /\ Written' /\ RestartFindsLastSave'
    BY DEF InItsSlot, Written, RestartFindsLastSave, Newest
  <1>3. Numbered'
    BY DEF Numbered, TypeOK, Copy
  <1>4. Ordered' /\ Bounded'
    BY DEF Ordered, Bounded, Copies
  <1>5. Undisturbed'
    BY DEF Undisturbed
  <1> QED
    BY <1>1, <1>2, <1>3, <1>4, <1>5

LEMMA ReplaceKeeps == IInv /\ Replace => IInv'
  <1> SUFFICES ASSUME IInv, Replace PROVE IInv'
    OBVIOUS
  <1> USE DEF IInv
  <1> DEFINE new == [seq |-> seq, val |-> version]
  <1>1. /\ Slot(seq) \in Slots /\ Other(seq) \in Slots /\ Slot(seq) # Other(seq)
        /\ \A s \in Slots : s = Slot(seq) \/ s = Other(seq)
    BY SlotFacts DEF TypeOK
  <1>2. new \in Copy /\ new.seq = seq /\ new.val = version
    BY DEF TypeOK, Copy
  <1>3. cache' \in [Slots -> Copy] /\ cache'[Slot(seq)] = new
        /\ cache'[Other(seq)] = cache[Other(seq)]
    BY <1>1, <1>2 DEF Replace, TypeOK
  <1>4. TypeOK'
    BY <1>3 DEF TypeOK, Replace
  <1>5. \A c \in Copies : c.seq \in Nat /\ c.val \in Nat /\ c.seq < seq /\ c.val <= version
    BY CopyFacts DEF Copies, Copy, Numbered, Bounded, Replace, TypeOK, NoCopy, Slots
  <1>6. Copies' \subseteq Copies \cup {new}
    BY <1>1, <1>3 DEF Copies, Replace, Slots
  <1>7. Ordered'
    BY <1>2, <1>5, <1>6 DEF Ordered, TypeOK
  <1>8. Bounded'
    BY <1>2, <1>5, <1>6 DEF Bounded, TypeOK, Replace
  <1>9. InItsSlot(cache)' /\ InItsSlot(platter)' /\ Written'
    BY <1>1, <1>2, <1>3, <1>5, CopyFacts DEF InItsSlot, Written, Replace
  <1>10. Numbered'
    BY <1>1, <1>2, <1>3 DEF Numbered, Replace, TypeOK, Copy
  <1>11. Undisturbed'
    BY <1>1, <1>2, <1>3 DEF Undisturbed, Replace
  <1>12. RestartFindsLastSave'
    <2>1. Newest(cache') = new
      BY <1>1, <1>2, <1>3, <1>5, NewestIs, CopyFacts
    <2>2. Newest(cache) \in Copies /\ (~cut => saved <= Newest(cache).val)
      BY DEF RestartFindsLastSave, Newest, Copies, Slots, TypeOK, Copy
    <2> QED
      BY <2>1, <2>2, <1>2, <1>5 DEF RestartFindsLastSave, Replace, TypeOK
  <1> QED
    BY <1>4, <1>7, <1>8, <1>9, <1>10, <1>11, <1>12

\* save returns: what it wrote is the newest copy.
LEMMA WrittenIsNewest ==
    IInv /\ pc = "replaced" => Newest(cache) = [seq |-> seq, val |-> version]
  <1> SUFFICES ASSUME IInv, pc = "replaced"
               PROVE  Newest(cache) = [seq |-> seq, val |-> version]
    OBVIOUS
  <1>1. /\ Slot(seq) \in Slots /\ cache \in [Slots -> Copy]
        /\ \A s \in Slots : s = Slot(seq) \/ s = Other(seq)
    BY SlotFacts DEF IInv, TypeOK
  <1>2. cache[Slot(seq)] = [seq |-> seq, val |-> version] /\ cache[Other(seq)].seq < seq
    BY DEF IInv, Written
  <1> QED
    BY <1>1, <1>2, NewestIs

LEMMA SyncKeeps == IInv /\ Sync => IInv'
  <1> SUFFICES ASSUME IInv, Sync PROVE IInv'
    OBVIOUS
  <1>1. TypeOK'
    BY DEF IInv, TypeOK, Sync
  <1>2. \A s \in Slots : platter'[s] = cache[s]
    BY DEF Sync
  <1>3. InItsSlot(cache)' /\ InItsSlot(platter)' /\ Written'
    BY DEF IInv, InItsSlot, Written, Sync
  <1>4. Numbered'
    BY DEF IInv, Numbered, Sync, TypeOK, Copy
  <1>5. Ordered' /\ Bounded'
    BY DEF IInv, Ordered, Bounded, Copies, Sync
  <1>6. Undisturbed'
    BY SlotFacts DEF IInv, Undisturbed, Sync, Written, TypeOK, Copy
  <1>7. RestartFindsLastSave'
    BY WrittenIsNewest DEF RestartFindsLastSave, Sync, IInv, TypeOK, Newest
  <1> QED
    BY <1>1, <1>3, <1>4, <1>5, <1>6, <1>7 DEF IInv

LEMMA SyncSkippedKeeps == IInv /\ SyncSkipped => IInv'
  <1> SUFFICES ASSUME IInv, SyncSkipped PROVE IInv'
    OBVIOUS
  <1>1. TypeOK'
    <2>1. left' \in [fails : Nat, kills : Nat, cuts : Nat]
      BY DEF IInv, TypeOK, SyncSkipped
    <2> QED
      BY <2>1 DEF IInv, TypeOK, SyncSkipped
  <1>2. InItsSlot(cache)' /\ InItsSlot(platter)' /\ Numbered' /\ Written'
    BY DEF IInv, InItsSlot, Numbered, Written, SyncSkipped
  <1>3. Ordered' /\ Bounded' /\ Undisturbed'
    BY DEF IInv, Ordered, Bounded, Copies, Undisturbed, SyncSkipped
  <1>4. RestartFindsLastSave'
    BY WrittenIsNewest DEF RestartFindsLastSave, SyncSkipped, IInv, TypeOK, Newest
  <1> QED
    BY <1>1, <1>2, <1>3, <1>4 DEF IInv

\* What a slot holds afterwards is one of its copies of before.
LEMMA WritebackKeeps == IInv /\ Writeback => IInv'
  <1> SUFFICES ASSUME IInv, Writeback PROVE IInv'
    OBVIOUS
  <1> PICK s \in Slots : Unsynced(s) /\ platter' = [platter EXCEPT ![s] = cache[s]]
    BY DEF Writeback
  <1> USE DEF IInv, Writeback
  <1>1. /\ platter' \in [Slots -> Copy]
        /\ \A t \in Slots : platter'[t] = IF t = s THEN cache[t] ELSE platter[t]
    BY DEF TypeOK
  <1>2. TypeOK'
    BY <1>1 DEF TypeOK
  <1>3. InItsSlot(cache)' /\ InItsSlot(platter)' /\ Written' /\ RestartFindsLastSave'
    BY <1>1 DEF InItsSlot, Written, RestartFindsLastSave, Newest
  <1>4. Numbered'
    BY <1>1 DEF Numbered, TypeOK, Copy
  <1>5. Copies' \subseteq Copies
    BY <1>1 DEF Copies, Slots
  <1>6. Ordered' /\ Bounded'
    BY <1>5 DEF Ordered, Bounded
  <1>7. Undisturbed'
    <2>1. ~disturbed => pc = "replaced" /\ s # Other(seq)
      BY DEF Undisturbed, Unsynced, TypeOK
    <2>2. ~disturbed => s = Slot(seq) /\ platter' = cache
      BY <1>1, <2>1, SlotFacts DEF Undisturbed, TypeOK
    <2> QED
      BY <2>1, <2>2 DEF Undisturbed
  <1> QED
    BY <1>2, <1>3, <1>4, <1>6, <1>7

LEMMA KillKeeps == IInv /\ Kill => IInv'
  <1> SUFFICES ASSUME IInv, Kill PROVE IInv'
    OBVIOUS
  <1> USE DEF IInv, Kill
  <1>1. TypeOK'
    <2>1. left' \in [fails : Nat, kills : Nat, cuts : Nat]
      BY DEF TypeOK
    <2> QED
      BY <2>1 DEF TypeOK
  <1>2. InItsSlot(cache)' /\ InItsSlot(platter)' /\ Numbered' /\ Written'
    BY DEF InItsSlot, Numbered, Written
  <1>3. Ordered' /\ Bounded'
    BY DEF Ordered, Bounded, Copies
  <1>4. RestartFindsLastSave'
    BY DEF RestartFindsLastSave, Newest
  <1>5. Undisturbed'
    BY DEF Undisturbed, TypeOK
  <1> QED
    BY <1>1, <1>2, <1>3, <1>4, <1>5

\* The copies a cut leaves are of those there were, and none newer.
LEMMA PowerCutKeeps == IInv /\ PowerCut => IInv'
  <1> SUFFICES ASSUME IInv, PowerCut PROVE IInv'
    OBVIOUS
  <1> USE DEF IInv, PowerCut
  <1>1. \A s \in Slots : platter'[s] \in {cache[s], platter[s], NoCopy}
    BY DEF Survives, Slots
  <1>2. platter' \in [Slots -> Copy] /\ cache' = platter'
    BY <1>1, CopyFacts DEF TypeOK, Copies, Slots
  <1>3. TypeOK'
    <2>1. left' \in [fails : Nat, kills : Nat, cuts : Nat]
      BY DEF TypeOK
    <2> QED
      BY <1>2, <2>1 DEF TypeOK
  <1>4. InItsSlot(cache)' /\ InItsSlot(platter)'
    BY <1>1, <1>2 DEF InItsSlot, NoCopy
  <1>5. Numbered' /\ Written' /\ Undisturbed' /\ RestartFindsLastSave'
    BY <1>2 DEF Numbered, Written, Undisturbed, RestartFindsLastSave, Copy
  <1>6. Copies' \subseteq Copies
    BY <1>1, <1>2 DEF Copies, Slots
  <1>7. Ordered' /\ Bounded'
    BY <1>6 DEF Ordered, Bounded
  <1> QED
    BY <1>3, <1>4, <1>5, <1>7

LEMMA RestartKeeps == IInv /\ Restart => IInv'
  <1> SUFFICES ASSUME IInv, Restart PROVE IInv'
    OBVIOUS
  <1> USE DEF IInv, Restart
  <1>1. /\ \E s \in Slots : Newest(cache) = cache[s]
        /\ \A s \in Slots : cache[s].seq <= Newest(cache).seq
        /\ Newest(cache) \in Copy
    BY NewestFacts DEF TypeOK
  <1>2. TypeOK'
    BY <1>1 DEF TypeOK, Copy
  <1>3. InItsSlot(cache)' /\ InItsSlot(platter)' /\ Written' /\ Numbered'
    BY <1>1 DEF InItsSlot, Written, Numbered
  <1>4. Ordered' /\ Bounded'
    BY DEF Ordered, Bounded, Copies
  <1>5. Undisturbed'
    <2>1. PICK s \in Slots : Newest(cache) = cache[s]
      BY <1>1
    <2>2. seq' \in Nat /\ seq' = cache[s].seq /\ \A t \in Slots : cache[t].seq <= seq'
      BY <1>1, <2>1 DEF Copy
    <2>3. seq' = 0 \/ s = Slot(seq')
      BY <2>2 DEF InItsSlot
    <2>4. \A t \in Slots : cache[t].seq \in Nat
      BY DEF TypeOK, Copy
    <2>5. cache[Other(seq')].seq <= cache[Slot(seq')].seq
      BY <2>2, <2>3, <2>4, SlotFacts
    <2>6. platter = cache \/ disturbed
      BY DEF Undisturbed
    <2> QED
      BY <2>5, <2>6 DEF Undisturbed
  <1>6. RestartFindsLastSave'
    BY <1>1 DEF RestartFindsLastSave, Newest, Copy
  <1> QED
    BY <1>2, <1>3, <1>4, <1>5, <1>6

LEMMA Inductive == IInv /\ [Next]_vars => IInv'
  <1> SUFFICES ASSUME IInv, [Next]_vars PROVE IInv'
    OBVIOUS
  <1>1. CASE UNCHANGED vars
    BY <1>1 DEF vars, IInv, TypeOK, InItsSlot, Numbered, Ordered, Bounded, Copies, Written,
                Undisturbed, RestartFindsLastSave, Newest
  <1> QED
    BY <1>1, SaveKeeps, FailureKeeps, ReplaceKeeps, SyncKeeps, SyncSkippedKeeps,
       WritebackKeeps, KillKeeps, PowerCutKeeps, RestartKeeps DEF Next, Finished

-----------------------------------------------------------------------------

\* The slots, the numbers and the progress of Session.save keep their shape.
THEOREM TypeCorrect == Spec => []TypeOK
  <1>1. IInv => TypeOK
    BY DEF IInv
  <1> QED
    BY <1>1, InitHolds, Inductive, PTL DEF Spec

\* read_rotating: a program that is started again finds the last save that
\* returned, or a newer state, unless the power went.
THEOREM RestartFinds == Spec => []RestartFindsLastSave
  <1>1. IInv => RestartFindsLastSave
    BY DEF IInv
  <1> QED
    BY <1>1, InitHolds, Inductive, PTL DEF Spec

-----------------------------------------------------------------------------
(* Every step of the slots is one of the cell, or none *)

LEMMA InitMaps == Init => Cell!Init
  <1> SUFFICES ASSUME Init PROVE Cell!Init
    OBVIOUS
  <1>1. \A s \in Slots : cache[s] = NoCopy /\ platter[s] = NoCopy
    BY DEF Init
  <1>2. Newest(platter).val = 0
    BY <1>1 DEF Newest, Slots, NoCopy
  <1>3. Underway = {}
    BY <1>1 DEF Underway, Unsynced, Init
  <1> QED
    BY <1>2, <1>3, StoreAssumption DEF Cell!Init, Init

\* The next state is on its way.
LEMMA SaveMaps == IInv /\ Save => Cell!Begin
  <1> SUFFICES ASSUME IInv, Save PROVE Cell!Begin
    OBVIOUS
  <1>1. version' \in 0..MaxSaves
    BY StoreAssumption DEF Save, IInv, TypeOK
  <1>2. Underway' = Underway \cup {version'}
    BY DEF Underway, Unsynced, Save
  <1> QED
    BY <1>1, <1>2 DEF Cell!Begin, Save, Newest

LEMMA FailureMaps == IInv /\ (SerializeFails \/ WriteFails) => Cell!Disturb
  <1> SUFFICES ASSUME IInv, SerializeFails \/ WriteFails PROVE Cell!Disturb
    OBVIOUS
  <1>1. Underway' \subseteq Underway
    BY DEF Underway, Unsynced, SerializeFails, WriteFails
  <1> QED
    BY <1>1 DEF Cell!Disturb, SerializeFails, WriteFails, Newest

LEMMA ReplaceMaps == IInv /\ Replace => Cell!Drift
  <1> SUFFICES ASSUME IInv, Replace PROVE Cell!Drift
    OBVIOUS
  <1>1. Slot(seq) \in Slots
    BY SlotFacts DEF IInv, TypeOK
  <1>2. \A s \in Slots : cache'[s] = IF s = Slot(seq) THEN [seq |-> seq, val |-> version]
                                      ELSE cache[s]
    BY <1>1 DEF Replace, IInv, TypeOK
  <1>3. Underway' \subseteq Underway
    BY <1>2 DEF Underway, Unsynced, Replace
  <1> QED
    BY <1>3 DEF Cell!Drift, Replace, Newest

\* The newest copy, which is now safe, is the one that was on its way.
LEMMA SyncMaps == IInv /\ Sync => Cell!Ack
  <1> SUFFICES ASSUME IInv, Sync PROVE Cell!Ack
    OBVIOUS
  <1>1. Newest(platter').val = version
    BY WrittenIsNewest DEF Sync
  <1>2. version \in Underway
    BY DEF Underway, Sync
  <1>3. Underway' = {}
    BY DEF Underway, Unsynced, Sync
  <1> QED
    BY <1>1, <1>2, <1>3 DEF Cell!Ack, Sync, Newest

LEMMA SyncSkippedMaps == IInv /\ SyncSkipped => Cell!Disturb
  <1> SUFFICES ASSUME IInv, SyncSkipped PROVE Cell!Disturb
    OBVIOUS
  <1>1. Underway' \subseteq Underway
    BY DEF Underway, Unsynced, SyncSkipped
  <1> QED
    BY <1>1 DEF Cell!Disturb, SyncSkipped, Newest

\* A slot the kernel writes back gets a value that was on its way; if it is not
\* the newest on the medium then, the other slot was the newest before.
LEMMA WritebackMaps == IInv /\ Writeback => Cell!Drift
  <1> SUFFICES ASSUME IInv, Writeback PROVE Cell!Drift
    OBVIOUS
  <1> PICK s \in Slots : Unsynced(s) /\ platter' = [platter EXCEPT ![s] = cache[s]]
    BY DEF Writeback
  <1>1. \A t \in Slots : platter'[t] = IF t = s THEN cache[t] ELSE platter[t]
    BY DEF IInv, TypeOK
  <1>2. Underway' \subseteq Underway
    BY <1>1 DEF Underway, Unsynced, Writeback
  <1>3. cache[s].val \in Underway
    BY DEF Underway
  <1>4. Newest(platter').val \in {Newest(platter).val} \cup Underway
    BY <1>1, <1>3, CopyFacts DEF Newest, Slots, IInv, Numbered, Ordered, Copy
  <1> QED
    BY <1>2, <1>4 DEF Cell!Drift, Writeback

LEMMA KillMaps == IInv /\ Kill => Cell!Drift \/ Cell!Disturb
  <1> SUFFICES ASSUME IInv, Kill PROVE Cell!Drift \/ Cell!Disturb
    OBVIOUS
  <1>1. Underway' \subseteq Underway
    BY DEF Underway, Unsynced, Kill
  <1>2. Newest(platter').val = Newest(platter).val
    BY DEF Kill
  <1>3. disturbed' = TRUE \/ disturbed' = disturbed
    BY DEF Kill, IInv, TypeOK
  <1> QED
    BY <1>1, <1>2, <1>3 DEF Cell!Drift, Cell!Disturb

LEMMA PowerCutMaps == IInv /\ PowerCut => Cell!PowerCut
  <1> SUFFICES ASSUME IInv, PowerCut PROVE Cell!PowerCut
    OBVIOUS
  <1>1. \A s \in Slots : platter'[s] \in Survives(s)
    BY DEF PowerCut, Slots
  <1>2. Newest(platter').val \in 0..MaxSaves
    <2>1. Newest(platter') \in Copies
      BY <1>1 DEF Newest, Survives, Copies, Slots
    <2> QED
      BY <2>1, CopyFacts, StoreAssumption DEF IInv, Bounded, Copy, TypeOK
  <1>3. Underway' = {}
    BY DEF Underway, Unsynced, PowerCut
  <1>4. ASSUME ~disturbed
        PROVE  Newest(platter').val \in {Newest(platter).val} \cup Underway
    <2>1. CASE platter = cache
      BY <1>1, <2>1 DEF Survives, Unsynced, Newest, Slots
    <2>2. CASE platter # cache
      <3> DEFINE s == Slot(seq)
                 t == Other(seq)
      <3>1. /\ pc = "replaced" /\ platter[t] = cache[t]
            /\ platter[s].seq <= platter[t].seq
        BY <1>4, <2>2 DEF IInv, Undisturbed
      <3>2. s \in Slots /\ t \in Slots /\ s # t
        BY SlotFacts DEF IInv, TypeOK
      <3>3. platter'[t] = platter[t] /\ platter'[s] \in {cache[s], platter[s], NoCopy}
        BY <1>1, <3>1, <3>2 DEF Survives, Unsynced
      <3>4. cache[s].val = version /\ version \in Underway
        BY <3>1 DEF IInv, Written, Underway
      <3>5. \A c \in {cache[s], platter[s], platter[t], NoCopy} : c \in Copies
        BY <3>2, CopyFacts DEF IInv
      <3> HIDE DEF s, t
      <3> QED
        BY <3>1, <3>2, <3>3, <3>4, <3>5, CopyFacts DEF IInv, Newest, Slots, Ordered, Copy
    <2> QED
      BY <2>1, <2>2
  <1> QED
    BY <1>2, <1>3, <1>4 DEF Cell!PowerCut, PowerCut

LEMMA RestartMaps == IInv /\ Restart => UNCHANGED Cell!vars
  <1> SUFFICES ASSUME IInv, Restart PROVE UNCHANGED Cell!vars
    OBVIOUS
  <1>1. Underway' = Underway
    BY DEF Underway, Unsynced, Restart
  <1> QED
    BY <1>1 DEF Cell!vars, Restart, Newest

LEMMA StepMaps == IInv /\ [Next]_vars => [Cell!Next]_(Cell!vars)
  <1> SUFFICES ASSUME IInv, [Next]_vars PROVE [Cell!Next]_(Cell!vars)
    OBVIOUS
  <1>1. CASE UNCHANGED vars
    BY <1>1 DEF vars, Cell!vars, Newest, Underway, Unsynced
  <1> QED
    BY <1>1, SaveMaps, FailureMaps, ReplaceMaps, SyncMaps, SyncSkippedMaps, WritebackMaps,
       KillMaps, PowerCutMaps, RestartMaps DEF Next, Finished, Cell!Next

\* write_rotating and save over the two slots keep the promise of DurableCell,
\* for any number of saves, attempts, failures, deaths and power cuts.
THEOREM Implementation == Spec => KeepsDurableCell
  <1> QED
    BY InitHolds, Inductive, InitMaps, StepMaps, PTL DEF Spec, KeepsDurableCell, Cell!Spec

=============================================================================
