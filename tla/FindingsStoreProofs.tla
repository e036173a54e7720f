------------------------- MODULE FindingsStoreProofs -------------------------
(***************************************************************************)
(* For any number of monitors and findings, and whatever threads overtake  *)
(* each other inside flush, share temporary files or die: findings.json is *)
(* never ahead of the program, and the flush that finalize makes after all *)
(* monitors have stopped leaves it complete.                               *)
(***************************************************************************)
EXTENDS FindingsStore, Functions, FiniteSetTheorems, TLAPS

Contents == [seq : Nat, items : [Keys -> Rank]]

Writing(t) == pc[t] \in {"write", "replace"}

\* A thread holds a file between open and os.replace.
Held ==
    \A t \in Threads : /\ Writing(t) => handle[t] \in Files
                       /\ ~Writing(t) => handle[t] = None

\* What may still become the content of a slot.  A temporary file that an earlier
\* start left behind counts only once it is opened again, and truncated.
Live == {Damaged} \cup {snap[t] : t \in Threads}
        \cup {Stored(s) : s \in {0, 1}}
        \cup {content[tmp[Mine(t)]] : t \in {u \in Threads : Writing(u) /\ tmp[Mine(u)] # None}}

Below(f, g) == \A k \in Keys : f[k] <= g[k]

\* Nothing of that is ahead of the program.
Behind == \A c \in Live : c.seq <= seq /\ Below(c.items, items)

\* And what has the larger number holds at least what the other one does.
Ordered == \A c, d \in Live : c.seq <= d.seq => Below(c.items, d.items)

Newest == [seq |-> seq, items |-> items]

\* After all monitors have stopped only main writes, and nothing gets in its way.
Alone ==
    quiet =>
        /\ ending /\ \A m \in Monitors : pc[m] = "stopped"
        /\ pc["main"] \in {"flush", "open", "write", "replace", "flushed", "lost"}
        /\ pc["main"] \in {"open", "write", "replace"} =>
              /\ seq > 0 /\ snap["main"] = Newest
              /\ \A s \in {0, 1} : Stored(s).seq < seq \/ Stored(s) = Newest
        /\ pc["main"] = "write" =>
              /\ handle["main"] = tmp[Slot(seq)] /\ content[handle["main"]] = Damaged
        /\ pc["main"] = "replace" =>
              /\ tmp[Slot(seq)] # None /\ content[tmp[Slot(seq)]] = Newest
        /\ pc["main"] = "flushed" => OnDisk.items = items

IInv == TypeOK /\ Held /\ Behind /\ Ordered /\ Alone

-----------------------------------------------------------------------------
(* Files and their contents.                                                *)

LEMMA Slots == \A n \in Nat : Slot(n) \in {0, 1}
  BY DEF Slot

LEMMA DamagedTyped == Damaged \in Contents /\ Nothing \in [Keys -> Rank]
  BY DEF Damaged, Nothing, Contents, Rank

LEMMA StoredTyped ==
    ASSUME TypeOK, NEW s \in {0, 1}
    PROVE  /\ Stored(s) \in Contents /\ OnDisk \in Contents
           /\ OnDisk \in {Stored(0), Stored(1)}
  <1>1. \A r \in {0, 1} : Stored(r) \in Contents
      BY DamagedTyped DEF TypeOK, Stored, Contents
  <1> QED
      BY <1>1 DEF OnDisk

LEMMA MineIsSlot ==
    ASSUME TypeOK, NEW t \in Threads
    PROVE  Mine(t) \in {0, 1} /\ snap[t] \in Contents
  <1>1. snap[t] \in Contents
      BY DEF TypeOK, Contents
  <1> QED
      BY <1>1, Slots DEF Mine, Contents

LEMMA LiveTyped ==
    ASSUME TypeOK
    PROVE  Live \subseteq Contents
  <1>1. ASSUME NEW t \in Threads, tmp[Mine(t)] # None
        PROVE  content[tmp[Mine(t)]] \in Contents
      BY <1>1, MineIsSlot DEF TypeOK, Contents
  <1> QED
      BY <1>1, DamagedTyped, StoredTyped, MineIsSlot DEF Live

LEMMA FourAtMost ==
    ASSUME NEW a, NEW b, NEW c, NEW d
    PROVE  IsFiniteSet({a, b, c, d}) /\ Cardinality({a, b, c, d}) <= 4
  <1>1. IsFiniteSet({a}) /\ Cardinality({a}) = 1
      BY FS_Singleton
  <1>2. IsFiniteSet({a} \cup {b}) /\ Cardinality({a} \cup {b}) \in 1..2
      BY <1>1, FS_AddElement
  <1>3. IsFiniteSet({a} \cup {b} \cup {c}) /\ Cardinality({a} \cup {b} \cup {c}) \in 1..3
      BY <1>2, FS_AddElement
  <1>4. /\ IsFiniteSet({a} \cup {b} \cup {c} \cup {d})
        /\ Cardinality({a} \cup {b} \cup {c} \cup {d}) \in 1..4
      BY <1>3, FS_AddElement
  <1>5. {a, b, c, d} = {a} \cup {b} \cup {c} \cup {d}
      OBVIOUS
  <1> QED
      BY <1>4, <1>5

\* There is a free file for a thread that opens one: every other thread holds at
\* most one, and the slots and the other temporary name take three.
LEMMA FreeFile ==
    ASSUME NEW t \in Threads, handle[t] = None, NEW s \in {0, 1}, tmp[s] = None
    PROVE  \E g \in Files : g \notin InUse
  <1> DEFINE Named == {tmp[1 - s], slots[0], slots[1], None}
             Others == Threads \ {t}
             Handles == {handle[u] : u \in Others}
             f == [u \in Others |-> handle[u]]
  <1>1. IsFiniteSet(Monitors) /\ Cardinality(Monitors) \in Nat
      BY FindingsAssumption, FS_CardinalityType
  <1>2. IsFiniteSet(Threads) /\ Cardinality(Threads) = Cardinality(Monitors) + 1
      BY <1>1, FindingsAssumption, FS_AddElement DEF Threads
  <1>3. IsFiniteSet(Others) /\ Cardinality(Others) = Cardinality(Monitors)
      <2>1. /\ IsFiniteSet(Threads \ {t})
            /\ Cardinality(Threads \ {t}) = IF t \in Threads THEN Cardinality(Threads) - 1
                                           ELSE Cardinality(Threads)
          BY <1>2, FS_RemoveElement, Zenon
      <2> QED
          BY <1>1, <1>2, <2>1
  <1>4. f \in Surjection(Others, Handles)
      BY DEF Surjection
  <1>5. IsFiniteSet(Handles) /\ Cardinality(Handles) <= Cardinality(Monitors)
      BY <1>3, <1>4, FS_Surjection
  <1>6. IsFiniteSet(Named) /\ Cardinality(Named) <= 4
      BY FourAtMost
  <1> HIDE DEF Handles, Named
  <1>7. /\ IsFiniteSet(Named \cup Handles)
        /\ Cardinality(Named \cup Handles) <= 4 + Cardinality(Monitors)
      <2>1. /\ Cardinality(Handles) \in Nat /\ Cardinality(Named) \in Nat
            /\ IsFiniteSet(Named \cap Handles) /\ Cardinality(Named \cap Handles) \in Nat
          BY <1>5, <1>6, FS_CardinalityType, FS_Intersection
      <2>2. /\ IsFiniteSet(Named \cup Handles)
            /\ Cardinality(Named \cup Handles)
                 = Cardinality(Named) + Cardinality(Handles) - Cardinality(Named \cap Handles)
          BY <1>5, <1>6, FS_Union
      <2> QED
          BY <1>1, <1>5, <1>6, <2>1, <2>2
  <1>8. InUse \subseteq Named \cup Handles
      <2>1. \A r \in {0, 1} : tmp[r] \in Named /\ slots[r] \in Named
          BY DEF Named
      <2>2. \A u \in Threads : handle[u] \in Named \cup Handles
          BY DEF Named, Handles
      <2> QED
          BY <2>1, <2>2 DEF InUse
  <1>9. ~(Files \subseteq InUse)
      <2> SUFFICES ASSUME Files \subseteq Named \cup Handles PROVE FALSE
          BY <1>8
      <2>1. IsFiniteSet(Files) /\ Cardinality(Files) <= Cardinality(Named \cup Handles)
          BY <1>7, FS_Subset
      <2>2. Cardinality(Files) \in Nat /\ Cardinality(Named \cup Handles) \in Nat
          BY <1>7, <2>1, FS_CardinalityType
      <2> QED
          BY <1>1, <1>7, <2>1, <2>2, FindingsAssumption
  <1> QED
      BY <1>9

-----------------------------------------------------------------------------
(* What may become the content of a slot is never ahead.                    *)

LEMMA InitHolds == Init => IInv
  <1> SUFFICES ASSUME Init PROVE IInv
      OBVIOUS
  <1>1. Stored(0) = Damaged /\ Stored(1) = Damaged
      BY DEF Init, Stored
  <1>2. Live = {Damaged}
      BY <1>1 DEF Init, Live, Writing
  <1>3. TypeOK
      BY DamagedTyped, FindingsAssumption DEF Init, TypeOK, Contents, Damaged
  <1>4. Held /\ Alone
      BY DEF Init, Held, Writing, Alone
  <1>5. Behind /\ Ordered
      BY <1>2 DEF Init, Behind, Ordered, Below, Damaged, Nothing
  <1> QED
      BY <1>3, <1>4, <1>5 DEF IInv

\* Findings and numbers only grow, and nothing but a snapshot is new.
LEMMA GrowingKeepsOrder ==
    ASSUME TypeOK, TypeOK', Behind, Ordered,
           seq <= seq', Below(items, items'),
           \A c \in Live' : c \in Live \/ (seq < c.seq /\ c = Newest')
    PROVE  Behind' /\ Ordered'
  <1>1. /\ seq \in Nat /\ seq' \in Nat
        /\ \A k \in Keys : items[k] \in Nat /\ items'[k] \in Nat
      <2>1. items \in [Keys -> Rank] /\ items' \in [Keys -> Rank] /\ seq \in Nat /\ seq' \in Nat
          BY DEF TypeOK
      <2> QED
          BY <2>1 DEF Rank
  <1>2. \A c \in Live : c.seq \in Nat /\ \A k \in Keys : c.items[k] \in Nat
      BY LiveTyped DEF Contents, Rank
  <1>3. \A c \in Live' : \/ c \in Live
                         \/ seq < c.seq /\ c.seq = seq' /\ c.items = items'
      BY DEF Newest
  <1>4. Behind'
      BY <1>1, <1>2, <1>3 DEF Behind, Below
  <1>5. Ordered'
      <2> SUFFICES ASSUME NEW c \in Live', NEW d \in Live', c.seq <= d.seq, NEW k \in Keys
                   PROVE  c.items[k] <= d.items[k]
          BY DEF Ordered, Below
      <2>1. CASE d \in Live
          <3>1. d.seq <= seq
              BY <2>1 DEF Behind
          <3>2. c \in Live
              BY <1>1, <1>2, <1>3, <2>1, <3>1
          <3> QED
              BY <2>1, <3>2 DEF Ordered, Below
      <2>2. CASE d \notin Live
          BY <1>3, <1>4, <2>2 DEF Behind, Below
      <2> QED
          BY <2>1, <2>2
  <1> QED
      BY <1>4, <1>5

\* Steps that only touch the findings, or where a thread is.
LEMMA SameLive ==
    ASSUME TypeOK, UNCHANGED <<content, slots>>, NEW t \in Threads,
           UNCHANGED tmp, snap' \in {snap, [snap EXCEPT ![t] = Damaged]},
           \A u \in Threads : Writing(u)' => Writing(u) /\ snap'[u] = snap[u]
    PROVE  Live' \subseteq Live
  <1>1. \A s \in {0, 1} : Stored(s)' = Stored(s)
      BY DEF Stored
  <1>2. \A u \in Threads : snap'[u] \in {snap[u], Damaged}
      BY DEF TypeOK
  <1>3. \A u \in Threads : Writing(u)' => Mine(u)' = Mine(u)
      BY DEF Mine
  <1> QED
      BY <1>1, <1>2, <1>3 DEF Live

-----------------------------------------------------------------------------
(* The calls: add, escalate and the heartbeat.                              *)

LEMMA HigherTyped ==
    ASSUME NEW f \in [Keys -> Rank], NEW g \in [Keys -> Rank]
    PROVE  Higher(f, g) \in [Keys -> Rank] /\ Below(f, Higher(f, g)) /\ Below(g, Higher(f, g))
  BY DEF Higher, Rank, Below

LEMMA BelowItself ==
    ASSUME NEW f \in [Keys -> Rank]
    PROVE  Below(f, f)
  BY DEF Rank, Below

LEMMA OnlyTyped ==
    ASSUME NEW k \in Keys, NEW r \in {1, 2}
    PROVE  Only(k, r) \in [Keys -> Rank]
  BY DEF Only, Nothing, Rank

\* Once all monitors have stopped nobody but main acts, and main makes no calls.
LEMMA OnlyMain ==
    ASSUME IInv, quiet, NEW t \in Threads, pc[t] # "stopped"
    PROVE  t = "main" /\ pc[t] # "idle"
  BY DEF IInv, Alone, Threads

LEMMA CallKeeps ==
    ASSUME IInv, NEW t \in Threads, pc[t] = "idle",
           pc' = pc \/ pc' = [pc EXCEPT ![t] = "flush"],
           items' \in [Keys -> Rank], Below(items, items'),
           dirty' \in BOOLEAN, asked' \in [Threads -> [Keys -> Rank]],
           UNCHANGED <<seq, snap, handle, content, tmp, slots, returned, ending, quiet>>
    PROVE  IInv'
  <1>1. TypeOK'
      BY DEF IInv, TypeOK
  <1>2. \A u \in Threads : Writing(u)' <=> Writing(u)
      BY DEF IInv, TypeOK, Writing
  <1>3. Held'
      BY <1>2 DEF IInv, Held
  <1>4. Live' \subseteq Live
      BY <1>2, SameLive DEF IInv
  <1>5. Behind' /\ Ordered'
      <2>1. seq <= seq'
          BY DEF IInv, TypeOK
      <2> QED
          BY <1>1, <1>4, <2>1, GrowingKeepsOrder DEF IInv
  <1>6. Alone'
      BY OnlyMain DEF Alone
  <1> QED
      BY <1>1, <1>3, <1>5, <1>6 DEF IInv

LEMMA AddKeeps ==
    ASSUME IInv, NEW t \in Threads, Add(t)
    PROVE  IInv'
  <1>1. PICK k \in Keys, severity \in {1, 2} :
          /\ items' = Higher(items, Only(k, severity))
          /\ IF items[k] = 0 \/ severity = 2
             THEN /\ pc' = [pc EXCEPT ![t] = "flush"]
                  /\ asked' = [asked EXCEPT ![t] = Only(k, severity)]
             ELSE UNCHANGED <<pc, asked>>
      BY DEF Add
  <1>2. items' \in [Keys -> Rank] /\ Below(items, items')
      BY <1>1, HigherTyped, OnlyTyped DEF IInv, TypeOK
  <1>3. asked' \in [Threads -> [Keys -> Rank]]
      <2>1. Only(k, severity) \in [Keys -> Rank] /\ asked \in [Threads -> [Keys -> Rank]]
          BY OnlyTyped DEF IInv, TypeOK
      <2> QED
          BY <1>1, <2>1
  <1> QED
      BY <1>1, <1>2, <1>3, CallKeeps DEF Add, Calling

LEMMA EscalateKeeps ==
    ASSUME IInv, NEW t \in Threads, Escalate(t)
    PROVE  IInv'
  <1>1. PICK k \in Keys :
          \/ /\ items[k] = 1 /\ items' = [items EXCEPT ![k] = 2] /\ dirty' = TRUE
             /\ asked' = [asked EXCEPT ![t] = Only(k, 2)]
          \/ UNCHANGED <<items, dirty, asked>>
      BY DEF Escalate
  <1>2. items \in [Keys -> Rank] /\ dirty \in BOOLEAN /\ asked \in [Threads -> [Keys -> Rank]]
      BY DEF IInv, TypeOK
  <1>3. items' \in [Keys -> Rank] /\ Below(items, items')
      BY <1>1, <1>2 DEF Rank, Below
  <1>4. dirty' \in BOOLEAN /\ asked' \in [Threads -> [Keys -> Rank]]
      BY <1>1, <1>2, OnlyTyped
  <1> QED
      BY <1>3, <1>4, CallKeeps DEF Escalate, Calling

LEMMA HeartbeatFlushKeeps ==
    ASSUME IInv, NEW t \in Threads, HeartbeatFlush(t)
    PROVE  IInv'
  <1>1. /\ items' \in [Keys -> Rank] /\ dirty' \in BOOLEAN
        /\ asked' \in [Threads -> [Keys -> Rank]]
      BY DEF HeartbeatFlush, IInv, TypeOK
  <1>2. Below(items, items')
      BY BelowItself DEF HeartbeatFlush, IInv, TypeOK
  <1> QED
      BY <1>1, <1>2, CallKeeps DEF HeartbeatFlush

-----------------------------------------------------------------------------
(* flush.                                                                   *)

\* The snapshot has the largest number, and all that was found.
LEMMA SnapshotKeeps ==
    ASSUME IInv, NEW t \in Threads, Snapshot(t)
    PROVE  IInv'
  <1> DEFINE new == [seq |-> seq + 1, items |-> items]
  <1>1. seq \in Nat /\ items \in [Keys -> Rank] /\ seq' = seq + 1
      BY DEF Snapshot, IInv, TypeOK
  <1>2. new \in Contents /\ new = Newest' /\ new.seq = seq + 1
      BY <1>1 DEF Contents, Newest, Snapshot
  <1>3. snap' = [snap EXCEPT ![t] = new]
      BY DEF Snapshot
  <1> HIDE DEF new
  <1>4. /\ pc[t] = "flush" /\ pc' = [pc EXCEPT ![t] = "open"]
        /\ UNCHANGED <<items, handle, content, tmp, slots, asked, returned, ending, quiet>>
        /\ dirty' = FALSE
      BY DEF Snapshot
  <1>5. TypeOK'
      BY <1>1, <1>2, <1>3, <1>4 DEF IInv, TypeOK, Contents
  <1>6. \A u \in Threads : Writing(u)' <=> Writing(u)
      BY <1>4 DEF IInv, TypeOK, Writing
  <1>7. Held'
      BY <1>4, <1>6 DEF IInv, Held
  <1>8. /\ snap'[t] = new /\ \A u \in Threads \ {t} : snap'[u] = snap[u]
        /\ \A s \in {0, 1} : Stored(s)' = Stored(s)
      BY <1>3, <1>4 DEF IInv, TypeOK, Stored
  <1>9. \A c \in Live' : c \in Live \/ c = new
      <2>1. ~Writing(t)'
          BY <1>4, <1>6 DEF Writing
      <2>2. \A u \in Threads : Writing(u)' => Mine(u)' = Mine(u)
          BY <1>8, <2>1 DEF Mine
      <2> QED
          BY <1>4, <1>6, <1>8, <2>2 DEF Live
  <1>10. Behind' /\ Ordered'
      <2>1. Below(items, items')
          BY <1>1, <1>4, BelowItself
      <2>2. seq <= seq' /\ seq < new.seq
          BY <1>1, <1>2
      <2> QED
          BY <1>2, <1>5, <1>9, <2>1, <2>2, GrowingKeepsOrder DEF IInv
  <1>11. Alone'
      <2> SUFFICES ASSUME quiet PROVE Alone'
          BY <1>4 DEF Alone
      <2>1. t = "main"
          BY <1>4, OnlyMain
      <2>2. \A s \in {0, 1} : Stored(s)'.seq < seq'
          <3>1. \A s \in {0, 1} : Stored(s).seq <= seq /\ Stored(s).seq \in Nat
              BY StoredTyped DEF IInv, Behind, Live, Contents
          <3> QED
              BY <1>1, <1>8, <3>1
      <2>3. pc'["main"] = "open" /\ snap'["main"] = Newest' /\ seq' > 0
          BY <1>1, <1>2, <1>4, <1>8, <2>1 DEF IInv, TypeOK
      <2>4. ending' /\ \A m \in Monitors : pc'[m] = "stopped"
          BY <1>4, <2>1, FindingsAssumption DEF IInv, Alone, TypeOK, Threads
      <2> QED
          BY <2>2, <2>3, <2>4 DEF Alone
  <1> QED
      BY <1>5, <1>7, <1>10, <1>11 DEF IInv

\* A call returns without a new file in a slot.
LEMMA ReturnKeeps ==
    ASSUME IInv, NEW t \in Threads, NEW where \in {"idle", "lost"}, Return(t, where),
           quiet => where = "lost", pc[t] # "stopped",
           UNCHANGED <<items, dirty, seq, content, tmp, slots, ending, quiet>>
    PROVE  IInv'
  <1>1. returned' \in [Keys -> Rank] /\ asked' \in [Threads -> [Keys -> Rank]]
      <2>1. Nothing \in [Keys -> Rank] /\ asked[t] \in [Keys -> Rank] /\ returned \in [Keys -> Rank]
          BY DamagedTyped DEF IInv, TypeOK
      <2> QED
          BY <2>1, HigherTyped DEF Return, IInv, TypeOK
  <1>2. TypeOK'
      BY <1>1, DamagedTyped DEF Return, IInv, TypeOK, Contents
  <1>3. ~Writing(t)' /\ \A u \in Threads \ {t} : Writing(u)' <=> Writing(u)
      BY DEF Return, IInv, TypeOK, Writing
  <1>4. Held'
      BY <1>3 DEF Return, IInv, TypeOK, Held
  <1>5. Live' \subseteq Live
      <2>1. \A u \in Threads : Writing(u)' => Writing(u) /\ snap'[u] = snap[u]
          BY <1>3 DEF Return, IInv, TypeOK
      <2> QED
          BY <2>1, SameLive DEF Return, IInv
  <1>6. Behind' /\ Ordered'
      <2>1. seq <= seq'
          BY DEF IInv, TypeOK
      <2>2. Below(items, items')
          BY BelowItself DEF IInv, TypeOK
      <2> QED
          BY <1>2, <1>5, <2>1, <2>2, GrowingKeepsOrder DEF IInv
  <1>7. Alone'
      <2> SUFFICES ASSUME quiet PROVE Alone'
          BY DEF Alone
      <2>1. t = "main" /\ pc'["main"] = "lost"
          BY OnlyMain DEF Return, IInv, TypeOK
      <2>2. ending' /\ \A m \in Monitors : pc'[m] = "stopped"
          BY <2>1, FindingsAssumption DEF Return, IInv, Alone, TypeOK, Threads
      <2> QED
          BY <2>1, <2>2 DEF Alone
  <1> QED
      BY <1>2, <1>4, <1>6, <1>7 DEF IInv

LEMMA NothingOrFailureKeeps ==
    ASSUME IInv, NEW t \in Threads, NothingToFlush(t) \/ WriteFails(t)
    PROVE  IInv'
  <1>1. pc[t] \notin {"stopped", "idle"}
      BY DEF NothingToFlush, WriteFails
  <1>2. quiet => Forced(t)
      BY <1>1, OnlyMain DEF IInv, Alone, Forced
  <1>3. CASE NothingToFlush(t)
      BY <1>1, <1>2, <1>3, ReturnKeeps DEF NothingToFlush
  <1>4. CASE WriteFails(t)
      BY <1>1, <1>2, <1>4, ReturnKeeps DEF WriteFails
  <1> QED
      BY <1>3, <1>4

-----------------------------------------------------------------------------
(* atomic_write.                                                            *)

\* Truncating a file, even one that somebody else writes, harms only what is not
\* in a slot yet - or leaves less in the slot.
LEMMA OpenKeeps ==
    ASSUME IInv, NEW t \in Threads, Open(t)
    PROVE  IInv'
  <1> DEFINE s == Mine(t)
             f == IF tmp[s] # None THEN tmp[s] ELSE CHOOSE g \in Files : g \notin InUse
  <1>1. s \in {0, 1} /\ snap[t] \in Contents
      BY MineIsSlot DEF IInv
  <1>2. /\ pc[t] = "open" /\ pc' = [pc EXCEPT ![t] = "write"]
        /\ tmp' = [tmp EXCEPT ![s] = f] /\ handle' = [handle EXCEPT ![t] = f]
        /\ content' = [content EXCEPT ![f] = Damaged]
        /\ UNCHANGED <<items, dirty, seq, snap, slots, asked, returned, ending, quiet>>
      BY DEF Open
  <1>3. f \in Files
      <2>1. CASE tmp[s] # None
          BY <1>1, <2>1 DEF IInv, TypeOK
      <2>2. CASE tmp[s] = None
          <3>1. handle[t] = None
              BY <1>2 DEF IInv, Held, Writing
          <3> QED
              BY <1>1, <2>2, <3>1, FreeFile
      <2> QED
          BY <2>1, <2>2
  <1> HIDE DEF f, s
  <1>4. TypeOK'
      BY <1>1, <1>2, <1>3, DamagedTyped DEF IInv, TypeOK, Contents
  <1>5. Writing(t)' /\ \A u \in Threads \ {t} : Writing(u)' <=> Writing(u)
      BY <1>2 DEF IInv, TypeOK, Writing
  <1>6. Held'
      BY <1>2, <1>3, <1>5 DEF IInv, TypeOK, Held
  <1>7. /\ \A g \in Files : content'[g] \in {content[g], Damaged}
        /\ content'[f] = Damaged /\ tmp'[s] = f
        /\ \A r \in {0, 1} \ {s} : tmp'[r] = tmp[r]
      BY <1>1, <1>2, <1>3 DEF IInv, TypeOK
  <1>8. \A r \in {0, 1} : Stored(r)' \in {Stored(r), Damaged}
      BY <1>2, <1>7 DEF IInv, TypeOK, Stored
  <1>9. Live' \subseteq Live
      <2>1. \A u \in Threads : Mine(u)' = Mine(u) /\ Mine(u) \in {0, 1}
          BY <1>2, MineIsSlot DEF IInv, Mine
      <2>2. ASSUME NEW u \in Threads, Writing(u)', tmp'[Mine(u)] # None
            PROVE  content'[tmp'[Mine(u)]] \in Live
          <3>1. CASE Mine(u) = s
              BY <1>7, <3>1 DEF Live
          <3>2. CASE Mine(u) # s
              <4>1. u # t /\ Writing(u) /\ tmp'[Mine(u)] = tmp[Mine(u)]
                  BY <1>5, <1>7, <2>1, <2>2, <3>2 DEF s
              <4>2. tmp[Mine(u)] \in Files
                  BY <2>1, <2>2, <4>1 DEF IInv, TypeOK
              <4> QED
                  BY <1>7, <2>2, <4>1, <4>2 DEF Live
          <3> QED
              BY <3>1, <3>2
      <2>3. \A r \in {0, 1} : Stored(r)' \in Live
          BY <1>8 DEF Live
      <2>4. \A u \in Threads : snap'[u] \in Live
          BY <1>2 DEF Live
      <2>5. Damaged \in Live
          BY DEF Live
      <2> QED
          BY <2>1, <2>2, <2>3, <2>4, <2>5 DEF Live
  <1>10. Behind' /\ Ordered'
      <2>1. seq <= seq' /\ Below(items, items')
          BY <1>2, BelowItself DEF IInv, TypeOK
      <2> QED
          BY <1>4, <1>9, <2>1, GrowingKeepsOrder DEF IInv
  <1>11. Alone'
      <2> SUFFICES ASSUME quiet PROVE Alone'
          BY <1>2 DEF Alone
      <2>1. t = "main"
          BY <1>2, OnlyMain
      <2>2. seq > 0 /\ snap["main"] = Newest /\ Newest' = Newest /\ s = Slot(seq)
          BY <1>2, <2>1 DEF IInv, Alone, Newest, Mine, s
      <2>3. \A r \in {0, 1} : Stored(r)'.seq < seq \/ Stored(r)' = Newest
          BY <1>2, <1>8, <2>1, <2>2 DEF IInv, Alone, Damaged
      <2>4. pc'["main"] = "write" /\ handle'["main"] = f
          BY <1>2, <2>1 DEF IInv, TypeOK
      <2>5. ending' /\ \A m \in Monitors : pc'[m] = "stopped"
          BY <1>2, <2>1, FindingsAssumption DEF IInv, Alone, TypeOK, Threads
      <2> QED
          BY <1>2, <1>7, <2>2, <2>3, <2>4, <2>5 DEF Alone
  <1> QED
      BY <1>4, <1>6, <1>10, <1>11 DEF IInv

\* What is written is a snapshot or damaged, in whatever file it ends up.
LEMMA WriteKeeps ==
    ASSUME IInv, NEW t \in Threads, Write(t)
    PROVE  IInv'
  <1> DEFINE f == handle[t]
  <1>1. /\ pc[t] = "write" /\ pc' = [pc EXCEPT ![t] = "replace"]
        /\ UNCHANGED <<items, dirty, seq, snap, handle, tmp, slots, asked, returned, ending, quiet>>
      BY DEF Write
  <1>2. PICK c \in {snap[t], Damaged} :
          /\ content' = [content EXCEPT ![f] = c]
          /\ content[f] = Damaged => c = snap[t]
      BY DEF Write
  <1>3. f \in Files
      BY <1>1 DEF IInv, Held, Writing
  <1> HIDE DEF f
  <1>4. c \in Contents /\ c \in Live
      BY DamagedTyped, MineIsSlot DEF IInv, Live
  <1>5. TypeOK'
      BY <1>1, <1>2, <1>3, <1>4 DEF IInv, TypeOK, Contents
  <1>6. \A u \in Threads : Writing(u)' <=> Writing(u)
      BY <1>1 DEF IInv, TypeOK, Writing
  <1>7. Held'
      BY <1>1, <1>6 DEF IInv, TypeOK, Held
  <1>8. content'[f] = c /\ \A g \in Files : content'[g] \in {content[g], c}
      BY <1>2, <1>3 DEF IInv, TypeOK
  <1>9. \A r \in {0, 1} : Stored(r)' \in {Stored(r), c}
      BY <1>1, <1>8 DEF IInv, TypeOK, Stored
  <1>10. Live' \subseteq Live
      <2>1. \A u \in Threads : Mine(u)' = Mine(u) /\ Mine(u) \in {0, 1}
          BY <1>1, MineIsSlot DEF IInv, Mine
      <2>2. ASSUME NEW u \in Threads, Writing(u)', tmp'[Mine(u)] # None
            PROVE  content'[tmp'[Mine(u)]] \in Live
          <3>1. tmp[Mine(u)] \in Files /\ tmp'[Mine(u)] = tmp[Mine(u)]
              BY <1>1, <2>1, <2>2 DEF IInv, TypeOK
          <3>2. content[tmp[Mine(u)]] \in Live
              BY <1>6, <2>2, <3>1, FindingsAssumption DEF Live
          <3> QED
              BY <1>4, <1>8, <3>1, <3>2
      <2>3. \A r \in {0, 1} : Stored(r)' \in Live
          BY <1>4, <1>9 DEF Live
      <2>4. \A u \in Threads : snap'[u] \in Live
          BY <1>1 DEF Live
      <2>5. Damaged \in Live
          BY DEF Live
      <2> QED
          BY <2>1, <2>2, <2>3, <2>4, <2>5 DEF Live
  <1>11. Behind' /\ Ordered'
      <2>1. seq <= seq' /\ Below(items, items')
          BY <1>1, BelowItself DEF IInv, TypeOK
      <2> QED
          BY <1>5, <1>10, <2>1, GrowingKeepsOrder DEF IInv
  <1>12. Alone'
      <2> SUFFICES ASSUME quiet PROVE Alone'
          BY <1>1 DEF Alone
      <2>1. t = "main"
          BY <1>1, OnlyMain
      <2>2. /\ seq > 0 /\ snap["main"] = Newest /\ Newest' = Newest
            /\ f = tmp[Slot(seq)] /\ content[f] = Damaged
          BY <1>1, <2>1 DEF IInv, Alone, Newest, f
      <2>3. c = Newest
          BY <1>2, <2>1, <2>2
      <2>4. \A r \in {0, 1} : Stored(r)'.seq < seq \/ Stored(r)' = Newest
          BY <1>1, <1>9, <2>1, <2>3 DEF IInv, Alone
      <2>5. pc'["main"] = "replace"
          BY <1>1, <2>1 DEF IInv, TypeOK
      <2>6. ending' /\ \A m \in Monitors : pc'[m] = "stopped"
          BY <1>1, <2>1, FindingsAssumption DEF IInv, Alone, TypeOK, Threads
      <2>7. f # None
          BY <1>3, FindingsAssumption
      <2> QED
          BY <1>1, <1>8, <2>2, <2>3, <2>4, <2>5, <2>6, <2>7 DEF Alone
  <1> QED
      BY <1>5, <1>7, <1>11, <1>12 DEF IInv

\* The temporary file becomes the slot.
LEMMA ReplaceKeeps ==
    ASSUME IInv, NEW t \in Threads, Replace(t)
    PROVE  IInv'
  <1>1. PICK s \in {0, 1} : s = Mine(t)
      BY MineIsSlot DEF IInv
  <1> DEFINE f == tmp[s]
             where == IF Forced(t) THEN "flushed" ELSE "idle"
  <1>2. /\ pc[t] = "replace" /\ f # None
        /\ slots' = [slots EXCEPT ![s] = f] /\ tmp' = [tmp EXCEPT ![s] = None]
        /\ content' = [g \in Files |-> IF g \in InUse' THEN content[g] ELSE Damaged]
        /\ UNCHANGED <<items, dirty, seq, ending, quiet>>
        /\ pc' = [pc EXCEPT ![t] = where]
        /\ returned' = Higher(returned, asked[t])
        /\ asked' = [asked EXCEPT ![t] = Nothing]
        /\ snap' = [snap EXCEPT ![t] = Damaged]
        /\ handle' = [handle EXCEPT ![t] = None]
      BY <1>1 DEF Replace, Return
  <1>3. f \in Files /\ content[f] \in Live
      BY <1>1, <1>2 DEF IInv, TypeOK, Live, Writing
  <1>4. where \in {"flushed", "idle"}
      OBVIOUS
  <1> HIDE DEF f, where
  <1>5. TypeOK'
      <2>1. Nothing \in [Keys -> Rank] /\ asked[t] \in [Keys -> Rank] /\ returned \in [Keys -> Rank]
          BY DamagedTyped DEF IInv, TypeOK
      <2>2. returned' \in [Keys -> Rank] /\ asked' \in [Threads -> [Keys -> Rank]]
          BY <1>2, <2>1, HigherTyped DEF IInv, TypeOK
      <2>3. slots' \in [{0, 1} -> Files \cup {None}] /\ tmp' \in [{0, 1} -> Files \cup {None}]
          BY <1>1, <1>2, <1>3 DEF IInv, TypeOK
      <2>4. content' \in [Files -> Contents] /\ snap' \in [Threads -> Contents]
          BY <1>2, DamagedTyped DEF IInv, TypeOK, Contents
      <2>5. handle' \in [Threads -> Files \cup {None}]
          BY <1>2 DEF IInv, TypeOK
      <2>6. pc' \in [Threads -> {"idle", "flush", "open", "write", "replace",
                                 "stopped", "flushed", "lost"}]
          BY <1>2, <1>4 DEF IInv, TypeOK
      <2> QED
          BY <1>2, <2>2, <2>3, <2>4, <2>5, <2>6 DEF IInv, TypeOK, Contents
  <1>6. /\ ~Writing(t)' /\ \A u \in Threads \ {t} : Writing(u)' <=> Writing(u)
        /\ snap'[t] = Damaged /\ \A u \in Threads \ {t} : snap'[u] = snap[u]
      BY <1>2, <1>4 DEF IInv, TypeOK, Writing
  <1>7. Held'
      BY <1>2, <1>6 DEF IInv, TypeOK, Held
  <1>8. /\ \A g \in Files : content'[g] \in {content[g], Damaged}
        /\ slots'[s] = f /\ f \in InUse' /\ content'[f] = content[f]
        /\ tmp'[s] = None /\ \A r \in {0, 1} \ {s} : tmp'[r] = tmp[r] /\ slots'[r] = slots[r]
      <2>1. slots'[s] = f /\ tmp'[s] = None
            /\ \A r \in {0, 1} \ {s} : tmp'[r] = tmp[r] /\ slots'[r] = slots[r]
          BY <1>1, <1>2 DEF IInv, TypeOK
      <2>2. f \in InUse'
          BY <1>1, <2>1 DEF InUse
      <2> QED
          BY <1>2, <1>3, <2>1, <2>2
  <1>9. Stored(s)' = content[f] /\ \A r \in {0, 1} \ {s} : Stored(r)' \in {Stored(r), Damaged}
      <2>1. Stored(s)' = content[f]
          BY <1>2, <1>8 DEF Stored
      <2>2. ASSUME NEW r \in {0, 1} \ {s}
            PROVE  Stored(r)' \in {Stored(r), Damaged}
          <3>1. slots'[r] = slots[r] /\ (slots[r] # None => slots[r] \in Files)
              BY <1>8 DEF IInv, TypeOK
          <3> QED
              BY <1>8, <3>1 DEF Stored
      <2> QED
          BY <2>1, <2>2
  <1>10. Live' \subseteq Live
      <2>1. \A u \in Threads \ {t} : Mine(u)' = Mine(u) /\ Mine(u) \in {0, 1}
          BY <1>6, MineIsSlot DEF IInv, Mine
      <2>2. ASSUME NEW u \in Threads, Writing(u)', (tmp[Mine(u)])' # None
            PROVE  (content[tmp[Mine(u)]])' \in Live
          <3>1. u # t /\ Writing(u) /\ Mine(u)' = Mine(u) /\ Mine(u) # s
              BY <1>6, <1>8, <2>1, <2>2
          <3>2. (tmp[Mine(u)])' = tmp[Mine(u)] /\ tmp[Mine(u)] # None
              BY <1>8, <2>1, <2>2, <3>1
          <3>3. tmp[Mine(u)] \in Files
              BY <2>1, <3>1, <3>2 DEF IInv, TypeOK
          <3>4. content[tmp[Mine(u)]] \in Live /\ Damaged \in Live
              BY <3>1, <3>2 DEF Live
          <3> QED
              BY <1>8, <3>2, <3>3, <3>4
      <2>3. \A r \in {0, 1} : Stored(r)' \in Live
          BY <1>3, <1>9 DEF Live
      <2>4. \A u \in Threads : snap'[u] \in Live
          BY <1>6 DEF Live
      <2>5. Damaged \in Live
          BY DEF Live
      <2> QED
          BY <2>2, <2>3, <2>4, <2>5 DEF Live
  <1>11. Behind' /\ Ordered'
      <2>1. seq <= seq' /\ Below(items, items')
          BY <1>2, BelowItself DEF IInv, TypeOK
      <2> QED
          BY <1>5, <1>10, <2>1, GrowingKeepsOrder DEF IInv
  <1>12. Alone'
      <2> SUFFICES ASSUME quiet PROVE Alone'
          BY <1>2 DEF Alone
      <2>1. t = "main"
          BY <1>2, OnlyMain
      <2>2. /\ seq > 0 /\ snap["main"] = Newest /\ ending
            /\ content[tmp[Slot(seq)]] = Newest
            /\ \A r \in {0, 1} : Stored(r).seq < seq \/ Stored(r) = Newest
          BY <1>2, <2>1 DEF IInv, Alone
      <2>3. s = Slot(seq) /\ content[f] = Newest
          BY <1>1, <2>1, <2>2 DEF Newest, Mine, f
      <2>4. /\ Stored(s)' = Newest
            /\ \A r \in {0, 1} : Stored(r)'.seq < seq \/ Stored(r)' = Newest
          BY <1>9, <2>2, <2>3 DEF Damaged
      <2>5. OnDisk'.items = items
          <3>1. Stored(0)' = Newest \/ Stored(1)' = Newest
              BY <1>1, <2>4
          <3>2. /\ Stored(0)'.seq < seq \/ Stored(0)' = Newest
                /\ Stored(1)'.seq < seq \/ Stored(1)' = Newest
              BY <2>4
          <3>3. Newest.seq = seq /\ Newest.items = items /\ seq \in Nat
              BY DEF Newest, IInv, TypeOK
          <3>4. Stored(0)'.seq \in Nat /\ Stored(1)'.seq \in Nat
              <4>1. Stored(0)' \in Live /\ Stored(1)' \in Live
                  BY <1>3, <1>9 DEF Live
              <4> QED
                  BY <4>1, LiveTyped DEF IInv, Contents
          <3> QED
              BY <3>1, <3>2, <3>3, <3>4 DEF OnDisk
      <2>6. pc'["main"] = "flushed"
          BY <1>2, <2>1, <2>2 DEF IInv, TypeOK, Forced, where
      <2>7. ending' /\ \A m \in Monitors : pc'[m] = "stopped"
          BY <1>2, <2>1, FindingsAssumption DEF IInv, Alone, TypeOK, Threads
      <2> QED
          BY <1>2, <2>5, <2>6, <2>7 DEF Alone
  <1> QED
      BY <1>5, <1>7, <1>11, <1>12 DEF IInv

-----------------------------------------------------------------------------
(* The end of a program, and the next start.                                *)

LEMMA EndingKeeps ==
    ASSUME IInv, StopMonitors \/ LastFlush \/ \E m \in Monitors : MonitorStops(m)
    PROVE  IInv'
  <1>1. UNCHANGED <<items, dirty, seq, snap, handle, content, tmp, slots, asked, returned>>
      BY DEF StopMonitors, LastFlush, MonitorStops
  <1>2. PICK t \in Threads :
          /\ pc[t] = "idle"
          /\ pc' = pc \/ \E where \in {"stopped", "flush"} : pc' = [pc EXCEPT ![t] = where]
      BY DEF StopMonitors, LastFlush, MonitorStops, Threads
  <1>3. TypeOK'
      <2>1. pc' \in [Threads -> {"idle", "flush", "open", "write", "replace",
                                 "stopped", "flushed", "lost"}]
          BY <1>2 DEF IInv, TypeOK
      <2>2. ending' \in BOOLEAN /\ quiet' \in BOOLEAN
          BY Zenon DEF StopMonitors, LastFlush, MonitorStops, IInv, TypeOK
      <2> QED
          BY <1>1, <2>1, <2>2 DEF IInv, TypeOK
  <1>4. \A u \in Threads : Writing(u)' <=> Writing(u)
      BY <1>2 DEF IInv, TypeOK, Writing
  <1>5. Held'
      BY <1>1, <1>4 DEF IInv, Held
  <1>6. Live' \subseteq Live
      BY <1>1, <1>4, SameLive DEF IInv
  <1>7. Behind' /\ Ordered'
      <2>1. seq <= seq' /\ Below(items, items')
          BY <1>1, BelowItself DEF IInv, TypeOK
      <2> QED
          BY <1>3, <1>6, <2>1, GrowingKeepsOrder DEF IInv
  <1>8. ~quiet
      BY <1>2, OnlyMain
  <1>9. Alone'
      <2> SUFFICES ASSUME quiet' PROVE Alone'
          BY DEF Alone
      <2>1. LastFlush
          BY <1>8 DEF StopMonitors, MonitorStops
      <2>2. /\ ending' /\ pc'["main"] = "flush" /\ \A m \in Monitors : pc'[m] = "stopped"
          BY <2>1, FindingsAssumption DEF LastFlush, IInv, TypeOK, Threads
      <2> QED
          BY <2>2 DEF Alone
  <1> QED
      BY <1>3, <1>5, <1>7, <1>9 DEF IInv

\* A new start believes the newer slot, so neither slot is ahead of it.
LEMMA RestartKeeps ==
    ASSUME IInv, Restart
    PROVE  IInv'
  <1>1. OnDisk \in Contents /\ OnDisk \in {Stored(0), Stored(1)}
      BY StoredTyped DEF IInv
  <1>2. /\ items' = OnDisk.items /\ seq' = OnDisk.seq
        /\ pc' = [t \in Threads |-> "idle"] /\ snap' = [t \in Threads |-> Damaged]
        /\ handle' = [t \in Threads |-> None] /\ asked' = [t \in Threads |-> Nothing]
        /\ returned' = OnDisk.items /\ dirty' = FALSE /\ ending' = FALSE /\ quiet' = FALSE
        /\ UNCHANGED <<content, tmp, slots>>
      BY DEF Restart
  <1>3. TypeOK'
      BY <1>1, <1>2, DamagedTyped DEF IInv, TypeOK, Contents
  <1>4. \A t \in Threads : ~Writing(t)'
      BY <1>2 DEF Writing
  <1>5. Held'
      BY <1>2, <1>4 DEF Held
  <1>6. Stored(0)' = Stored(0) /\ Stored(1)' = Stored(1)
      BY <1>2 DEF Stored
  <1>7. Live' \subseteq {Damaged, Stored(0), Stored(1)}
      BY <1>2, <1>4, <1>6 DEF Live
  <1>8. {Damaged, Stored(0), Stored(1)} \subseteq Live
      BY DEF Live
  <1>9. Ordered'
      BY <1>7, <1>8 DEF IInv, Ordered
  <1>10. Behind'
      <2>1. \A c \in {Damaged, Stored(0), Stored(1)} : c.seq <= OnDisk.seq
          <3>1. Stored(0).seq \in Nat /\ Stored(1).seq \in Nat
              BY <1>8, LiveTyped DEF IInv, Contents
          <3> QED
              BY <3>1 DEF OnDisk, Damaged
      <2>2. OnDisk \in Live
          BY <1>1, <1>8
      <2>3. \A c \in {Damaged, Stored(0), Stored(1)} : Below(c.items, OnDisk.items)
          BY <1>8, <2>1, <2>2 DEF IInv, Ordered
      <2> QED
          BY <1>2, <1>7, <2>1, <2>3 DEF Behind, Below
  <1>11. Alone'
      BY <1>2 DEF Alone
  <1> QED
      BY <1>3, <1>5, <1>9, <1>10, <1>11 DEF IInv

LEMMA StutterKeeps ==
    ASSUME IInv, UNCHANGED vars
    PROVE  IInv'
  <1>1. TypeOK' /\ Held'
      BY DEF vars, IInv, TypeOK, Held, Writing
  <1>2. Behind' /\ Ordered'
      BY DEF vars, IInv, Behind, Ordered, Below, Live, Stored, Writing, Mine, Slot
  <1>3. Alone'
      BY DEF vars, IInv, Alone, Stored, Newest, OnDisk, Slot
  <1> QED
      BY <1>1, <1>2, <1>3 DEF IInv

-----------------------------------------------------------------------------

LEMMA Inductive == IInv /\ [Next]_vars => IInv'
  BY AddKeeps, EscalateKeeps, HeartbeatFlushKeeps, SnapshotKeeps, NothingOrFailureKeeps,
     OpenKeeps, WriteKeeps, ReplaceKeeps, EndingKeeps, RestartKeeps, StutterKeeps DEF Next, Over

\* Findings, calls under way and files keep their types.
THEOREM TypeCorrect == Spec => []TypeOK
  <1>1. IInv => TypeOK
      BY DEF IInv
  <1> QED
      BY <1>1, InitHolds, Inductive, PTL DEF Spec

\* However the threads of Findings.flush interleave, findings.json claims nothing
\* that was not found, and no number that is given again.
THEOREM NeverAhead == Spec => []DiskIsNeverAhead
  <1>1. IInv => DiskIsNeverAhead
      BY StoredTyped DEF IInv, Behind, Live, Below, DiskIsNeverAhead
  <1> QED
      BY <1>1, InitHolds, Inductive, PTL DEF Spec

\* finalize's flush after the monitors have stopped leaves nothing out.
THEOREM LastFlushComplete == Spec => []LastFlushIsComplete
  <1>1. IInv => LastFlushIsComplete
      BY DEF IInv, Alone, LastFlushIsComplete
  <1> QED
      BY <1>1, InitHolds, Inductive, PTL DEF Spec
=============================================================================
