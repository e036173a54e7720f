--------------------------- MODULE CountersProofs ---------------------------
(***************************************************************************)
(* Any source of errors, any number of them, of deaths and of resets: what *)
(* is counted is counted once, nothing is passed without evidence, and a   *)
(* count that reaches the threshold becomes a FAIL.                        *)
(***************************************************************************)
EXTENDS Counters, TLAPS

-----------------------------------------------------------------------------
(* Where the threads are *)

\* Where a thread is, or goes on when it has flushed.
Where(t) == IF pc[t] \in {"flush", "write"} THEN then[t] ELSE pc[t]

Polling == {"read", "add", "check", "advance", "saves", "leave"}

MonitorSpots == {"idle", "ended"} \cup Polling
MainSpots == {"idle", "sample", "stop", "join", "done"} \cup Polling
KmsgSpots == {"idle", "open", "process", "check", "acknowledge", "ended"}

Spots ==
    /\ Where("monitor") \in MonitorSpots
    /\ Where("main") \in MainSpots
    /\ Where("kmsg") \in KmsgSpots
    /\ Where("heartbeat") = "idle" /\ then["heartbeat"] = "idle"
    /\ pc["main"] = "flush" => then["main"] # "done"
    /\ \A t \in Pollers : Where(t) \in Polling => lock = t

\* Threads that have nothing to do with the source have ended.
Bystanders ==
    /\ ~up => Idle
    /\ source \notin KernelTold => session.seq = 0 /\ (up => Where("kmsg") = "ended")
    /\ source \in Polled => Where("kmsg") # "check"
    /\ source \notin Polled =>
          /\ session.cursor = Absent /\ history.sampled = 0
          /\ up => Where("monitor") = "ended"
          /\ Where("main") \notin {"sample"} \cup Polling

Placed == Spots /\ Bystanders

History == [total : Nat, earlier : Nat, base : Nat, sampled : Nat, unseen : SUBSET Nat,
            died : BOOLEAN, torn : BOOLEAN, reset : BOOLEAN, quiet : BOOLEAN]

\* A poll is ahead of the cursor.
Advancing ==
    \A t \in Pollers : /\ Where(t) \in {"add", "check"} => got[t] > Prev
                       /\ Where(t) = "advance" => got[t] >= Prev

Left == [errors : Nat, raises : Nat, dies : Nat, resets : Nat]

Cursors == [cursor : Int, seq : Nat]

Bounded ==
    /\ history \in History /\ session \in Cursors /\ stored \in Cursors
    /\ left \in Left
    /\ errors + left.errors <= Bounds[source].errors
    /\ errors <= history.total
    /\ stored.cursor <= session.cursor /\ stored.seq <= session.seq
    /\ \A t \in Threads : got[t] <= errors
    /\ Advancing
    /\ up => got["kmsg"] >= session.seq

\* Memory is ahead of every snapshot, and of the stick.
Behind(f) == f.count <= items.count /\ f.rank <= items.rank /\ f.gaps \subseteq items.gaps

Ahead == Behind(saved) /\ \A t \in Threads : Behind(snap[t])

-----------------------------------------------------------------------------
(* What is on its way to the stick *)

\* A flush will take what is in memory now.
Due == dirty /\ \E t \in Threads : pc[t] = "flush"

Writing(t) == pc[t] = "write"

Arrives ==
    /\ items.count > 0 =>
          saved.count > 0 \/ Due \/ \E t \in Threads : Writing(t) /\ snap[t].count > 0
    /\ items.gaps # {} =>
          saved.gaps # {} \/ Due \/ \E t \in Threads : Writing(t) /\ snap[t].gaps # {}
    /\ items.rank = 2 =>
          saved.rank = 2 \/ Due \/ \E t \in Threads : Writing(t) /\ snap[t].rank = 2
    /\ source = "ue" =>
          saved.count >= items.count \/ Due
          \/ \E t \in Threads : Writing(t) /\ snap[t].count >= items.count

-----------------------------------------------------------------------------
(* What has been counted *)

\* The cursor the poll is about to leave.
Seen(t) == IF source = "ras" /\ got[t] > Prev THEN Prev + 1 ELSE got[t]

\* Up to here the errors of this boot are in the finding.
Counted ==
    IF Where("monitor") \in {"check", "advance"} THEN Seen("monitor")
    ELSE IF Where("main") \in {"check", "advance"} THEN Seen("main") ELSE Prev

\* Up to here the kernel log reader has processed its records.
Processed == IF Where("kmsg") = "process" THEN got["kmsg"] - 1 ELSE got["kmsg"]

NotMore ==
    ~history.died /\ (source = "sel" => ~history.reset) =>
        items.count <= (history.total - errors) + Extra
                       + (IF source \in Polled THEN Counted ELSE Processed)

NotLess ==
    /\ ~history.died /\ ~history.reset =>
          /\ items.count >= Counted - history.base
          /\ session.cursor = Absent => history.base = 0
    /\ ~history.torn /\ source = "ue" => items.count >= history.earlier + Counted

\* What was passed left a finding.
Evident ==
    ~history.torn /\ source \notin Baselined /\ items.count = 0 =>
        /\ history.earlier = 0 /\ Counted = 0 /\ session.seq = 0
        /\ Where("kmsg") # "process" => got["kmsg"] = 0

Sampled ==
    ~history.died /\ ~history.reset =>
        /\ Where("main") \in {"saves", "leave"} /\ items.gaps = {} =>
              items.count >= got["main"] - history.base
        /\ Where("main") \in {"stop", "join"} /\ items.gaps = {} =>
              items.count >= history.sampled - history.base
        /\ Where("main") = "done" /\ Writing("main") /\ snap["main"].gaps = {} =>
              snap["main"].count >= history.sampled - history.base
        /\ pc["main"] = "done" /\ saved.gaps = {} =>
              saved.count >= history.sampled - history.base

-----------------------------------------------------------------------------
(* What becomes of a count that reaches the threshold *)

\* A baseline is taken before anything is counted, and the one of the BMC's log is
\* on the stick by then.
BaselineFirst ==
    /\ source \in Baselined =>
          \A t \in Pollers : Where(t) \in {"add", "check", "advance"} => session.cursor # Absent
    /\ source = "sel" =>
          /\ session.cursor # Absent =>
                stored.cursor # Absent \/ \E t \in Pollers : Where(t) = "saves"
          /\ items.count > 0 => stored.cursor # Absent

\* The runs that ThresholdFails is about.
Judged ==
    /\ source \in Thresholded /\ (source = "mce" => ~history.died)
    /\ ~history.reset /\ ~history.torn /\ items.gaps = {} /\ Threshold > Extra

Fails == items.count >= Threshold => items.rank = 2

\* Somebody is about to compare the count, or the final sample is to come and will.
Compared ==
    \/ \E t \in Threads : Where(t) = "check"
    \/ source \in Polled /\ Prev < errors /\ Where("main") \in {"idle", "sample", "read", "add"}

Escalates ==
    Judged =>
        /\ Fails \/ Compared
        /\ \A t \in Pollers : Where(t) = "advance" => Fails \/ got[t] = Prev

\* After the last flush nothing changes any more.
Quiet ==
    Where("main") = "done" /\ history.quiet =>
        /\ pc["monitor"] = "ended" /\ pc["kmsg"] = "ended" /\ pc["heartbeat"] = "idle" /\ ~dirty
        /\ pc["main"] = "write" => snap["main"] = items
        /\ pc["main"] = "done" => saved = items

-----------------------------------------------------------------------------
(* The kernel log *)

\* The device is open.
Reading == up /\ Where("kmsg") \notin {"open", "ended"}

Accounted(n) == n \in logged \/ n \in history.unseen \/ items.gaps # {}

Logging ==
    /\ ~history.torn =>
          /\ \A n \in 1..session.seq : Accounted(n)
          /\ up => \A n \in 1..got["kmsg"] : Accounted(n) \/ n \in pending
          /\ Reading => \A n \in 1..(pos - 1) : Accounted(n) \/ n \in pending
    /\ Where("kmsg") = "acknowledge" => pending = {}
    /\ Where("kmsg") = "process" => pos = got["kmsg"] + 1

CInv ==
    /\ TypeOK /\ Placed /\ Bounded /\ Ahead /\ Arrives
    /\ NotMore /\ NotLess /\ Evident /\ Sampled
    /\ BaselineFirst /\ Escalates /\ Quiet /\ Logging

-----------------------------------------------------------------------------
(* Where a step takes a thread *)

Resting == Points \ {"flush", "write"}

\* Thread t goes to w, at once or after a flush, and no other thread moves.
Moved(t, w) ==
    /\ pc' \in [Threads -> Points] /\ then' \in [Threads -> Points]
    /\ Where(t)' = w
    /\ \A u \in Threads \ {t} : pc'[u] = pc[u] /\ then'[u] = then[u] /\ Where(u)' = Where(u)

LEMMA GotoMoves ==
    ASSUME TypeOK, NEW t \in Threads, NEW w \in Resting, Goto(t, w), UNCHANGED then
    PROVE  Moved(t, w) /\ pc'[t] = w
  BY DEF TypeOK, Goto, Moved, Where, Resting

LEMMA FlushThenMoves ==
    ASSUME TypeOK, NEW t \in Threads, NEW w \in Resting, FlushThen(t, w)
    PROVE  Moved(t, w) /\ pc'[t] = "flush" /\ then'[t] = w
  BY DEF TypeOK, Goto, FlushThen, Moved, Where, Resting, Points

LEMMA FlushEndsMoves ==
    ASSUME TypeOK, NEW t \in Threads, pc[t] \in {"flush", "write"}, then[t] \in Resting,
           FlushEnds(t)
    PROVE  Moved(t, Where(t)) /\ pc'[t] = then[t] /\ then'[t] = "idle"
  BY DEF TypeOK, Goto, FlushEnds, Moved, Where, Resting, Points

LEMMA PlacedRests ==
    ASSUME TypeOK, Placed
    PROVE  \A t \in Threads : Where(t) \in Resting
  BY DEF TypeOK, Placed, Spots, MonitorSpots, MainSpots, KmsgSpots, Where, Resting, Points, Threads,
         Polling

LEMMA FlushingGoesOn ==
    ASSUME TypeOK, Placed, NEW t \in Threads, pc[t] \in {"flush", "write"}
    PROVE  then[t] \in Resting /\ Where(t) = then[t]
  BY PlacedRests DEF Where, TypeOK

\* A thread that is not in flush is where it is.
LEMMA AtIsWhere ==
    ASSUME NEW t \in Threads, NEW a \in Resting, At(t, a)
    PROVE  up /\ pc[t] = a /\ Where(t) = a
  BY DEF At, Where, Resting

-----------------------------------------------------------------------------
(* What add and escalate do *)

LEMMA AddFindingAdds ==
    ASSUME TypeOK, NEW t \in Threads, NEW rank \in 1..2, NEW count \in Nat, NEW w \in Resting,
           AddFinding(t, rank, count, w)
    PROVE  /\ items' \in Findings /\ dirty' = TRUE
           /\ items'.count = IF items.count = 0 /\ count = 0 THEN 1 ELSE items.count + count
           /\ items'.rank = IF rank > items.rank THEN rank ELSE items.rank
           /\ items'.gaps = items.gaps
           /\ Moved(t, w)
           /\ pc'[t] \in {"flush", w}
           /\ items.count = 0 \/ rank = 2 => pc'[t] = "flush"
  <1> DEFINE c == IF items.count = 0 /\ count = 0 THEN 1 ELSE items.count + count
             r == IF rank > items.rank THEN rank ELSE items.rank
  <1>0. items \in Findings
    BY DEF TypeOK
  <1>a. c \in Nat /\ r \in 0..2
    BY <1>0 DEF Findings
  <1>b. items' = [items EXCEPT !.count = c, !.rank = r] /\ dirty' = TRUE
    BY DEF AddFinding
  <1>1. /\ items' \in Findings /\ dirty' = TRUE
        /\ items'.count = c /\ items'.rank = r /\ items'.gaps = items.gaps
    <2> HIDE DEF c, r
    <2> QED BY <1>0, <1>a, <1>b DEF Findings
  <1>2. CASE items.count = 0 \/ rank = 2
    BY <1>1, <1>2, FlushThenMoves DEF AddFinding
  <1>3. CASE ~(items.count = 0 \/ rank = 2)
    BY <1>1, <1>3, GotoMoves DEF AddFinding
  <1> QED BY <1>2, <1>3

Gaps == {"monitor-error", "kmsg-overrun", "kmsg-unavailable"}

LEMMA AddGapAdds ==
    ASSUME TypeOK, NEW t \in Threads, NEW key \in Gaps, NEW w \in Resting, AddGap(t, key, w)
    PROVE  /\ items' \in Findings /\ dirty' \in BOOLEAN
           /\ items'.count = items.count /\ items'.rank = items.rank
           /\ items'.gaps = items.gaps \cup {key}
           /\ Moved(t, w)
           /\ \/ pc'[t] = "flush" /\ dirty' = TRUE
              \/ pc'[t] = w /\ dirty' = dirty /\ items' = items
  <1>1. /\ items' \in Findings
        /\ items'.count = items.count /\ items'.rank = items.rank
        /\ items'.gaps = items.gaps \cup {key}
    BY DEF AddGap, TypeOK, Findings, Gaps
  <1>2. CASE key \in items.gaps
    <2>1. items' = items
      BY <1>2 DEF AddGap, TypeOK, Findings
    <2> QED BY <1>1, <1>2, <2>1, GotoMoves DEF AddGap, TypeOK
  <1>3. CASE key \notin items.gaps
    BY <1>1, <1>3, FlushThenMoves DEF AddGap, TypeOK
  <1> QED BY <1>2, <1>3

LEMMA CheckChecks ==
    ASSUME TypeOK, NEW t \in Threads, Check(t)
    PROVE  LET w == IF t = "kmsg" THEN "idle" ELSE "advance"
           IN  /\ items' \in Findings /\ dirty' \in BOOLEAN
               /\ items'.count = items.count /\ items'.gaps = items.gaps
               /\ Where(t) = "check" /\ up
               /\ Moved(t, w)
               /\ \/ /\ Reached /\ pc'[t] = "flush" /\ items'.rank = 2
                     /\ dirty' = (dirty \/ items.rank < 2)
                  \/ ~Reached /\ pc'[t] = w /\ items' = items /\ dirty' = dirty
  <1> DEFINE w == IF t = "kmsg" THEN "idle" ELSE "advance"
  <1>1. w \in Resting
    BY DEF Resting, Points
  <1>2. Where(t) = "check" /\ up
    BY DEF Check, At, Where
  <1>3. CASE Reached
    BY <1>1, <1>2, <1>3, FlushThenMoves DEF Check, TypeOK, Findings
  <1>4. CASE ~Reached
    BY <1>1, <1>2, <1>4, GotoMoves DEF Check, TypeOK, Findings
  <1> QED BY <1>3, <1>4

-----------------------------------------------------------------------------
(* The steps, field by field *)

\* Thread t goes from a to b.
Goes(t, a, b) == up /\ up' /\ pc[t] = a /\ Where(t) = a /\ Moved(t, b) /\ pc'[t] = b

LEMMA GoesOn ==
    ASSUME TypeOK, NEW t \in Threads, NEW a \in Resting, NEW b \in Resting,
           At(t, a), Goto(t, b), UNCHANGED <<up, then>>
    PROVE  Goes(t, a, b)
  BY AtIsWhere, GotoMoves DEF Goes

LEMMA BeginPollStep ==
    ASSUME TypeOK, NEW t \in Pollers, BeginPoll(t)
    PROVE  /\ Goes(t, IF t = "main" THEN "sample" ELSE "idle", "read")
           /\ lock = "free" /\ lock' = t
           /\ UNCHANGED <<source, errors, session, stored, items, saved, dirty, up, got, snap,
                          pos, pending, logged, history, left>>
  <1>1. t \in Threads
    BY DEF Pollers, Threads
  <1>2. (IF t = "main" THEN "sample" ELSE "idle") \in Resting /\ "read" \in Resting
    BY DEF Resting, Points
  <1> QED BY <1>1, <1>2, GoesOn DEF BeginPoll, PollDue, kernel

\* A poll that takes the baseline, and one that compares with the cursor.
Baselines(t) ==
    /\ source \in Baselined /\ session.cursor = Absent
    /\ session' \in Cursors /\ session'.cursor = errors /\ session'.seq = session.seq
    /\ history' = [history EXCEPT !.base = errors]
    /\ Goes(t, "read", IF source = "sel" THEN "saves" ELSE "leave")

Compares(t) ==
    /\ ~(source \in Baselined /\ session.cursor = Absent)
    /\ Goes(t, "read", IF errors > Prev THEN "add" ELSE "advance")
    /\ UNCHANGED <<session, history>>

LEMMA ReadStep ==
    ASSUME TypeOK, Bounded, NEW t \in Pollers, Read(t)
    PROVE  /\ got' \in [Threads -> Nat] /\ got'[t] = errors
           /\ \A u \in Threads \ {t} : got'[u] = got[u]
           /\ Baselines(t) \/ Compares(t)
           /\ UNCHANGED <<source, errors, stored, items, saved, dirty, up, snap, lock,
                          pos, pending, logged, left>>
  <1>1. t \in Threads /\ errors \in Nat
    BY DEF Pollers, Threads, TypeOK
  <1>2. {"read", "add", "advance", "saves", "leave"} \subseteq Resting
    BY DEF Resting, Points
  <1>3. /\ got' \in [Threads -> Nat] /\ got'[t] = errors
        /\ \A u \in Threads \ {t} : got'[u] = got[u]
    BY <1>1 DEF Read, TypeOK
  <1>4. At(t, "read") /\ UNCHANGED <<up, then>>
    BY DEF Read
  <1>5. CASE ~(source \in Baselined /\ session.cursor = Absent)
    <2>1. Goto(t, IF errors > Prev THEN "add" ELSE "advance") /\ UNCHANGED <<session, history>>
      BY <1>5 DEF Read
    <2>2. Goes(t, "read", IF errors > Prev THEN "add" ELSE "advance")
      BY <1>1, <1>2, <1>4, <2>1, GoesOn
    <2> QED BY <1>3, <1>5, <2>1, <2>2 DEF Compares, Read, kernel
  <1>6. CASE source \in Baselined /\ session.cursor = Absent
    <2>1. /\ Goto(t, IF source = "sel" THEN "saves" ELSE "leave")
          /\ session' = [session EXCEPT !.cursor = errors]
          /\ history' = [history EXCEPT !.base = errors]
      BY <1>6 DEF Read
    <2>2. Goes(t, "read", IF source = "sel" THEN "saves" ELSE "leave")
      BY <1>1, <1>2, <1>4, <2>1, GoesOn
    <2>3. session' \in Cursors /\ session'.cursor = errors /\ session'.seq = session.seq
      BY <1>1, <2>1 DEF Bounded, Cursors
    <2> QED BY <1>3, <1>6, <2>1, <2>2, <2>3 DEF Baselines, Read, kernel
  <1> QED BY <1>5, <1>6

\* What a finding adds to the count: one row, or the difference.
Found(t) == IF source = "ras" THEN 1 ELSE got[t] - Prev

LEMMA AddStep ==
    ASSUME TypeOK, Bounded, NEW t \in Pollers, Add(t)
    PROVE  /\ up /\ up' /\ Where(t) = "add" /\ pc[t] = "add" /\ Moved(t, "check")
           /\ pc'[t] \in {"flush", "check"}
           /\ Found(t) \in Nat \ {0} /\ got[t] > Prev
           /\ items' \in Findings /\ dirty' = TRUE
           /\ items'.count = items.count + Found(t)
           /\ items'.rank = IF Severity > items.rank THEN Severity ELSE items.rank
           /\ items'.gaps = items.gaps
           /\ items.count = 0 \/ source = "ue" => pc'[t] = "flush"
           /\ UNCHANGED <<source, errors, session, stored, saved, up, got, snap, lock,
                          pos, pending, logged, history, left>>
  <1>1. t \in Threads /\ "add" \in Resting /\ "check" \in Resting
    BY DEF Pollers, Threads, Resting, Points
  <1>2. up /\ pc[t] = "add" /\ Where(t) = "add"
    BY <1>1, AtIsWhere DEF Add
  <1>3. Prev \in Nat /\ got[t] \in Nat
    BY <1>1 DEF TypeOK, Absent, Prev
  <1>4. got[t] > Prev
    BY <1>2 DEF Bounded, Advancing
  <1>5. Found(t) \in Nat \ {0}
    BY <1>3, <1>4 DEF Found
  <1>6. Severity \in 1..2 /\ (source = "ue" => Severity = 2)
    BY DEF Severity
  <1>7. AddFinding(t, Severity, Found(t), "check")
    BY DEF Add, Found
  <1> DEFINE n == Found(t)
             k == Severity
  <1>8. n \in Nat \ {0} /\ k \in 1..2 /\ AddFinding(t, k, n, "check")
    BY <1>5, <1>6, <1>7
  <1>9. /\ items' \in Findings /\ dirty' = TRUE
        /\ items'.count = IF items.count = 0 /\ n = 0 THEN 1 ELSE items.count + n
        /\ items'.rank = IF k > items.rank THEN k ELSE items.rank
        /\ items'.gaps = items.gaps
        /\ Moved(t, "check")
        /\ pc'[t] \in {"flush", "check"}
        /\ items.count = 0 \/ k = 2 => pc'[t] = "flush"
    <2> HIDE DEF n, k
    <2> QED BY <1>1, <1>8, AddFindingAdds
  <1>10. n # 0
    BY <1>8
  <1>11. UNCHANGED <<source, errors, session, stored, saved, up, got, snap, lock,
                     pos, pending, logged, history, left>>
    BY DEF Add, kernel
  <1> QED BY <1>2, <1>4, <1>5, <1>6, <1>9, <1>10, <1>11

LEMMA AdvanceStep ==
    ASSUME TypeOK, Bounded, NEW t \in Pollers, Advance(t)
    PROVE  /\ session' \in Cursors /\ session'.cursor = Seen(t) /\ session'.seq = session.seq
           /\ Prev <= Seen(t) /\ Seen(t) <= got[t] /\ Seen(t) \in Nat
           /\ source # "ras" => Seen(t) = got[t]
           /\ Goes(t, "advance", IF Seen(t) < got[t] THEN "add"
                                 ELSE IF source = "sel" /\ Seen(t) > Prev THEN "saves" ELSE "leave")
           /\ UNCHANGED <<source, errors, stored, items, saved, dirty, up, got, snap, lock,
                          pos, pending, logged, history, left>>
  <1>1. t \in Threads /\ {"advance", "add", "saves", "leave"} \subseteq Resting
    BY DEF Pollers, Threads, Resting, Points
  <1>2. At(t, "advance") /\ UNCHANGED <<up, then>>
    BY DEF Advance
  <1>3. up /\ pc[t] = "advance" /\ Where(t) = "advance"
    BY <1>1, <1>2, AtIsWhere
  <1>4. Prev \in Nat /\ got[t] \in Nat /\ got[t] >= Prev
    BY <1>1, <1>3 DEF TypeOK, Absent, Prev, Bounded, Advancing
  <1>5. Prev <= Seen(t) /\ Seen(t) <= got[t] /\ Seen(t) \in Nat /\ (source # "ras" => Seen(t) = got[t])
    BY <1>4 DEF Seen
  <1>6. /\ session' = [session EXCEPT !.cursor = Seen(t)]
        /\ Goto(t, IF Seen(t) < got[t] THEN "add"
                   ELSE IF source = "sel" /\ Seen(t) > Prev THEN "saves" ELSE "leave")
    BY DEF Advance, Seen
  <1>7. Goes(t, "advance", IF Seen(t) < got[t] THEN "add"
                           ELSE IF source = "sel" /\ Seen(t) > Prev THEN "saves" ELSE "leave")
    BY <1>1, <1>2, <1>6, GoesOn
  <1>8. session' \in Cursors /\ session'.cursor = Seen(t) /\ session'.seq = session.seq
    BY <1>5, <1>6 DEF Bounded, Cursors
  <1> QED BY <1>5, <1>7, <1>8 DEF Advance, kernel

LEMMA SaveCursorStep ==
    ASSUME TypeOK, NEW t \in Pollers, SaveCursor(t)
    PROVE  /\ Goes(t, "saves", "leave") /\ stored' = session
           /\ UNCHANGED <<source, errors, session, items, saved, dirty, up, got, snap, lock,
                          pos, pending, logged, history, left>>
  <1>1. t \in Threads /\ {"saves", "leave"} \subseteq Resting
    BY DEF Pollers, Threads, Resting, Points
  <1> QED BY <1>1, GoesOn DEF SaveCursor, kernel

LEMMA LeaveStep ==
    ASSUME TypeOK, Bounded, NEW t \in Pollers, Leave(t)
    PROVE  /\ Goes(t, "leave", IF t = "main" THEN "stop" ELSE "idle")
           /\ lock' = "free"
           /\ got' \in [Threads -> Nat] /\ got'[t] = 0
           /\ \A u \in Threads \ {t} : got'[u] = got[u]
           /\ \/ t = "main" /\ history' = [history EXCEPT !.sampled = got["main"]]
              \/ t = "monitor" /\ history' = history
           /\ UNCHANGED <<source, errors, session, stored, items, saved, dirty, up, snap,
                          pos, pending, logged, left>>
  <1>1. t \in Threads /\ {"leave", "stop", "idle"} \subseteq Resting
    BY DEF Pollers, Threads, Resting, Points
  <1>2. /\ got' \in [Threads -> Nat] /\ got'[t] = 0
        /\ \A u \in Threads \ {t} : got'[u] = got[u]
    BY <1>1 DEF Leave, TypeOK
  <1>3. At(t, "leave") /\ UNCHANGED <<up, then>>
    BY DEF Leave
  <1>4. Goto(t, IF t = "main" THEN "stop" ELSE "idle")
    BY DEF Leave
  <1>5. Goes(t, "leave", IF t = "main" THEN "stop" ELSE "idle")
    BY <1>1, <1>3, <1>4, GoesOn
  <1> QED BY <1>2, <1>5 DEF Leave, kernel, Pollers

LEMMA RaiseStep ==
    ASSUME TypeOK, NEW t \in Pollers, Raise(t)
    PROVE  /\ up /\ up' /\ Where(t) = "read" /\ pc[t] = "read" /\ Moved(t, "leave")
           /\ items' \in Findings /\ dirty' \in BOOLEAN
           /\ items'.count = items.count /\ items'.rank = items.rank
           /\ items'.gaps = items.gaps \cup {"monitor-error"}
           /\ \/ pc'[t] = "flush" /\ dirty' = TRUE
              \/ pc'[t] = "leave" /\ dirty' = dirty /\ items' = items
           /\ left.raises > 0 /\ left' = [left EXCEPT !.raises = @ - 1]
           /\ UNCHANGED <<source, errors, session, stored, saved, up, got, snap, lock,
                          pos, pending, logged, history>>
  <1>1. t \in Threads /\ {"read", "leave"} \subseteq Resting /\ "monitor-error" \in Gaps
    BY DEF Pollers, Threads, Resting, Points, Gaps
  <1>2. up /\ pc[t] = "read" /\ Where(t) = "read"
    BY <1>1, AtIsWhere DEF Raise
  <1>3. AddGap(t, "monitor-error", "leave")
    BY DEF Raise
  <1> QED BY <1>1, <1>2, <1>3, AddGapAdds DEF Raise, kernel

LEMMA KmsgUnavailableStep ==
    ASSUME TypeOK, KmsgUnavailable
    PROVE  /\ up /\ up' /\ Where("kmsg") = "open" /\ pc["kmsg"] = "open" /\ Moved("kmsg", "ended")
           /\ items' \in Findings /\ dirty' \in BOOLEAN
           /\ items'.count = items.count /\ items'.rank = items.rank
           /\ items'.gaps = items.gaps \cup {"kmsg-unavailable"}
           /\ \/ pc'["kmsg"] = "flush" /\ dirty' = TRUE
              \/ pc'["kmsg"] = "ended" /\ dirty' = dirty /\ items' = items
           /\ left.raises > 0 /\ left' = [left EXCEPT !.raises = @ - 1]
           /\ UNCHANGED <<source, errors, session, stored, saved, up, got, snap, lock,
                          pos, pending, logged, history>>
  <1>1. "kmsg" \in Threads /\ {"open", "ended"} \subseteq Resting /\ "kmsg-unavailable" \in Gaps
    BY DEF Threads, Resting, Points, Gaps
  <1>2. up /\ pc["kmsg"] = "open" /\ Where("kmsg") = "open"
    BY <1>1, AtIsWhere DEF KmsgUnavailable
  <1>3. AddGap("kmsg", "kmsg-unavailable", "ended")
    BY DEF KmsgUnavailable
  <1> QED BY <1>1, <1>2, <1>3, AddGapAdds DEF KmsgUnavailable, kernel

LEMMA KmsgOverrunStep ==
    ASSUME TypeOK, KmsgOverrun
    PROVE  /\ up /\ up' /\ Where("kmsg") = "idle" /\ pc["kmsg"] = "idle" /\ Moved("kmsg", "idle")
           /\ items' \in Findings /\ dirty' \in BOOLEAN
           /\ items'.count = items.count /\ items'.rank = items.rank
           /\ items'.gaps = items.gaps \cup {"kmsg-overrun"}
           /\ \/ pc'["kmsg"] = "flush" /\ dirty' = TRUE
              \/ pc'["kmsg"] = "idle" /\ dirty' = dirty /\ items' = items
           /\ pos' = Oldest
           /\ UNCHANGED <<source, errors, session, stored, saved, up, got, snap, lock,
                          pending, logged, history, left>>
  <1>1. "kmsg" \in Threads /\ "idle" \in Resting /\ "kmsg-overrun" \in Gaps
    BY DEF Threads, Resting, Points, Gaps
  <1>2. up /\ pc["kmsg"] = "idle" /\ Where("kmsg") = "idle"
    BY <1>1, AtIsWhere DEF KmsgOverrun
  <1>3. AddGap("kmsg", "kmsg-overrun", "idle")
    BY DEF KmsgOverrun
  <1> QED BY <1>1, <1>2, <1>3, AddGapAdds DEF KmsgOverrun

LEMMA KmsgOpensStep ==
    ASSUME TypeOK, KmsgOpens
    PROVE  /\ Goes("kmsg", "open", "idle")
           /\ pos' = Oldest
           /\ history' = [history EXCEPT !.unseen = @ \cup (1..(Oldest - 1) \ logged)]
           /\ UNCHANGED <<source, errors, session, stored, items, saved, dirty, up, got, snap, lock,
                          pending, logged, left>>
  <1>1. "kmsg" \in Threads /\ {"open", "idle"} \subseteq Resting
    BY DEF Threads, Resting, Points
  <1> QED BY <1>1, GoesOn DEF KmsgOpens

\* A record that is read again, and a new one.
Skips == UNCHANGED <<got, pending, pc, then>> /\ pos <= got["kmsg"]

Takes == /\ pos > got["kmsg"]
         /\ got' \in [Threads -> Nat] /\ got'["kmsg"] = pos
         /\ \A u \in Threads \ {"kmsg"} : got'[u] = got[u]
         /\ pending' = pending \cup {pos}
         /\ Goes("kmsg", "idle", "process")

LEMMA KmsgReadsStep ==
    ASSUME TypeOK, KmsgReads
    PROVE  /\ up /\ up' /\ pc["kmsg"] = "idle" /\ Where("kmsg") = "idle"
           /\ Oldest <= pos /\ pos <= errors /\ pos' = pos + 1 /\ pos \in Nat
           /\ Skips \/ Takes
           /\ UNCHANGED <<source, errors, session, stored, items, saved, dirty, up, snap, lock,
                          logged, history, left>>
  <1>1. "kmsg" \in Threads /\ {"process", "idle"} \subseteq Resting
    BY DEF Threads, Resting, Points
  <1>2. At("kmsg", "idle") /\ UNCHANGED <<up, then>>
    BY DEF KmsgReads
  <1>3. up /\ pc["kmsg"] = "idle" /\ Where("kmsg") = "idle"
    BY <1>1, <1>2, AtIsWhere
  <1>4. pos \in Nat /\ got["kmsg"] \in Nat
    BY <1>1 DEF TypeOK
  <1>5. CASE pos <= got["kmsg"]
    BY <1>2, <1>3, <1>4, <1>5 DEF KmsgReads, Skips
  <1>6. CASE ~(pos <= got["kmsg"])
    <2>1. /\ got' = [got EXCEPT !["kmsg"] = pos] /\ pending' = pending \cup {pos}
          /\ Goto("kmsg", "process")
      BY <1>6 DEF KmsgReads
    <2>2. Goes("kmsg", "idle", "process")
      BY <1>1, <1>2, <2>1, GoesOn
    <2>3. /\ got' \in [Threads -> Nat] /\ got'["kmsg"] = pos
          /\ \A u \in Threads \ {"kmsg"} : got'[u] = got[u]
      BY <1>1, <1>4, <2>1 DEF TypeOK
    <2>4. Takes
      BY <1>4, <1>6, <2>1, <2>2, <2>3 DEF Takes
    <2> QED BY <1>2, <1>3, <1>4, <2>4 DEF KmsgReads
  <1> QED BY <1>5, <1>6

LEMMA KmsgProcessesStep ==
    ASSUME TypeOK, KmsgProcesses
    PROVE  /\ up /\ up' /\ Where("kmsg") = "process" /\ pc["kmsg"] = "process"
           /\ Moved("kmsg", IF source \in Polled THEN "idle" ELSE "check")
           /\ items' \in Findings /\ dirty' = TRUE
           /\ items'.count = IF source \notin Polled THEN items.count + 1
                             ELSE IF items.count = 0 THEN 1 ELSE items.count
           /\ items'.rank = IF items.rank = 0 THEN 1 ELSE items.rank
           /\ items'.gaps = items.gaps
           /\ pc'["kmsg"] # "write"
           /\ items.count = 0 => pc'["kmsg"] = "flush"
           /\ UNCHANGED <<source, errors, session, stored, saved, up, got, snap, lock,
                          pos, pending, logged, history, left>>
  <1>1. "kmsg" \in Threads /\ {"process", "idle", "check"} \subseteq Resting
    BY DEF Threads, Resting, Points
  <1>2. up /\ pc["kmsg"] = "process" /\ Where("kmsg") = "process"
    BY <1>1, AtIsWhere DEF KmsgProcesses
  <1> DEFINE n == IF source \in Polled THEN 0 ELSE 1
             w == IF source \in Polled THEN "idle" ELSE "check"
  <1>3. AddFinding("kmsg", 1, n, w)
    BY DEF KmsgProcesses
  <1>4. n \in Nat /\ w \in Resting /\ w # "write" /\ (source \in Polled => n = 0) /\ (source \notin Polled => n = 1)
    BY <1>1
  <1>5. /\ items' \in Findings /\ dirty' = TRUE
        /\ items'.count = IF items.count = 0 /\ n = 0 THEN 1 ELSE items.count + n
        /\ items'.rank = IF 1 > items.rank THEN 1 ELSE items.rank
        /\ items'.gaps = items.gaps
        /\ Moved("kmsg", w)
        /\ pc'["kmsg"] \in {"flush", w}
        /\ items.count = 0 => pc'["kmsg"] = "flush"
    <2> DEFINE k == 1
    <2>1. k \in 1..2 /\ k = 1
      OBVIOUS
    <2>2. AddFinding("kmsg", k, n, w)
      BY <1>3
    <2> HIDE DEF n, w, k
    <2>3. /\ items' \in Findings /\ dirty' = TRUE
          /\ items'.count = IF items.count = 0 /\ n = 0 THEN 1 ELSE items.count + n
          /\ items'.rank = IF k > items.rank THEN k ELSE items.rank
          /\ items'.gaps = items.gaps
          /\ Moved("kmsg", w)
          /\ pc'["kmsg"] \in {"flush", w}
          /\ items.count = 0 \/ k = 2 => pc'["kmsg"] = "flush"
      BY <1>1, <1>4, <2>1, <2>2, AddFindingAdds
    <2> QED BY <2>1, <2>3
  <1>6. items.count \in Nat /\ items.rank \in 0..2
    BY DEF TypeOK, Findings
  <1>7. /\ items'.count = IF source \notin Polled THEN items.count + 1
                          ELSE IF items.count = 0 THEN 1 ELSE items.count
        /\ items'.rank = IF items.rank = 0 THEN 1 ELSE items.rank
        /\ pc'["kmsg"] # "write"
    <2> HIDE DEF n, w
    <2> QED BY <1>4, <1>5, <1>6
  <1>8. up' /\ UNCHANGED <<source, errors, session, stored, saved, up, got, snap, lock,
                     pos, pending, logged, history, left>>
    BY <1>2 DEF KmsgProcesses, kernel
  <1> QED BY <1>2, <1>5, <1>7, <1>8

LEMMA KmsgLogsStep ==
    ASSUME TypeOK, KmsgLogs
    PROVE  /\ Goes("kmsg", "idle", "acknowledge")
           /\ logged' = logged \cup pending /\ pending' = {}
           /\ UNCHANGED <<source, errors, session, stored, items, saved, dirty, up, got, snap, lock,
                          pos, history, left>>
  <1>1. "kmsg" \in Threads /\ {"idle", "acknowledge"} \subseteq Resting
    BY DEF Threads, Resting, Points
  <1> QED BY <1>1, GoesOn DEF KmsgLogs

LEMMA KmsgAcknowledgesStep ==
    ASSUME TypeOK, Bounded, KmsgAcknowledges
    PROVE  /\ Goes("kmsg", "acknowledge", "idle")
           /\ session' \in Cursors /\ session'.seq = got["kmsg"] /\ session'.cursor = session.cursor
           /\ UNCHANGED <<source, errors, stored, items, saved, dirty, up, got, snap, lock,
                          pos, pending, logged, history, left>>
  <1>1. "kmsg" \in Threads /\ {"idle", "acknowledge"} \subseteq Resting
    BY DEF Threads, Resting, Points
  <1>2. got["kmsg"] \in Nat /\ session \in Cursors /\ session' = [session EXCEPT !.seq = got["kmsg"]]
    BY <1>1 DEF TypeOK, Bounded, KmsgAcknowledges
  <1>3. session' \in Cursors /\ session'.seq = got["kmsg"] /\ session'.cursor = session.cursor
    BY <1>2 DEF Cursors
  <1>4. Goes("kmsg", "acknowledge", "idle")
    BY <1>1, GoesOn DEF KmsgAcknowledges
  <1> QED BY <1>3, <1>4 DEF KmsgAcknowledges, kernel

LEMMA MainStep ==
    ASSUME TypeOK, NEW a \in Resting, NEW b \in Resting, Main(a, b)
    PROVE  /\ Goes("main", a, b)
           /\ UNCHANGED <<source, errors, session, stored, items, saved, dirty, up, got, snap, lock,
                          pos, pending, logged, history, left>>
  <1>1. "main" \in Threads
    BY DEF Threads
  <1> QED BY <1>1, GoesOn DEF Main, kernel

LEMMA ThreadEndsStep ==
    ASSUME TypeOK, NEW t \in {"monitor", "kmsg"}, ThreadEnds(t)
    PROVE  /\ Goes(t, "idle", "ended")
           /\ \/ t = "kmsg" /\ logged' = logged \cup pending /\ pending' = {}
              \/ t = "monitor" /\ UNCHANGED <<logged, pending>>
           /\ UNCHANGED <<source, errors, session, stored, items, saved, dirty, up, got, snap, lock,
                          pos, history, left>>
  <1>1. t \in Threads /\ {"idle", "ended"} \subseteq Resting
    BY DEF Threads, Resting, Points
  <1> QED BY <1>1, GoesOn DEF ThreadEnds

LEMMA SaveStep ==
    ASSUME Save
    PROVE  /\ up /\ stored' = session
           /\ UNCHANGED <<source, errors, session, items, saved, dirty, up, pc, then, got, snap,
                          lock, pos, pending, logged, history, left>>
  BY DEF Save, threads, kernel

\* Thread t writes what is in memory now.
Snaps(t) ==
    /\ up /\ up' /\ dirty' = FALSE /\ pc'[t] = "write"
    /\ snap' \in [Threads -> Findings] /\ snap'[t] = items
    /\ \A u \in Threads \ {t} : snap'[u] = snap[u]
    /\ UNCHANGED <<source, errors, session, stored, items, saved, up, got, lock,
                   pos, pending, logged, left>>

LEMMA HeartbeatFlushStep ==
    ASSUME TypeOK, Placed, HeartbeatFlush
    PROVE  /\ dirty /\ pc["main"] # "done" /\ pc["heartbeat"] = "idle"
           /\ Moved("heartbeat", Where("heartbeat"))
           /\ Snaps("heartbeat") /\ history' = history
  <1>1. "heartbeat" \in Threads /\ {"idle", "write"} \subseteq Points
    BY DEF Threads, Points
  <1>2. pc["heartbeat"] = "idle" /\ Where("heartbeat") = "idle" /\ then["heartbeat"] \in Points
    BY <1>1 DEF HeartbeatFlush, At, Where, TypeOK
  <1>3. snap' \in [Threads -> Findings] /\ snap'["heartbeat"] = items
        /\ \A u \in Threads \ {"heartbeat"} : snap'[u] = snap[u]
    BY <1>1 DEF HeartbeatFlush, TypeOK
  <1>4. /\ pc' \in [Threads -> Points] /\ then' = then /\ pc'["heartbeat"] = "write"
        /\ \A u \in Threads \ {"heartbeat"} : pc'[u] = pc[u]
    BY <1>1 DEF HeartbeatFlush, TypeOK, Goto
  <1>5. Moved("heartbeat", then["heartbeat"])
    BY <1>1, <1>4 DEF Moved, Where, TypeOK
  <1>6. then["heartbeat"] = "idle"
    BY DEF Placed, Spots
  <1> QED BY <1>2, <1>3, <1>4, <1>5, <1>6 DEF HeartbeatFlush, Snaps, kernel, At

LEMMA LastFlushStep ==
    ASSUME TypeOK, LastFlush
    PROVE  /\ pc["main"] = "join" /\ Where("main") = "join"
           /\ Moved("main", "done")
           /\ Snaps("main")
           /\ history' = [history EXCEPT !.quiet = /\ pc["monitor"] = "ended" /\ pc["kmsg"] = "ended"
                                                 /\ pc["heartbeat"] = "idle"]
  <1>1. "main" \in Threads /\ {"write", "done"} \subseteq Points /\ "join" \in Resting
    BY DEF Threads, Points, Resting
  <1>2. up /\ pc["main"] = "join" /\ Where("main") = "join"
    BY <1>1, AtIsWhere DEF LastFlush
  <1>3. snap' \in [Threads -> Findings] /\ snap'["main"] = items
        /\ \A u \in Threads \ {"main"} : snap'[u] = snap[u]
    BY <1>1 DEF LastFlush, TypeOK
  <1>4. /\ pc' \in [Threads -> Points] /\ pc'["main"] = "write"
        /\ then' \in [Threads -> Points] /\ then'["main"] = "done"
        /\ \A u \in Threads \ {"main"} : pc'[u] = pc[u] /\ then'[u] = then[u]
    BY <1>1 DEF LastFlush, TypeOK, Goto
  <1>5. Moved("main", "done")
    BY <1>1, <1>4 DEF Moved, Where
  <1> QED BY <1>2, <1>3, <1>4, <1>5 DEF LastFlush, Snaps, kernel

LEMMA SnapshotStep ==
    ASSUME TypeOK, Placed, NEW t \in Threads, Snapshot(t)
    PROVE  /\ up /\ pc[t] = "flush" /\ Where(t) = then[t] /\ Moved(t, Where(t))
           /\ \/ dirty /\ Snaps(t) /\ then'[t] = then[t]
              \/ /\ ~dirty /\ pc'[t] = then[t] /\ then'[t] = "idle" /\ then[t] \in Resting
                 /\ UNCHANGED <<source, errors, session, stored, items, saved, dirty, snap, up, got,
                                lock, pos, pending, logged, left>>
           /\ history' = history
  <1>1. up /\ pc[t] = "flush" /\ Where(t) = then[t] /\ then[t] \in Resting
    BY FlushingGoesOn DEF Snapshot, At
  <1>2. CASE dirty
    <2>1. snap' \in [Threads -> Findings] /\ snap'[t] = items
          /\ \A u \in Threads \ {t} : snap'[u] = snap[u]
      BY <1>2 DEF Snapshot, TypeOK
    <2>2. /\ pc' \in [Threads -> Points] /\ pc'[t] = "write" /\ then' = then
          /\ \A u \in Threads \ {t} : pc'[u] = pc[u]
      BY <1>2 DEF Snapshot, TypeOK, Goto, Points
    <2>3. Moved(t, then[t])
      BY <2>2 DEF Moved, Where, TypeOK
    <2> QED BY <1>1, <1>2, <2>1, <2>2, <2>3 DEF Snapshot, Snaps, kernel
  <1>3. CASE ~dirty
    <2>1. FlushEnds(t) /\ UNCHANGED <<snap, dirty>>
      BY <1>3 DEF Snapshot
    <2>2. Moved(t, Where(t)) /\ pc'[t] = then[t] /\ then'[t] = "idle"
      BY <1>1, <2>1, FlushEndsMoves
    <2> QED BY <1>1, <1>3, <2>1, <2>2 DEF Snapshot, kernel
  <1> QED BY <1>2, <1>3

LEMMA NewerIsTyped ==
    ASSUME NEW f \in Findings, NEW g \in Findings
    PROVE  Newer(f, g) \in Findings
  BY DEF Newer, Findings

LEMMA WriteStep ==
    ASSUME TypeOK, Placed, NEW t \in Threads, Write(t)
    PROVE  /\ up /\ up' /\ pc[t] = "write" /\ Where(t) = then[t] /\ Moved(t, Where(t))
           /\ pc'[t] = then[t] /\ then'[t] = "idle" /\ then[t] \in Resting
           /\ saved' \in Findings
           /\ saved'.count = IF saved.count > snap[t].count THEN saved.count ELSE snap[t].count
           /\ saved'.rank = IF saved.rank > snap[t].rank THEN saved.rank ELSE snap[t].rank
           /\ saved'.gaps = saved.gaps \cup snap[t].gaps
           /\ snap' \in [Threads -> Findings] /\ snap'[t] = None
           /\ \A u \in Threads \ {t} : snap'[u] = snap[u]
           /\ UNCHANGED <<source, errors, session, stored, items, dirty, got, lock,
                          pos, pending, logged, history, left>>
  <1>1. up /\ pc[t] = "write" /\ Where(t) = then[t] /\ then[t] \in Resting
    BY FlushingGoesOn DEF Write, At
  <1>2. None \in Findings
    BY DEF None, Findings
  <1>3. snap' \in [Threads -> Findings] /\ snap'[t] = None
        /\ \A u \in Threads \ {t} : snap'[u] = snap[u]
    BY <1>2 DEF Write, TypeOK
  <1>4. Moved(t, Where(t)) /\ pc'[t] = then[t] /\ then'[t] = "idle"
    BY <1>1, FlushEndsMoves DEF Write
  <1>5. saved' = Newer(saved, snap[t]) /\ snap[t] \in Findings /\ saved \in Findings
    BY DEF Write, TypeOK
  <1>6. saved' \in Findings
    BY <1>5, NewerIsTyped
  <1>7. /\ saved'.count = IF saved.count > snap[t].count THEN saved.count ELSE snap[t].count
        /\ saved'.rank = IF saved.rank > snap[t].rank THEN saved.rank ELSE snap[t].rank
        /\ saved'.gaps = saved.gaps \cup snap[t].gaps
    BY <1>5 DEF Newer
  <1> QED BY <1>1, <1>3, <1>4, <1>6, <1>7 DEF Write, kernel

-----------------------------------------------------------------------------
(* The machine *)

LEMMA HardwareErrorStep ==
    ASSUME TypeOK, Bounded, HardwareError
    PROVE  /\ errors' = errors + 1 /\ left.errors > 0
           /\ left' = [left EXCEPT !.errors = @ - 1]
           /\ history' = [history EXCEPT !.total = @ + 1]
           /\ pc["main"] # "done"
           /\ UNCHANGED <<source, session, stored, items, saved, dirty, up, pc, then, got, snap, lock,
                          pos, pending, logged>>
  BY DEF HardwareError, threads, kernel

\* Everything in memory is lost.
Stops ==
    /\ up /\ up' = FALSE /\ pc["main"] # "done" /\ Idle'
    /\ \A t \in Threads : /\ pc'[t] = "idle" /\ then'[t] = "idle" /\ Where(t)' = "idle"
                          /\ got'[t] = 0 /\ snap'[t] = None
    /\ pc' \in [Threads -> Points] /\ then' \in [Threads -> Points]
    /\ got' \in [Threads -> Nat] /\ snap' \in [Threads -> Findings]
    /\ lock' = "free" /\ pos' = 0 /\ pending' = {}
    /\ items' = saved /\ dirty' = FALSE
    /\ UNCHANGED <<source, saved>>

LEMMA DownStops ==
    ASSUME TypeOK, NEW why, Down(why), up, pc["main"] # "done"
    PROVE  Stops /\ left' = [left EXCEPT ![why] = @ - 1]
  <1>1. None \in Findings /\ "idle" \in Points
    BY DEF None, Findings, Points
  <1>2. /\ pc' = [t \in Threads |-> "idle"] /\ then' = [t \in Threads |-> "idle"]
        /\ got' = [t \in Threads |-> 0] /\ snap' = [t \in Threads |-> None]
        /\ lock' = "free" /\ pos' = 0 /\ pending' = {}
    BY DEF Down
  <1>3. Idle'
    BY <1>2 DEF Idle
  <1>4. \A t \in Threads : /\ pc'[t] = "idle" /\ then'[t] = "idle" /\ Where(t)' = "idle"
                          /\ got'[t] = 0 /\ snap'[t] = None
    BY <1>2 DEF Where
  <1>5. /\ pc' \in [Threads -> Points] /\ then' \in [Threads -> Points]
        /\ got' \in [Threads -> Nat] /\ snap' \in [Threads -> Findings]
    BY <1>1, <1>2
  <1> QED BY <1>2, <1>3, <1>4, <1>5 DEF Stops, Down

LEMMA DieStep ==
    ASSUME TypeOK, Die
    PROVE  /\ Stops /\ session' = stored
           /\ history' = [history EXCEPT !.died = TRUE, !.torn = @ \/ Flushing]
           /\ left.dies > 0 /\ left' = [left EXCEPT !.dies = @ - 1]
           /\ UNCHANGED <<errors, stored, logged>>
  BY DownStops DEF Die

LEMMA ResetStep ==
    ASSUME TypeOK, Reset
    PROVE  /\ Stops /\ session' = stored'
           /\ \/ source = "sel" /\ errors' = errors /\ stored' = stored
              \/ source # "sel" /\ errors' = 0 /\ stored' = NoCursors
           /\ logged' = {}
           /\ history' = [history EXCEPT
                 !.reset = TRUE, !.torn = @ \/ Flushing, !.unseen = {},
                 !.earlier = IF source = "sel" THEN @
                             ELSE @ + (IF stored.cursor = Absent THEN 0 ELSE stored.cursor)
                                    + stored.seq]
           /\ left.resets > 0 /\ left' = [left EXCEPT !.resets = @ - 1]
  BY DownStops DEF Reset

LEMMA StartStep ==
    ASSUME TypeOK, Placed, Start
    PROVE  /\ ~up /\ up' /\ Idle
           /\ pc' \in [Threads -> Points] /\ then' = then
           /\ \A t \in Threads : Where(t) = "idle" /\ pc[t] = "idle" /\ Where(t)' = pc'[t] /\ then'[t] = "idle"
           /\ pc'["kmsg"] = IF source \in KernelTold THEN "open" ELSE "ended"
           /\ pc'["monitor"] = IF source \in Polled THEN "idle" ELSE "ended"
           /\ pc'["main"] = "idle" /\ pc'["heartbeat"] = "idle"
           /\ got' \in [Threads -> Int] /\ got'["kmsg"] = session.seq
           /\ \A t \in Threads \ {"kmsg"} : got'[t] = 0
           /\ UNCHANGED <<source, errors, session, stored, items, saved, dirty, then, snap, lock,
                          pos, pending, logged, history, left>>
  <1>1. ~up /\ up' /\ Idle
    BY DEF Start, Placed, Bystanders
  <1>2. pc = [t \in Threads |-> "idle"] /\ then = [t \in Threads |-> "idle"] /\ got = [t \in Threads |-> 0]
    BY <1>1 DEF Idle
  <1>3. Threads = {"monitor", "main", "kmsg", "heartbeat"} /\ {"open", "ended", "idle"} \subseteq Points
    BY DEF Threads, Points
  <1>4. /\ pc' \in [Threads -> Points]
        /\ pc'["kmsg"] = IF source \in KernelTold THEN "open" ELSE "ended"
        /\ pc'["monitor"] = IF source \in Polled THEN "idle" ELSE "ended"
        /\ pc'["main"] = "idle" /\ pc'["heartbeat"] = "idle"
    BY <1>2, <1>3 DEF Start
  <1>5. \A t \in Threads : pc'[t] \notin {"flush", "write"}
    BY <1>3, <1>4
  <1>6. \A t \in Threads : Where(t) = "idle" /\ pc[t] = "idle" /\ Where(t)' = pc'[t] /\ then'[t] = "idle"
    BY <1>2, <1>5 DEF Where, Start
  <1>7. session.seq \in Int
    BY DEF TypeOK
  <1>8. got' \in [Threads -> Int] /\ got'["kmsg"] = session.seq
        /\ \A t \in Threads \ {"kmsg"} : got'[t] = 0
    BY <1>2, <1>3, <1>7 DEF Start
  <1> QED BY <1>1, <1>4, <1>6, <1>8 DEF Start, kernel

LEMMA FinalSamplesStep ==
    ASSUME TypeOK, FinalSamples
    PROVE  /\ Goes("main", "idle", IF source \in Polled THEN "sample" ELSE "stop")
           /\ UNCHANGED <<source, errors, session, stored, items, saved, dirty, up, got, snap, lock,
                          pos, pending, logged, history, left>>
  <1>1. {"idle", "sample", "stop"} \subseteq Resting
    BY DEF Resting, Points
  <1> QED BY <1>1, MainStep DEF FinalSamples

LEMMA StopMonitorsStep ==
    ASSUME TypeOK, StopMonitors
    PROVE  /\ Goes("main", "stop", "join")
           /\ UNCHANGED <<source, errors, session, stored, items, saved, dirty, up, got, snap, lock,
                          pos, pending, logged, history, left>>
  <1>1. {"stop", "join"} \subseteq Resting
    BY DEF Resting, Points
  <1> QED BY <1>1, MainStep DEF StopMonitors

-----------------------------------------------------------------------------
(* Types *)

LEMMA PollersAreThreads == Pollers \subseteq Threads
  BY DEF Pollers, Threads

LEMMA LimitIsNat ==
    ASSUME TypeOK
    PROVE  Bounds[source].errors \in Nat
  <1>1. source \in Sources
    BY DEF TypeOK
  <1> QED BY <1>1, CountersAssumption

\* What a stop leaves, as far as types go.
LEMMA StopsTyped ==
    ASSUME TypeOK, Stops
    PROVE  /\ source' = source /\ items' = saved /\ saved' = saved /\ saved \in Findings
           /\ dirty' \in BOOLEAN /\ up' \in BOOLEAN
           /\ pc' \in [Threads -> Points] /\ then' \in [Threads -> Points]
           /\ got' \in [Threads -> Nat] /\ snap' \in [Threads -> Findings]
           /\ lock' = "free" /\ pos' = 0 /\ pending' = {}
  BY DEF TypeOK, Stops

LEMMA OldestIsNext ==
    ASSUME TypeOK
    PROVE  Oldest \in 1..(errors + 1)
  BY CountersAssumption DEF TypeOK, Oldest

LEMMA TypesKept ==
    ASSUME TypeOK, Placed, Bounded, [Next]_vars
    PROVE  TypeOK'
  <1>1. CASE HardwareError
    <2>1. /\ errors' = errors + 1 /\ errors \in Nat
          /\ UNCHANGED <<source, session, stored, items, saved, dirty, up, pc, then, got, snap, lock,
                         pos, pending, logged>>
      BY <1>1, HardwareErrorStep DEF TypeOK
    <2>2. errors' \in 0..Bounds[source]'.errors
      BY <1>1, <2>1, HardwareErrorStep, LimitIsNat DEF TypeOK, Bounded, Left
    <2>3. \A c \in {session', stored'} : c.cursor \in Absent..errors' /\ c.seq \in 0..errors'
      BY <2>1 DEF TypeOK, Absent
    <2>4. /\ pos' \in 0..(errors' + 1)
          /\ pending' \in SUBSET (1..errors') /\ logged' \in SUBSET (1..errors')
      BY <2>1 DEF TypeOK
    <2> QED BY <2>1, <2>2, <2>3, <2>4 DEF TypeOK
  <1>2. CASE Die
    <2>1. Stops /\ session' = stored /\ UNCHANGED <<errors, stored, logged>>
      BY <1>2, DieStep
    <2>2. up' \in BOOLEAN /\ pos' = 0
      BY <2>1 DEF Stops
    <2> QED BY <2>1, <2>2, StopsTyped DEF TypeOK
  <1>3. CASE Reset
    <2>1. Stops /\ session' = stored' /\ logged' = {}
      BY <1>3, ResetStep
    <2>2. errors' \in 0..Bounds[source]'.errors
      <3>1. errors' = errors \/ errors' = 0
        BY <1>3, ResetStep
      <3>3. errors \in 0..Bounds[source].errors /\ Bounds[source].errors \in Nat
        BY LimitIsNat DEF TypeOK
      <3>2. source' = source
        BY <2>1, StopsTyped
      <3> QED BY <3>1, <3>2, <3>3
    <2>3. stored'.cursor \in Absent..errors' /\ stored'.seq \in 0..errors'
      BY <1>3, ResetStep DEF TypeOK, NoCursors, Absent
    <2>4. pos' \in 0..(errors' + 1)
      <3>1. errors' \in Nat
        BY <1>3, ResetStep DEF TypeOK
      <3>2. pos' = 0
        BY <2>1 DEF Stops
      <3>3. \A n \in Nat : 0 \in 0..(n + 1)
        OBVIOUS
      <3> QED BY <3>1, <3>2, <3>3
    <2> QED BY <2>1, <2>2, <2>3, <2>4, StopsTyped DEF TypeOK
  <1>4. CASE Start
    <2>1. got' \in [Threads -> Nat]
      <3>1. session.seq \in Nat
        BY DEF TypeOK
      <3>2. \A t \in Threads : got'[t] \in Nat
        BY <1>4, <3>1, StartStep
      <3> QED BY <1>4, <3>2, StartStep
    <2> QED BY <1>4, <2>1, StartStep DEF TypeOK
  <1>5. ASSUME NEW t \in Pollers, BeginPoll(t) PROVE TypeOK'
    BY <1>5, BeginPollStep DEF TypeOK, Goes, Moved
  <1>6. ASSUME NEW t \in Pollers, Raise(t) PROVE TypeOK'
    BY <1>6, RaiseStep DEF TypeOK, Goes, Moved
  <1>7. ASSUME NEW t \in Pollers, Read(t) PROVE TypeOK'
    BY <1>7, ReadStep DEF TypeOK, Baselines, Compares, Goes, Moved, Cursors
  <1>8. ASSUME NEW t \in Pollers, Add(t) PROVE TypeOK'
    BY <1>8, AddStep DEF TypeOK, Goes, Moved
  <1>9. ASSUME NEW t \in Pollers, Check(t) PROVE TypeOK'
    BY <1>9, CheckChecks, PollersAreThreads DEF TypeOK, Check, Moved, kernel
  <1>10. ASSUME NEW t \in Pollers, Advance(t) PROVE TypeOK'
    <2>1. session'.cursor \in Absent..errors /\ session'.seq \in 0..errors
      BY <1>10, AdvanceStep, PollersAreThreads DEF TypeOK, Absent, Bounded
    <2> QED BY <1>10, <2>1, AdvanceStep DEF TypeOK, Goes, Moved
  <1>11. ASSUME NEW t \in Pollers, SaveCursor(t) PROVE TypeOK'
    BY <1>11, SaveCursorStep DEF TypeOK, Goes, Moved
  <1>12. ASSUME NEW t \in Pollers, Leave(t) PROVE TypeOK'
    BY <1>12, LeaveStep DEF TypeOK, Goes, Moved
  <1>13. CASE KmsgOpens
    BY <1>13, KmsgOpensStep, OldestIsNext DEF TypeOK, Goes, Moved
  <1>14. CASE KmsgUnavailable
    BY <1>14, KmsgUnavailableStep DEF TypeOK, Goes, Moved
  <1>15. CASE KmsgReads
    <2>1. /\ pos' \in 0..(errors + 1)
          /\ UNCHANGED <<source, errors, session, stored, items, saved, dirty, up, snap, lock, logged>>
      BY <1>15, KmsgReadsStep DEF TypeOK
    <2>2. CASE Skips
      BY <2>1, <2>2 DEF TypeOK, Skips
    <2>3. CASE Takes
      <3>1. pos \in 1..errors
        BY <1>15, <2>3, KmsgReadsStep DEF TypeOK, Takes, Threads
      <3>2. pending' \in SUBSET (1..errors)
        BY <2>3, <3>1 DEF TypeOK, Takes
      <3> QED BY <2>1, <2>3, <3>2 DEF TypeOK, Takes, Goes, Moved
    <2> QED BY <1>15, <2>2, <2>3, KmsgReadsStep
  <1>16. CASE KmsgOverrun
    <2>1. pos' \in 0..(errors' + 1)
      <3>1. pos' = Oldest /\ errors' = errors
        BY <1>16, KmsgOverrunStep
      <3> QED BY <3>1, OldestIsNext DEF TypeOK
    <2> QED BY <1>16, <2>1, KmsgOverrunStep DEF TypeOK, Moved
  <1>17. CASE KmsgProcesses
    BY <1>17, KmsgProcessesStep DEF TypeOK, Goes, Moved
  <1>18. CASE Check("kmsg")
    BY <1>18, CheckChecks DEF TypeOK, Check, Moved, kernel, Threads
  <1>19. CASE KmsgLogs
    BY <1>19, KmsgLogsStep DEF TypeOK, Goes, Moved
  <1>20. CASE KmsgAcknowledges
    <2>1. session'.cursor \in Absent..errors /\ session'.seq \in 0..errors
      BY <1>20, KmsgAcknowledgesStep DEF TypeOK, Bounded, Threads
    <2> QED BY <1>20, <2>1, KmsgAcknowledgesStep DEF TypeOK, Goes, Moved
  <1>21. ASSUME NEW t \in Threads, Snapshot(t) PROVE TypeOK'
    BY <1>21, SnapshotStep DEF TypeOK, Moved, Snaps
  <1>22. ASSUME NEW t \in Threads, Write(t) PROVE TypeOK'
    BY <1>22, WriteStep DEF TypeOK, Moved
  <1>23. ASSUME NEW t \in {"monitor", "kmsg"}, ThreadEnds(t) PROVE TypeOK'
    BY <1>23, ThreadEndsStep DEF TypeOK, Goes, Moved
  <1>24. CASE Save
    BY <1>24, SaveStep DEF TypeOK
  <1>25. CASE HeartbeatFlush
    BY <1>25, HeartbeatFlushStep DEF TypeOK, Moved, Snaps
  <1>26. CASE FinalSamples
    BY <1>26, FinalSamplesStep DEF TypeOK, Goes, Moved
  <1>27. CASE StopMonitors
    BY <1>27, StopMonitorsStep DEF TypeOK, Goes, Moved
  <1>28. CASE LastFlush
    BY <1>28, LastFlushStep DEF TypeOK, Moved, Snaps
  <1>29. CASE UNCHANGED vars
    BY <1>29 DEF TypeOK, vars
  <1> QED BY <1>1, <1>2, <1>3, <1>4, <1>5, <1>6, <1>7, <1>8, <1>9, <1>10, <1>11, <1>12, <1>13,
             <1>14, <1>15, <1>16, <1>17, <1>18, <1>19, <1>20, <1>21, <1>22, <1>23, <1>24, <1>25,
             <1>26, <1>27, <1>28, <1>29
         DEF Next, Environment, Poll, Kmsg, Finalize, Over

-----------------------------------------------------------------------------
(* Where the threads are *)

LEMMA SpotsMove ==
    ASSUME TypeOK, Spots, NEW t \in Threads, NEW b, Moved(t, b),
           t = "monitor" => b \in MonitorSpots,
           t = "main" => b \in MainSpots /\ (pc'["main"] = "flush" => b # "done"),
           t = "kmsg" => b \in KmsgSpots,
           t = "heartbeat" => b = "idle" /\ then'["heartbeat"] = "idle",
           t \in Pollers /\ b \in Polling => lock' = t,
           \A u \in Pollers \ {t} : Where(u) \in Polling => lock' = lock
    PROVE  Spots'
  <1>1. Threads = {"monitor", "main", "kmsg", "heartbeat"} /\ Pollers = {"monitor", "main"}
    BY DEF Threads, Pollers
  <1>2. \A u \in Threads \ {t} : pc'[u] = pc[u] /\ then'[u] = then[u] /\ Where(u)' = Where(u)
    BY DEF Moved
  <1>3. Where(t)' = b
    BY DEF Moved
  <1>4. /\ Where("monitor")' \in MonitorSpots
        /\ Where("main")' \in MainSpots
        /\ Where("kmsg")' \in KmsgSpots
        /\ Where("heartbeat")' = "idle" /\ then'["heartbeat"] = "idle"
    BY <1>1, <1>2, <1>3 DEF Spots
  <1>5. pc'["main"] = "flush" => then'["main"] # "done"
    <2>1. CASE t = "main"
      <3>1. pc'["main"] = "flush" => then'["main"] = Where("main")'
        BY DEF Where
      <3> QED BY <1>3, <2>1, <3>1
    <2>2. CASE t # "main"
      BY <1>1, <1>2, <2>2 DEF Spots
    <2> QED BY <2>1, <2>2
  <1>6. ASSUME NEW u \in Pollers, Where(u)' \in Polling PROVE lock' = u
    <2>1. CASE u = t
      BY <1>3, <1>6, <2>1
    <2>2. CASE u # t
      BY <1>1, <1>2, <1>6, <2>2 DEF Spots
    <2> QED BY <2>1, <2>2
  <1> QED BY <1>4, <1>5, <1>6 DEF Spots, MonitorSpots, MainSpots, KmsgSpots, Polling

LEMMA BystandersMove ==
    ASSUME TypeOK, Bystanders, NEW t \in Threads, NEW b, Moved(t, b), up, up',
           source' = source, session'.seq = session.seq \/ source \in KernelTold,
           session'.cursor = session.cursor \/ source \in Polled,
           history'.sampled = history.sampled \/ source \in Polled,
           t = "kmsg" => (source \in KernelTold \/ b = "ended") /\ (source \in Polled => b # "check"),
           t = "monitor" => source \in Polled \/ b = "ended",
           t = "main" => source \in Polled \/ b \notin {"sample"} \cup Polling
    PROVE  Bystanders'
  <1>1. Threads = {"monitor", "main", "kmsg", "heartbeat"}
    BY DEF Threads
  <1>2. Where(t)' = b /\ \A u \in Threads \ {t} : Where(u)' = Where(u)
    BY DEF Moved
  <1>3. ~up' => Idle'
    OBVIOUS
  <1>4. source' \notin KernelTold => session'.seq = 0 /\ (up' => Where("kmsg")' = "ended")
    BY <1>1, <1>2 DEF Bystanders
  <1>5. source' \in Polled => Where("kmsg")' # "check"
    BY <1>1, <1>2 DEF Bystanders
  <1>6. source' \notin Polled =>
          /\ session'.cursor = Absent /\ history'.sampled = 0
          /\ up' => Where("monitor")' = "ended"
          /\ Where("main")' \notin {"sample"} \cup Polling
    BY <1>1, <1>2 DEF Bystanders
  <1> QED BY <1>3, <1>4, <1>5, <1>6 DEF Bystanders, Polled, KernelTold, Polling, Absent

\* A thread that begins or ends to write stays where it is.
LEMMA StaysPlaced ==
    ASSUME TypeOK, Placed, NEW t \in Threads, Moved(t, Where(t)), up, up',
           pc'[t] # "flush", then'[t] \in {"idle", then[t]},
           lock' = lock, source' = source, session' = session, history'.sampled = history.sampled
    PROVE  Placed'
  <1>1. Spots'
    <2>1. \A u \in Pollers \ {t} : Where(u) \in Polling => lock' = lock
      OBVIOUS
    <2>2. t \in Pollers /\ Where(t) \in Polling => lock' = t
      BY DEF Placed, Spots
    <2>3. t = "main" => pc'["main"] # "flush"
      OBVIOUS
    <2>4. /\ t = "monitor" => Where(t) \in MonitorSpots
          /\ t = "main" => Where(t) \in MainSpots
          /\ t = "kmsg" => Where(t) \in KmsgSpots
          /\ t = "heartbeat" => Where(t) = "idle" /\ then'["heartbeat"] = "idle"
      BY DEF Placed, Spots
    <2> DEFINE b == Where(t)
    <2>5. Moved(t, b)
      OBVIOUS
    <2> QED BY <2>1, <2>2, <2>3, <2>4, <2>5, SpotsMove DEF Placed
  <1>2. Bystanders'
    <2> DEFINE b == Where(t)
    <2>1. /\ t = "kmsg" => (source \in KernelTold \/ b = "ended") /\ (source \in Polled => b # "check")
          /\ t = "monitor" => source \in Polled \/ b = "ended"
          /\ t = "main" => source \in Polled \/ b \notin {"sample"} \cup Polling
      BY DEF Placed, Bystanders
    <2>2. Moved(t, b) /\ Bystanders
      BY DEF Placed
    <2>3. session'.seq = session.seq /\ session'.cursor = session.cursor
      OBVIOUS
    <2> HIDE DEF b
    <2> QED BY <2>1, <2>2, <2>3, BystandersMove
  <1> QED BY <1>1, <1>2 DEF Placed

\* A thread that polls, or reads the kernel log, has a source for it.
LEMMA SourceOfThread ==
    ASSUME Bystanders, up
    PROVE  /\ \A t \in Pollers : Where(t) \in {"sample"} \cup Polling => source \in Polled
           /\ Where("monitor") # "ended" => source \in Polled
           /\ Where("kmsg") # "ended" => source \in KernelTold
  BY DEF Bystanders, Pollers, Polling

LEMMA PlacedKept ==
    ASSUME TypeOK, Placed, Bounded, [Next]_vars
    PROVE  Placed'
  <1>1. CASE HardwareError
    BY <1>1, HardwareErrorStep DEF Placed, Spots, Bystanders, Where, Idle, Bounded, History
  <1>2. CASE Die
    <2>1. Spots'
      BY <1>2, DieStep DEF Stops, Spots, Threads, Pollers, MonitorSpots, MainSpots, KmsgSpots, Polling
    <2>2. Bystanders'
      <3>1. history'.sampled = history.sampled /\ session' = stored /\ Stops
        BY <1>2, DieStep DEF Bounded, History
      <3>2. stored.seq <= session.seq /\ stored.cursor <= session.cursor
        BY DEF Bounded
      <3>3. stored.seq \in Nat /\ stored.cursor \in Int /\ stored.cursor >= Absent /\ session.seq \in Nat
        BY DEF TypeOK, Absent
      <3>4. session.seq = 0 => session'.seq = 0
        BY <3>1, <3>2, <3>3
      <3>5. session.cursor = Absent => session'.cursor = Absent
        BY <3>1, <3>2, <3>3 DEF Absent
      <3> QED BY <3>1, <3>4, <3>5 DEF Placed, Bystanders, Stops, Threads, Polling
    <2> QED BY <2>1, <2>2 DEF Placed
  <1>3. CASE Reset
    <2>1. Spots'
      BY <1>3, ResetStep DEF Stops, Spots, Threads, Pollers, MonitorSpots, MainSpots, KmsgSpots, Polling
    <2>2. Bystanders'
      <3>1. history'.sampled = history.sampled /\ session' = stored' /\ Stops
        BY <1>3, ResetStep DEF Bounded, History
      <3>2. stored.seq <= session.seq /\ stored.cursor <= session.cursor
        BY DEF Bounded
      <3>3. stored.seq \in Nat /\ stored.cursor \in Int /\ stored.cursor >= Absent /\ session.seq \in Nat
        BY DEF TypeOK, Absent
      <3>4. stored' = stored \/ (stored'.seq = 0 /\ stored'.cursor = Absent)
        BY <1>3, ResetStep DEF NoCursors
      <3>5. session.seq = 0 => session'.seq = 0
        BY <3>1, <3>2, <3>3, <3>4
      <3>6. session.cursor = Absent => session'.cursor = Absent
        BY <3>1, <3>2, <3>3, <3>4 DEF Absent
      <3> QED BY <3>1, <3>5, <3>6 DEF Placed, Bystanders, Stops, Threads, Polling
    <2> QED BY <2>1, <2>2 DEF Placed
  <1>4. CASE Start
    <2>1. Spots'
      BY <1>4, StartStep DEF Spots, Threads, Pollers, MonitorSpots, MainSpots, KmsgSpots, Polling
    <2>2. Bystanders'
      BY <1>4, StartStep DEF Placed, Bystanders, Threads, Polling
    <2> QED BY <2>1, <2>2 DEF Placed
  <1>5. ASSUME NEW t \in Pollers, BeginPoll(t) PROVE Placed'
    <2>1. Spots'
      BY <1>5, BeginPollStep, SpotsMove DEF Placed, Spots, Goes, Pollers, Threads, MonitorSpots, MainSpots, KmsgSpots, Polling
    <2>2. Bystanders'
      BY <1>5, BeginPollStep, BystandersMove, SourceOfThread DEF Placed, Goes, Pollers, Threads, Polling
    <2> QED BY <2>1, <2>2 DEF Placed
  <1>6. ASSUME NEW t \in Pollers, Raise(t) PROVE Placed'
    <2>1. Spots'
      BY <1>6, RaiseStep, SpotsMove DEF Placed, Spots, Goes, Pollers, Threads, MonitorSpots, MainSpots, KmsgSpots, Polling
    <2>2. Bystanders'
      BY <1>6, RaiseStep, BystandersMove, SourceOfThread DEF Placed, Goes, Pollers, Threads, Polling
    <2> QED BY <2>1, <2>2 DEF Placed
  <1>7. ASSUME NEW t \in Pollers, Read(t) PROVE Placed'
    <2>1. CASE Compares(t)
      <3>1. Spots'
        BY <1>7, <2>1, ReadStep, SpotsMove DEF Compares, Placed, Spots, Goes, Pollers, Threads, MonitorSpots, MainSpots, KmsgSpots, Polling
      <3>2. Bystanders'
        BY <1>7, <2>1, ReadStep, BystandersMove, SourceOfThread DEF Compares, Placed, Goes, Pollers, Threads, Polling
      <3> QED BY <3>1, <3>2 DEF Placed
    <2>2. CASE Baselines(t)
      <3>1. Spots'
        BY <1>7, <2>2, ReadStep, SpotsMove DEF Baselines, Placed, Spots, Goes, Pollers, Threads, MonitorSpots, MainSpots, KmsgSpots, Polling
      <3>2. history'.sampled = history.sampled
        BY <2>2 DEF Baselines, Bounded, History
      <3>3. Bystanders'
        BY <1>7, <2>2, <3>2, ReadStep, BystandersMove, SourceOfThread DEF Baselines, Placed, Goes, Pollers, Threads, Polling
      <3> QED BY <3>1, <3>3 DEF Placed
    <2> QED BY <1>7, <2>1, <2>2, ReadStep
  <1>8. ASSUME NEW t \in Pollers, Add(t) PROVE Placed'
    <2>1. Spots'
      BY <1>8, AddStep, SpotsMove DEF Placed, Spots, Goes, Pollers, Threads, MonitorSpots, MainSpots, KmsgSpots, Polling
    <2>2. Bystanders'
      BY <1>8, AddStep, BystandersMove, SourceOfThread DEF Placed, Goes, Pollers, Threads, Polling
    <2> QED BY <2>1, <2>2 DEF Placed
  <1>9. ASSUME NEW t \in Pollers, Check(t) PROVE Placed'
    <2>1. Spots'
      BY <1>9, CheckChecks, SpotsMove DEF Placed, Spots, Goes, Pollers, Threads, MonitorSpots, MainSpots, KmsgSpots, Polling, Check
    <2>2. Bystanders'
      BY <1>9, CheckChecks, BystandersMove, SourceOfThread DEF Placed, Goes, Pollers, Threads, Polling, Check
    <2> QED BY <2>1, <2>2 DEF Placed
  <1>10. ASSUME NEW t \in Pollers, Advance(t) PROVE Placed'
    <2>1. Spots'
      BY <1>10, AdvanceStep, SpotsMove DEF Placed, Spots, Goes, Pollers, Threads, MonitorSpots, MainSpots, KmsgSpots, Polling
    <2>2. Bystanders'
      BY <1>10, AdvanceStep, BystandersMove, SourceOfThread DEF Placed, Goes, Pollers, Threads, Polling
    <2> QED BY <2>1, <2>2 DEF Placed
  <1>11. ASSUME NEW t \in Pollers, SaveCursor(t) PROVE Placed'
    <2>1. Spots'
      BY <1>11, SaveCursorStep, SpotsMove DEF Placed, Spots, Goes, Pollers, Threads, MonitorSpots, MainSpots, KmsgSpots, Polling
    <2>2. Bystanders'
      BY <1>11, SaveCursorStep, BystandersMove, SourceOfThread DEF Placed, Goes, Pollers, Threads, Polling
    <2> QED BY <2>1, <2>2 DEF Placed
  <1>12. ASSUME NEW t \in Pollers, Leave(t) PROVE Placed'
    <2>1. Spots'
      BY <1>12, LeaveStep, SpotsMove DEF Placed, Spots, Goes, Pollers, Threads, MonitorSpots, MainSpots, KmsgSpots, Polling
    <2>2. Bystanders'
      BY <1>12, LeaveStep, BystandersMove, SourceOfThread DEF Placed, Goes, Pollers, Threads, Polling
    <2> QED BY <2>1, <2>2 DEF Placed
  <1>13. CASE KmsgOpens
    <2>1. Goes("kmsg", "open", "idle") /\ "kmsg" \in Threads
      BY <1>13, KmsgOpensStep DEF Threads
    <2>2. history'.sampled = history.sampled
      BY <1>13, KmsgOpensStep DEF Bounded, History
    <2>3. Spots'
      BY <1>13, <2>1, KmsgOpensStep, SpotsMove DEF Goes, Pollers, Placed, Spots, KmsgSpots
    <2>4. Bystanders'
      BY <1>13, <2>1, <2>2, KmsgOpensStep, BystandersMove, SourceOfThread DEF Goes, Placed
    <2> QED BY <2>3, <2>4 DEF Placed
  <1>14. CASE KmsgUnavailable
    <2>1. Spots'
      BY <1>14, KmsgUnavailableStep, SpotsMove DEF Placed, Spots, Goes, Pollers, Threads, MonitorSpots, MainSpots, KmsgSpots, Polling
    <2>2. Bystanders'
      BY <1>14, KmsgUnavailableStep, BystandersMove, SourceOfThread DEF Placed, Goes, Pollers, Threads, Polling
    <2> QED BY <2>1, <2>2 DEF Placed
  <1>15. CASE KmsgReads
    <2>1. CASE Skips
      BY <1>15, <2>1, KmsgReadsStep DEF Skips, Placed, Spots, Bystanders, Where
    <2>2. CASE Takes
      <3>1. Goes("kmsg", "idle", "process") /\ "kmsg" \in Threads
        BY <2>2 DEF Takes, Threads
      <3>2. Spots'
        BY <1>15, <3>1, KmsgReadsStep, SpotsMove DEF Goes, Pollers, Placed, Spots, KmsgSpots
      <3>3. Bystanders'
        BY <1>15, <3>1, KmsgReadsStep, BystandersMove, SourceOfThread DEF Goes, Placed
      <3> QED BY <3>2, <3>3 DEF Placed
    <2> QED BY <1>15, <2>1, <2>2, KmsgReadsStep
  <1>16. CASE KmsgOverrun
    <2>1. Spots'
      BY <1>16, KmsgOverrunStep, SpotsMove DEF Placed, Spots, Goes, Pollers, Threads, MonitorSpots, MainSpots, KmsgSpots, Polling
    <2>2. Bystanders'
      BY <1>16, KmsgOverrunStep, BystandersMove, SourceOfThread DEF Placed, Goes, Pollers, Threads, Polling
    <2> QED BY <2>1, <2>2 DEF Placed
  <1>17. CASE KmsgProcesses
    <2>1. Spots'
      BY <1>17, KmsgProcessesStep, SpotsMove DEF Placed, Spots, Goes, Pollers, Threads, MonitorSpots, MainSpots, KmsgSpots, Polling
    <2>2. Bystanders'
      BY <1>17, KmsgProcessesStep, BystandersMove, SourceOfThread DEF Placed, Goes, Pollers, Threads, Polling
    <2> QED BY <2>1, <2>2 DEF Placed
  <1>18. CASE Check("kmsg")
    <2>1. Spots'
      BY <1>18, CheckChecks, SpotsMove DEF Placed, Spots, Goes, Pollers, Threads, MonitorSpots, MainSpots, KmsgSpots, Polling, Check
    <2>2. Bystanders'
      BY <1>18, CheckChecks, BystandersMove, SourceOfThread DEF Placed, Goes, Pollers, Threads, Polling, Check
    <2> QED BY <2>1, <2>2 DEF Placed
  <1>19. CASE KmsgLogs
    <2>1. Spots'
      BY <1>19, KmsgLogsStep, SpotsMove DEF Placed, Spots, Goes, Pollers, Threads, MonitorSpots, MainSpots, KmsgSpots, Polling
    <2>2. Bystanders'
      BY <1>19, KmsgLogsStep, BystandersMove, SourceOfThread DEF Placed, Goes, Pollers, Threads, Polling
    <2> QED BY <2>1, <2>2 DEF Placed
  <1>20. CASE KmsgAcknowledges
    <2>1. Spots'
      BY <1>20, KmsgAcknowledgesStep, SpotsMove DEF Placed, Spots, Goes, Pollers, Threads, MonitorSpots, MainSpots, KmsgSpots, Polling
    <2>2. Bystanders'
      BY <1>20, KmsgAcknowledgesStep, BystandersMove, SourceOfThread DEF Placed, Goes, Pollers, Threads, Polling
    <2> QED BY <2>1, <2>2 DEF Placed
  <1>21. ASSUME NEW t \in Threads, Snapshot(t) PROVE Placed'
    <2>1. /\ Moved(t, Where(t)) /\ up /\ up' /\ pc'[t] # "flush" /\ then'[t] \in {"idle", then[t]}
          /\ UNCHANGED <<lock, source, session, history>>
      BY <1>21, SnapshotStep DEF Snaps, Resting
    <2> QED BY <2>1, StaysPlaced
  <1>22. ASSUME NEW t \in Threads, Write(t) PROVE Placed'
    <2>1. /\ Moved(t, Where(t)) /\ up /\ up' /\ pc'[t] # "flush" /\ then'[t] \in {"idle", then[t]}
          /\ UNCHANGED <<lock, source, session, history>>
      BY <1>22, WriteStep DEF Resting
    <2> QED BY <2>1, StaysPlaced
  <1>23. ASSUME NEW t \in {"monitor", "kmsg"}, ThreadEnds(t) PROVE Placed'
    <2>1. Spots'
      BY <1>23, ThreadEndsStep, SpotsMove DEF Placed, Spots, Goes, Pollers, Threads, MonitorSpots, MainSpots, KmsgSpots, Polling
    <2>2. Bystanders'
      BY <1>23, ThreadEndsStep, BystandersMove, SourceOfThread DEF Placed, Goes, Pollers, Threads, Polling
    <2> QED BY <2>1, <2>2 DEF Placed
  <1>24. CASE Save
    BY <1>24, SaveStep DEF Placed, Spots, Bystanders, Where, Idle
  <1>25. CASE HeartbeatFlush
    <2>1. "heartbeat" \in Threads /\ then["heartbeat"] = "idle"
      BY DEF Threads, Placed, Spots
    <2>2. Moved("heartbeat", Where("heartbeat")) /\ Snaps("heartbeat") /\ history' = history
      BY <1>25, HeartbeatFlushStep
    <2>3. then' = then
      BY <1>25 DEF HeartbeatFlush
    <2> QED BY <2>1, <2>2, <2>3, StaysPlaced DEF Snaps
  <1>26. CASE FinalSamples
    <2>1. Spots'
      BY <1>26, FinalSamplesStep, SpotsMove DEF Placed, Spots, Goes, Pollers, Threads, MonitorSpots, MainSpots, KmsgSpots, Polling
    <2>2. Bystanders'
      BY <1>26, FinalSamplesStep, BystandersMove, SourceOfThread DEF Placed, Goes, Pollers, Threads, Polling
    <2> QED BY <2>1, <2>2 DEF Placed
  <1>27. CASE StopMonitors
    <2>1. Spots'
      BY <1>27, StopMonitorsStep, SpotsMove DEF Placed, Spots, Goes, Pollers, Threads, MonitorSpots, MainSpots, KmsgSpots, Polling
    <2>2. Bystanders'
      BY <1>27, StopMonitorsStep, BystandersMove, SourceOfThread DEF Placed, Goes, Pollers, Threads, Polling
    <2> QED BY <2>1, <2>2 DEF Placed
  <1>28. CASE LastFlush
    <2>1. Moved("main", "done") /\ Snaps("main") /\ "main" \in Threads /\ Where("main") = "join"
      BY <1>28, LastFlushStep DEF Threads
    <2>2. history'.sampled = history.sampled
      BY <1>28, LastFlushStep DEF Bounded, History
    <2>3. Spots'
      BY <2>1, SpotsMove DEF Snaps, Placed, Spots, MainSpots, Polling
    <2>4. Bystanders'
      BY <2>1, <2>2, BystandersMove DEF Snaps, Placed, Polling
    <2> QED BY <2>3, <2>4 DEF Placed
  <1>29. CASE UNCHANGED vars
    BY <1>29 DEF Placed, Spots, Bystanders, Where, Idle, vars
  <1> QED BY <1>1, <1>2, <1>3, <1>4, <1>5, <1>6, <1>7, <1>8, <1>9, <1>10, <1>11, <1>12, <1>13,
             <1>14, <1>15, <1>16, <1>17, <1>18, <1>19, <1>20, <1>21, <1>22, <1>23, <1>24, <1>25,
             <1>26, <1>27, <1>28, <1>29
         DEF Next, Environment, Poll, Kmsg, Finalize, Over

-----------------------------------------------------------------------------
(* Bounds *)

LEMMA AdvancingMoves ==
    ASSUME Advancing, NEW t \in Threads, NEW b, Moved(t, b),
           t \in Pollers /\ b \in {"add", "check"} => got'[t] > Prev',
           t \in Pollers /\ b = "advance" => got'[t] >= Prev',
           \A u \in Pollers \ {t} : Where(u) \in Polling => got'[u] = got[u] /\ Prev' = Prev
    PROVE  Advancing'
  <1>1. Where(t)' = b /\ \A u \in Threads \ {t} : Where(u)' = Where(u)
    BY DEF Moved
  <1>2. ASSUME NEW u \in Pollers
        PROVE  /\ Where(u)' \in {"add", "check"} => got'[u] > Prev'
               /\ Where(u)' = "advance" => got'[u] >= Prev'
    <2>1. CASE u = t
      BY <1>1, <2>1
    <2>2. CASE u # t
      <3>1. Where(u)' = Where(u)
        BY <1>1, <2>2, PollersAreThreads
      <3>2. Where(u) \in {"add", "check", "advance"} => got'[u] = got[u] /\ Prev' = Prev
        BY <2>2 DEF Polling
      <3> QED BY <3>1, <3>2 DEF Advancing
    <2> QED BY <2>1, <2>2
  <1> QED BY <1>2 DEF Advancing

\* While one thread polls the other does not.
LEMMA OnePolls ==
    ASSUME Placed, NEW t \in Pollers, Where(t) \in Polling
    PROVE  \A u \in Pollers \ {t} : Where(u) \notin Polling
  BY DEF Placed, Spots

\* A step that leaves the counter, the cursors and what was read as they are.
LEMMA BoundedMoves ==
    ASSUME TypeOK, Bounded, NEW t \in Threads, NEW b, Moved(t, b), up, up',
           UNCHANGED <<source, errors, got, session, stored>>,
           history' \in History, history'.total = history.total,
           left' \in Left, left'.errors = left.errors,
           t \in Pollers /\ b \in {"add", "check"} => got[t] > Prev,
           t \in Pollers /\ b = "advance" => got[t] >= Prev
    PROVE  Bounded'
  <1>1. Prev' = Prev
    BY DEF Prev
  <1>2. Advancing'
    BY <1>1, AdvancingMoves DEF Bounded
  <1> QED BY <1>2 DEF Bounded

LEMMA BoundedKept ==
    ASSUME TypeOK, Placed, Bounded, [Next]_vars
    PROVE  Bounded'
  <1>1. CASE HardwareError
    <2>1. /\ errors' = errors + 1 /\ left.errors > 0 /\ left' = [left EXCEPT !.errors = @ - 1]
          /\ history' = [history EXCEPT !.total = @ + 1]
          /\ UNCHANGED <<source, session, stored, up, pc, then, got>>
      BY <1>1, HardwareErrorStep
    <2>2. /\ left' \in Left /\ left'.errors = left.errors - 1 /\ left.errors \in Nat
          /\ history' \in History /\ history'.total = history.total + 1 /\ history.total \in Nat
      BY <2>1 DEF Bounded, Left, History
    <2>3. errors' + left'.errors = errors + left.errors
      BY <2>1, <2>2 DEF TypeOK
    <2>4. errors' <= history'.total
      BY <2>1, <2>2 DEF Bounded, TypeOK
    <2>5. \A t \in Threads : got'[t] <= errors'
      BY <2>1 DEF Bounded, TypeOK
    <2>6. Advancing'
      BY <2>1 DEF Bounded, Advancing, Where, Prev
    <2>7. errors' + left'.errors <= Bounds[source]'.errors
      BY <2>1, <2>3 DEF Bounded
    <2> QED BY <2>1, <2>2, <2>4, <2>5, <2>6, <2>7 DEF Bounded
  <1>2. CASE Die
    <2>1. Stops /\ session' = stored /\ UNCHANGED <<errors, stored>>
      BY <1>2, DieStep
    <2>2. /\ history' \in History /\ history'.total = history.total
          /\ left' \in Left /\ left'.errors = left.errors
      <3>1. history' \in History /\ history'.total = history.total
        BY <1>2, DieStep DEF Bounded, History
      <3>2. left' \in Left /\ left'.errors = left.errors
        BY <1>2, DieStep DEF Bounded, Left
      <3> QED BY <3>1, <3>2
    <2>3. Advancing' /\ \A t \in Threads : got'[t] <= errors'
      BY <2>1, PollersAreThreads DEF Stops, Advancing, TypeOK
    <2>4. stored'.cursor <= session'.cursor /\ stored'.seq <= session'.seq
      BY <2>1 DEF TypeOK, Absent
    <2> QED BY <2>1, <2>2, <2>3, <2>4 DEF Bounded, Stops
  <1>3. CASE Reset
    <2>1. Stops /\ session' = stored' /\ errors' \in {0, errors}
      BY <1>3, ResetStep
    <2>2. left' \in Left /\ left'.errors = left.errors
      BY <1>3, ResetStep DEF Bounded, Left
    <2>3. /\ history' \in History /\ history'.total = history.total
      <3> DEFINE was == IF stored.cursor = Absent THEN 0 ELSE stored.cursor
                 past == IF source = "sel" THEN history.earlier ELSE history.earlier + was + stored.seq
      <3>1. past \in Nat
        BY DEF Bounded, History, TypeOK, Absent
      <3>2. history' = [history EXCEPT !.reset = TRUE, !.torn = @ \/ Flushing, !.unseen = {},
                                       !.earlier = past]
        BY <1>3, ResetStep
      <3> HIDE DEF past
      <3> QED BY <3>1, <3>2 DEF Bounded, History
    <2>4. Advancing' /\ \A t \in Threads : got'[t] <= errors'
      BY <2>1, PollersAreThreads DEF Stops, Advancing, TypeOK
    <2>5. stored' \in Cursors /\ session' \in Cursors
      BY <1>3, ResetStep DEF Bounded, NoCursors, Cursors, Absent
    <2>6. stored'.cursor <= session'.cursor /\ stored'.seq <= session'.seq
      BY <2>1, <2>5 DEF Cursors
    <2>7. source' = source /\ up' = FALSE
      BY <2>1 DEF Stops
    <2>8. errors' + left'.errors <= Bounds[source]'.errors /\ errors' <= history'.total
      <3>1. errors' <= errors /\ errors' \in Nat /\ errors \in Nat
        BY <2>1 DEF TypeOK
      <3>2. /\ errors + left.errors <= Bounds[source].errors /\ errors <= history.total
            /\ left.errors \in Nat /\ Bounds[source].errors \in Nat /\ history.total \in Nat
        BY LimitIsNat DEF Bounded, Left, History
      <3> QED BY <2>2, <2>3, <2>7, <3>1, <3>2
    <2> QED BY <2>2, <2>3, <2>4, <2>5, <2>6, <2>7, <2>8 DEF Bounded
  <1>4. CASE Start
    <2>1. /\ up' /\ got'["kmsg"] = session.seq /\ \A t \in Threads \ {"kmsg"} : got'[t] = 0
          /\ UNCHANGED <<source, errors, session, stored, history, left>>
      BY <1>4, StartStep
    <2>2. session.seq \in Nat /\ session.seq <= errors /\ errors \in Nat
      BY DEF TypeOK
    <2>3. \A t \in Threads : got'[t] <= errors'
      BY <2>1, <2>2
    <2>4. got'["kmsg"] >= session'.seq
      BY <2>1, <2>2
    <2>5. Advancing'
      BY <1>4, StartStep DEF Advancing, Pollers, Threads
    <2> QED BY <2>1, <2>3, <2>4, <2>5 DEF Bounded
  <1>5. ASSUME NEW t \in Pollers, BeginPoll(t) PROVE Bounded'
    <2>1. /\ Moved(t, "read") /\ t \in Threads /\ up /\ up'
          /\ UNCHANGED <<source, errors, got, session, stored, history, left>>
      BY <1>5, BeginPollStep, PollersAreThreads DEF Goes, Threads
    <2>2. history \in History /\ left \in Left
      BY DEF Bounded
    <2> QED BY <2>1, <2>2, BoundedMoves
  <1>6. ASSUME NEW t \in Pollers, Raise(t) PROVE Bounded'
    <2>1. /\ Moved(t, "leave") /\ t \in Threads /\ up /\ up' /\ left.raises > 0
          /\ UNCHANGED <<source, errors, got, session, stored, history>>
          /\ left' = [left EXCEPT !.raises = @ - 1]
      BY <1>6, RaiseStep, PollersAreThreads DEF Threads
    <2>2. history \in History /\ left' \in Left /\ left'.errors = left.errors
      BY <2>1 DEF Bounded, Left
    <2> QED BY <2>1, <2>2, BoundedMoves
  <1>7. ASSUME NEW t \in Pollers, Read(t) PROVE Bounded'
    <2>1. /\ got' \in [Threads -> Nat] /\ got'[t] = errors /\ \A u \in Threads \ {t} : got'[u] = got[u]
          /\ UNCHANGED <<source, errors, stored, left>> /\ t \in Threads
      BY <1>7, ReadStep, PollersAreThreads
    <2>2. \A u \in Threads : got'[u] <= errors'
      BY <2>1 DEF Bounded, TypeOK
    <2>3. CASE Compares(t)
      <3>1. /\ Goes(t, "read", IF errors > Prev THEN "add" ELSE "advance") /\ UNCHANGED <<session, history>>
        BY <2>3 DEF Compares
      <3>2. Prev' = Prev /\ Prev <= errors /\ Prev \in Nat /\ errors \in Nat
        BY <3>1 DEF Prev, TypeOK, Absent
      <3>3. \A u \in Pollers \ {t} : Where(u) \notin Polling
        BY <3>1, OnePolls DEF Goes, Polling
      <3>4. Advancing'
        BY <2>1, <3>1, <3>2, <3>3, AdvancingMoves DEF Bounded, Goes
      <3>5. got'["kmsg"] = got["kmsg"]
        BY <2>1 DEF Pollers, Threads
      <3> QED BY <2>1, <2>2, <3>1, <3>4, <3>5 DEF Bounded, Goes
    <2>4. CASE Baselines(t)
      <3>1. /\ Goes(t, "read", IF source = "sel" THEN "saves" ELSE "leave")
            /\ session' \in Cursors /\ session'.cursor = errors /\ session'.seq = session.seq
            /\ history' = [history EXCEPT !.base = errors] /\ session.cursor = Absent
        BY <2>4 DEF Baselines
      <3>2. history' \in History /\ history'.total = history.total
        BY <3>1 DEF Bounded, History, TypeOK
      <3>3. \A u \in Pollers \ {t} : Where(u) \notin Polling
        BY <3>1, OnePolls DEF Goes, Polling
      <3>4. Advancing'
        BY <2>1, <3>1, <3>3, AdvancingMoves DEF Bounded, Goes
      <3>5. stored'.cursor <= session'.cursor /\ stored'.seq <= session'.seq
        BY <2>1, <3>1 DEF Bounded, TypeOK
      <3>6. got'["kmsg"] = got["kmsg"]
        BY <2>1 DEF Pollers, Threads
      <3> QED BY <2>1, <2>2, <3>1, <3>2, <3>4, <3>5, <3>6 DEF Bounded, Goes
    <2> QED BY <1>7, <2>3, <2>4, ReadStep
  <1>8. ASSUME NEW t \in Pollers, Add(t) PROVE Bounded'
    <2>1. /\ Moved(t, "check") /\ t \in Threads /\ up /\ up'
          /\ UNCHANGED <<source, errors, got, session, stored, history, left>>
      BY <1>8, AddStep, PollersAreThreads DEF Goes, Threads
    <2>2. history \in History /\ left \in Left
      BY DEF Bounded
    <2> QED BY <1>8, <2>1, <2>2, BoundedMoves, AddStep
  <1>9. ASSUME NEW t \in Pollers, Check(t) PROVE Bounded'
    <2>1. /\ Moved(t, "advance") /\ t \in Threads /\ up /\ up' /\ got[t] > Prev
          /\ UNCHANGED <<source, errors, got, session, stored, history, left>>
      BY <1>9, CheckChecks, PollersAreThreads DEF Check, Pollers, Bounded, Advancing
    <2>2. history \in History /\ left \in Left
      BY DEF Bounded
    <2>3. got[t] >= Prev
      BY <2>1 DEF TypeOK, Prev, Absent
    <2> QED BY <2>1, <2>2, <2>3, BoundedMoves
  <1>10. ASSUME NEW t \in Pollers, Advance(t) PROVE Bounded'
    <2>1. /\ session' \in Cursors /\ session'.cursor = Seen(t) /\ session'.seq = session.seq
          /\ Prev <= Seen(t) /\ Seen(t) <= got[t] /\ Seen(t) \in Nat
          /\ Goes(t, "advance", IF Seen(t) < got[t] THEN "add"
                                ELSE IF source = "sel" /\ Seen(t) > Prev THEN "saves" ELSE "leave")
          /\ UNCHANGED <<source, errors, stored, got, history, left>> /\ t \in Threads
      BY <1>10, AdvanceStep, PollersAreThreads
    <2>2. Prev' = Seen(t)
      BY <2>1 DEF Prev, Absent
    <2>3. \A u \in Pollers \ {t} : Where(u) \notin Polling
      BY <2>1, OnePolls DEF Goes, Polling
    <2>4. got[t] \in Nat
      BY <2>1 DEF TypeOK
    <2>5. Advancing'
      BY <2>1, <2>2, <2>3, <2>4, AdvancingMoves DEF Bounded, Goes
    <2>6. session.cursor <= session'.cursor
      BY <2>1 DEF Prev, Absent, TypeOK
    <2>7. stored'.cursor <= session'.cursor
      BY <2>1, <2>6 DEF Bounded, Cursors
    <2> QED BY <2>1, <2>5, <2>7 DEF Bounded, Goes
  <1>11. ASSUME NEW t \in Pollers, SaveCursor(t) PROVE Bounded'
    <2>1. /\ stored' = session /\ UNCHANGED <<source, errors, session, up, got, history, left>>
      BY <1>11, SaveCursorStep
    <2>2. stored'.cursor <= session'.cursor /\ stored'.seq <= session'.seq
      BY <2>1 DEF Bounded, Cursors
    <2>3. Advancing'
      <3>1. Moved(t, "leave") /\ t \in Threads /\ Prev' = Prev
        BY <1>11, SaveCursorStep, PollersAreThreads DEF Goes, Prev
      <3> QED BY <2>1, <3>1, AdvancingMoves DEF Bounded
    <2> QED BY <2>1, <2>2, <2>3 DEF Bounded
  <1>12. ASSUME NEW t \in Pollers, Leave(t) PROVE Bounded'
    <2>1. /\ Goes(t, "leave", IF t = "main" THEN "stop" ELSE "idle")
          /\ got'[t] = 0 /\ \A u \in Threads \ {t} : got'[u] = got[u]
          /\ UNCHANGED <<source, errors, session, stored, left>> /\ t \in Threads /\ t # "kmsg"
      BY <1>12, LeaveStep, PollersAreThreads DEF Pollers
    <2>2. history' \in History /\ history'.total = history.total
      <3>1. got["main"] \in Nat
        BY DEF TypeOK, Threads
      <3> QED BY <1>12, <3>1, LeaveStep DEF Bounded, History
    <2>3. \A u \in Threads : got'[u] <= errors'
      BY <2>1 DEF Bounded, TypeOK
    <2>4. Advancing'
      <3>1. Prev' = Prev
        BY <2>1 DEF Prev
      <3>2. Moved(t, IF t = "main" THEN "stop" ELSE "idle")
        BY <2>1 DEF Goes
      <3>3. \A u \in Pollers \ {t} : got'[u] = got[u]
        BY <2>1, PollersAreThreads
      <3> QED BY <2>1, <3>1, <3>2, <3>3, AdvancingMoves DEF Bounded
    <2>5. up' => got'["kmsg"] >= session'.seq
      BY <2>1 DEF Bounded, Goes, Threads
    <2> QED BY <2>1, <2>2, <2>3, <2>4, <2>5 DEF Bounded
  <1>13. CASE KmsgOpens
    <2>1. /\ Moved("kmsg", "idle") /\ "kmsg" \in Threads /\ up /\ up'
          /\ UNCHANGED <<source, errors, got, session, stored, left>>
      BY <1>13, KmsgOpensStep DEF Goes, Threads
    <2>2. history' = [history EXCEPT !.unseen = @ \cup (1..(Oldest - 1) \ logged)]
      BY <1>13, KmsgOpensStep
    <2>3. 1..(Oldest - 1) \subseteq Nat
      BY OldestIsNext DEF TypeOK
    <2>4. history' \in History /\ history'.total = history.total
      BY <2>2, <2>3 DEF Bounded, History
    <2>5. left \in Left
      BY DEF Bounded
    <2> QED BY <2>1, <2>4, <2>5, BoundedMoves
  <1>14. CASE KmsgUnavailable
    <2>1. /\ Moved("kmsg", "ended") /\ "kmsg" \in Threads /\ up /\ up' /\ left.raises > 0
          /\ UNCHANGED <<source, errors, got, session, stored, history>>
          /\ left' = [left EXCEPT !.raises = @ - 1]
      BY <1>14, KmsgUnavailableStep, PollersAreThreads DEF Threads
    <2>2. history \in History /\ left' \in Left /\ left'.errors = left.errors
      BY <2>1 DEF Bounded, Left
    <2> QED BY <2>1, <2>2, BoundedMoves
  <1>15. CASE KmsgReads
    <2>1. /\ up /\ up' /\ pos <= errors /\ UNCHANGED <<source, errors, session, stored, history, left>>
      BY <1>15, KmsgReadsStep
    <2>2. CASE Skips
      BY <2>1, <2>2 DEF Skips, Bounded, Advancing, Where, Prev
    <2>3. CASE Takes
      <3>1. /\ got'["kmsg"] = pos /\ pos > got["kmsg"] /\ Moved("kmsg", "process") /\ "kmsg" \in Threads
            /\ \A u \in Threads \ {"kmsg"} : got'[u] = got[u]
        BY <2>3 DEF Takes, Goes, Threads
      <3>2. \A u \in Threads : got'[u] <= errors'
        BY <2>1, <3>1 DEF Bounded
      <3>3. Prev' = Prev /\ "kmsg" \notin Pollers
        BY <2>1 DEF Prev, Pollers
      <3>4. Advancing'
        BY <3>1, <3>3, AdvancingMoves, PollersAreThreads DEF Bounded
      <3>5. got'["kmsg"] >= session'.seq
        <4>1. got["kmsg"] \in Nat /\ pos \in Nat /\ session.seq \in Nat /\ got["kmsg"] >= session.seq
          BY <2>1, <3>1 DEF TypeOK, Bounded
        <4> QED BY <2>1, <3>1, <4>1
      <3> QED BY <2>1, <3>2, <3>4, <3>5 DEF Bounded
    <2> QED BY <1>15, <2>2, <2>3, KmsgReadsStep
  <1>16. CASE KmsgOverrun
    <2>1. /\ Moved("kmsg", "idle") /\ "kmsg" \in Threads /\ up /\ up'
          /\ UNCHANGED <<source, errors, got, session, stored, history, left>>
      BY <1>16, KmsgOverrunStep, PollersAreThreads DEF Goes, Threads
    <2>2. history \in History /\ left \in Left
      BY DEF Bounded
    <2> QED BY <2>1, <2>2, BoundedMoves
  <1>17. CASE KmsgProcesses
    <2>1. /\ Moved("kmsg", IF source \in Polled THEN "idle" ELSE "check") /\ "kmsg" \in Threads /\ up /\ up'
          /\ UNCHANGED <<source, errors, got, session, stored, history, left>>
      BY <1>17, KmsgProcessesStep, PollersAreThreads DEF Goes, Threads
    <2>2. history \in History /\ left \in Left
      BY DEF Bounded
    <2> QED BY <2>1, <2>2, BoundedMoves DEF Pollers
  <1>18. CASE Check("kmsg")
    <2>1. /\ Moved("kmsg", "idle") /\ "kmsg" \in Threads /\ up /\ up'
          /\ UNCHANGED <<source, errors, got, session, stored, history, left>>
      BY <1>18, CheckChecks DEF Check, Threads
    <2>2. history \in History /\ left \in Left
      BY DEF Bounded
    <2> QED BY <2>1, <2>2, BoundedMoves
  <1>19. CASE KmsgLogs
    <2>1. /\ Moved("kmsg", "acknowledge") /\ "kmsg" \in Threads /\ up /\ up'
          /\ UNCHANGED <<source, errors, got, session, stored, history, left>>
      BY <1>19, KmsgLogsStep, PollersAreThreads DEF Goes, Threads
    <2>2. history \in History /\ left \in Left
      BY DEF Bounded
    <2> QED BY <2>1, <2>2, BoundedMoves
  <1>20. CASE KmsgAcknowledges
    <2>1. /\ session' \in Cursors /\ session'.seq = got["kmsg"] /\ session'.cursor = session.cursor
          /\ Moved("kmsg", "idle") /\ "kmsg" \in Threads /\ up /\ up'
          /\ UNCHANGED <<source, errors, stored, got, history, left>>
      BY <1>20, KmsgAcknowledgesStep DEF Goes, Threads
    <2>2. Prev' = Prev /\ "kmsg" \notin Pollers
      BY <2>1 DEF Prev, Pollers
    <2>3. Advancing'
      BY <2>1, <2>2, AdvancingMoves DEF Bounded
    <2>4. got["kmsg"] \in Nat /\ stored.seq \in Nat /\ session.seq \in Nat
      BY <2>1 DEF TypeOK
    <2>5. stored'.seq <= session'.seq /\ got'["kmsg"] >= session'.seq
      BY <2>1, <2>4 DEF Bounded
    <2> QED BY <2>1, <2>3, <2>5 DEF Bounded
  <1>21. ASSUME NEW t \in Threads, Snapshot(t) PROVE Bounded'
    <2>1. /\ Moved(t, Where(t)) /\ t \in Threads /\ up /\ up'
          /\ UNCHANGED <<source, errors, got, session, stored, history, left>>
      BY <1>21, SnapshotStep, PollersAreThreads DEF Goes, Threads, Snaps
    <2>2. history \in History /\ left \in Left
      BY DEF Bounded
    <2> QED BY <2>1, <2>2, BoundedMoves DEF Bounded, Advancing
  <1>22. ASSUME NEW t \in Threads, Write(t) PROVE Bounded'
    <2>1. /\ Moved(t, Where(t)) /\ t \in Threads /\ up /\ up'
          /\ UNCHANGED <<source, errors, got, session, stored, history, left>>
      BY <1>22, WriteStep, PollersAreThreads DEF Goes, Threads
    <2>2. history \in History /\ left \in Left
      BY DEF Bounded
    <2> QED BY <2>1, <2>2, BoundedMoves DEF Bounded, Advancing
  <1>23. ASSUME NEW t \in {"monitor", "kmsg"}, ThreadEnds(t) PROVE Bounded'
    <2>1. /\ Moved(t, "ended") /\ t \in Threads /\ up /\ up'
          /\ UNCHANGED <<source, errors, got, session, stored, history, left>>
      BY <1>23, ThreadEndsStep, PollersAreThreads DEF Goes, Threads
    <2>2. history \in History /\ left \in Left
      BY DEF Bounded
    <2> QED BY <2>1, <2>2, BoundedMoves
  <1>24. CASE Save
    <2>1. /\ stored' = session /\ UNCHANGED <<source, errors, session, up, got, history, left>>
      BY <1>24, SaveStep
    <2>2. stored'.cursor <= session'.cursor /\ stored'.seq <= session'.seq
      BY <2>1 DEF Bounded, Cursors
    <2>3. Advancing'
      BY <1>24, SaveStep DEF Bounded, Advancing, Where, Prev
    <2> QED BY <2>1, <2>2, <2>3 DEF Bounded
  <1>25. CASE HeartbeatFlush
    <2>1. /\ Moved("heartbeat", Where("heartbeat")) /\ "heartbeat" \in Threads /\ up /\ up'
          /\ UNCHANGED <<source, errors, got, session, stored, history, left>>
      BY <1>25, HeartbeatFlushStep, PollersAreThreads DEF Goes, Threads, Snaps
    <2>2. history \in History /\ left \in Left
      BY DEF Bounded
    <2> QED BY <2>1, <2>2, BoundedMoves DEF Pollers
  <1>26. CASE FinalSamples
    <2>1. /\ Moved("main", IF source \in Polled THEN "sample" ELSE "stop") /\ "main" \in Threads /\ up /\ up'
          /\ UNCHANGED <<source, errors, got, session, stored, history, left>>
      BY <1>26, FinalSamplesStep, PollersAreThreads DEF Goes, Threads
    <2>2. history \in History /\ left \in Left
      BY DEF Bounded
    <2> QED BY <2>1, <2>2, BoundedMoves
  <1>27. CASE StopMonitors
    <2>1. /\ Moved("main", "join") /\ "main" \in Threads /\ up /\ up'
          /\ UNCHANGED <<source, errors, got, session, stored, history, left>>
      BY <1>27, StopMonitorsStep, PollersAreThreads DEF Goes, Threads
    <2>2. history \in History /\ left \in Left
      BY DEF Bounded
    <2> QED BY <2>1, <2>2, BoundedMoves
  <1>28. CASE LastFlush
    <2>1. /\ Moved("main", "done") /\ "main" \in Threads /\ up /\ up'
          /\ UNCHANGED <<source, errors, got, session, stored, left>>
      BY <1>28, LastFlushStep DEF Snaps, Threads
    <2>2. history' \in History /\ history'.total = history.total
      BY <1>28, LastFlushStep DEF Bounded, History
    <2>3. left \in Left
      BY DEF Bounded
    <2> QED BY <2>1, <2>2, <2>3, BoundedMoves
  <1>29. CASE UNCHANGED vars
    BY <1>29 DEF Bounded, Advancing, Where, Prev, vars
  <1> QED BY <1>1, <1>2, <1>3, <1>4, <1>5, <1>6, <1>7, <1>8, <1>9, <1>10, <1>11, <1>12, <1>13,
             <1>14, <1>15, <1>16, <1>17, <1>18, <1>19, <1>20, <1>21, <1>22, <1>23, <1>24, <1>25,
             <1>26, <1>27, <1>28, <1>29
         DEF Next, Environment, Poll, Kmsg, Finalize, Over

-----------------------------------------------------------------------------
(* What a step does to the findings *)

Flushes(t) == pc[t] \in {"flush", "write"}

\* Nothing, and no flush begins or ends.
Silent ==
    /\ UNCHANGED <<source, items, saved, dirty, snap>>
    /\ \A t \in Threads : Flushes(t) \/ Flushes(t)' => pc'[t] = pc[t]

\* Thread t adds to them, and flushes what the stick has to know of.
Finds(t) ==
    /\ ~Flushes(t) /\ \A u \in Threads \ {t} : pc'[u] = pc[u]
    /\ UNCHANGED <<source, saved, snap>> /\ items' \in Findings
    /\ items.count <= items'.count /\ items.rank <= items'.rank /\ items.gaps \subseteq items'.gaps
    /\ dirty = TRUE => dirty' = TRUE
    /\ \/ pc'[t] = "flush" /\ dirty' = TRUE
       \/ /\ pc'[t] # "write"
          /\ items'.count > 0 => items.count > 0
          /\ items'.rank = 2 => items.rank = 2
          /\ items'.gaps # {} => items.gaps # {}
          /\ source = "ue" => items'.count = items.count

\* Thread t takes a snapshot of them.
Copies(t) ==
    /\ pc[t] # "write" /\ Snaps(t) /\ \A u \in Threads \ {t} : pc'[u] = pc[u]

\* Thread t has nothing to write.
Skipped(t) ==
    /\ pc[t] = "flush" /\ ~dirty /\ pc'[t] \in Resting /\ \A u \in Threads \ {t} : pc'[u] = pc[u]
    /\ UNCHANGED <<source, items, saved, dirty, snap>>

\* Thread t writes its snapshot.
Writes(t) ==
    /\ pc[t] = "write" /\ pc'[t] \in Resting /\ \A u \in Threads \ {t} : pc'[u] = pc[u]
    /\ saved' \in Findings
    /\ saved'.count = IF saved.count > snap[t].count THEN saved.count ELSE snap[t].count
    /\ saved'.rank = IF saved.rank > snap[t].rank THEN saved.rank ELSE snap[t].rank
    /\ saved'.gaps = saved.gaps \cup snap[t].gaps
    /\ snap' \in [Threads -> Findings] /\ snap'[t] = None
    /\ \A u \in Threads \ {t} : snap'[u] = snap[u]
    /\ UNCHANGED <<source, items, dirty>>

OnFindings == \/ Silent \/ Stops
              \/ \E t \in Threads : Finds(t) \/ Copies(t) \/ Skipped(t) \/ Writes(t)

LEMMA GoesSilently ==
    ASSUME NEW t \in Threads, NEW a \in Resting, NEW b \in Resting, Goes(t, a, b),
           UNCHANGED <<source, items, saved, dirty, snap>>
    PROVE  OnFindings
  BY DEF Goes, Moved, OnFindings, Silent, Flushes, Resting

LEMMA AtRest ==
    /\ {"idle", "sample", "read", "add", "check", "advance", "saves", "leave", "open", "process",
        "acknowledge", "stop", "join", "done", "ended"} = Resting
    /\ Threads = {"monitor", "main", "kmsg", "heartbeat"} /\ Pollers = {"monitor", "main"}
  BY DEF Resting, Points, Threads, Pollers

LEMMA CheckFinds ==
    ASSUME TypeOK, NEW t \in Threads, Check(t)
    PROVE  Finds(t)
  <1>1. /\ Moved(t, IF t = "kmsg" THEN "idle" ELSE "advance")
        /\ UNCHANGED <<source, saved, snap>> /\ items' \in Findings
        /\ items'.count = items.count /\ items'.gaps = items.gaps
        /\ pc[t] = "check"
    BY CheckChecks DEF Check, At
  <1>2. items \in Findings /\ dirty \in BOOLEAN
    BY DEF TypeOK
  <1>3. CASE /\ Reached /\ pc'[t] = "flush" /\ items'.rank = 2
             /\ dirty' = (dirty \/ items.rank < 2)
    <2>1. items.rank \in 0..2 /\ items.count \in Nat
      BY <1>2 DEF Findings
    <2>2. /\ ~Flushes(t) /\ \A u \in Threads \ {t} : pc'[u] = pc[u]
          /\ items.count <= items'.count /\ items.rank <= items'.rank /\ items.gaps \subseteq items'.gaps
      BY <1>1, <1>3, <2>1 DEF Flushes, Moved
    <2>3. CASE items.rank < 2
      <3>1. dirty' = TRUE
        BY <1>3, <2>3
      <3> QED BY <1>1, <1>3, <2>2, <3>1 DEF Finds
    <2>4. CASE items.rank = 2
      <3>1. dirty' = dirty
        BY <1>2, <1>3, <2>4
      <3> QED BY <1>1, <1>3, <2>2, <2>4, <3>1 DEF Finds
    <2> QED BY <2>1, <2>3, <2>4
  <1>4. CASE ~Reached /\ pc'[t] = (IF t = "kmsg" THEN "idle" ELSE "advance") /\ items' = items /\ dirty' = dirty
    BY <1>1, <1>2, <1>4 DEF Finds, Flushes, Moved, Findings
  <1> QED BY <1>3, <1>4, CheckChecks

LEMMA GapFinds ==
    ASSUME TypeOK, NEW t \in Threads, NEW key, NEW w \in Resting, Moved(t, w), ~Flushes(t),
           items' \in Findings, items'.count = items.count, items'.rank = items.rank,
           items'.gaps = items.gaps \cup {key},
           \/ pc'[t] = "flush" /\ dirty' = TRUE
           \/ pc'[t] = w /\ dirty' = dirty /\ items' = items,
           UNCHANGED <<source, saved, snap>>
    PROVE  Finds(t)
  <1>1. items \in Findings
    BY DEF TypeOK
  <1> QED BY <1>1 DEF Finds, Moved, Findings, Resting

LEMMA StepsOnFindings ==
    ASSUME TypeOK, Placed, Bounded, [Next]_vars
    PROVE  OnFindings
  <1>1. CASE HardwareError
    BY <1>1, HardwareErrorStep DEF OnFindings, Silent
  <1>2. CASE Die
    BY <1>2, DieStep DEF OnFindings
  <1>3. CASE Reset
    BY <1>3, ResetStep DEF OnFindings
  <1>4. CASE Start
    BY <1>4, StartStep, AtRest DEF OnFindings, Silent, Flushes
  <1>5. ASSUME NEW t \in Pollers, BeginPoll(t) PROVE OnFindings
    BY <1>5, BeginPollStep, GoesSilently, AtRest
  <1>6. ASSUME NEW t \in Pollers, Raise(t) PROVE OnFindings
    <2>1. Finds(t)
      BY <1>6, RaiseStep, GapFinds, AtRest DEF Flushes
    <2> QED BY <2>1, AtRest DEF OnFindings
  <1>7. ASSUME NEW t \in Pollers, Read(t) PROVE OnFindings
    <2>1. CASE Compares(t)
      BY <1>7, <2>1, ReadStep, GoesSilently, AtRest DEF Compares
    <2>2. CASE Baselines(t)
      BY <1>7, <2>2, ReadStep, GoesSilently, AtRest DEF Baselines
    <2> QED BY <1>7, <2>1, <2>2, ReadStep
  <1>8. ASSUME NEW t \in Pollers, Add(t) PROVE OnFindings
    <2>1. /\ ~Flushes(t) /\ \A u \in Threads \ {t} : pc'[u] = pc[u]
          /\ UNCHANGED <<source, saved, snap>> /\ items' \in Findings /\ dirty' = TRUE
          /\ items.gaps = items'.gaps
      BY <1>8, AddStep DEF Flushes, Moved
    <2>2. items.count \in Nat /\ items.rank \in 0..2 /\ items \in Findings
      BY DEF TypeOK, Findings
    <2>3. items.count <= items'.count
      <3>1. Found(t) \in Nat /\ items'.count = items.count + Found(t)
        BY <1>8, AddStep
      <3> QED BY <2>2, <3>1
    <2>4. items.rank <= items'.rank /\ (items'.rank = 2 => items.rank = 2 \/ source = "ue")
      <3>1. /\ items'.rank = (IF Severity > items.rank THEN Severity ELSE items.rank)
            /\ Severity \in 1..2 /\ (Severity = 2 => source = "ue")
        <4>1. Severity \in 1..2 /\ (Severity = 2 => source = "ue")
          BY DEF Severity
        <4> QED BY <1>8, <4>1, AddStep
      <3> QED BY <2>2, <3>1
    <2>5. (source # "ue" /\ items.count # 0) \/ pc'[t] = "flush"
      BY <1>8, AddStep
    <2>6. Finds(t)
      <3>1. CASE pc'[t] = "flush"
        BY <2>1, <2>3, <2>4, <3>1 DEF Finds
      <3>2. CASE pc'[t] # "flush"
        <4>1. pc'[t] # "write"
          BY <1>8, <3>2, AddStep
        <4>2. items.count > 0
          BY <2>2, <2>5, <3>2
        <4> QED BY <2>1, <2>3, <2>4, <2>5, <3>2, <4>1, <4>2 DEF Finds
      <3> QED BY <3>1, <3>2
    <2> QED BY <2>6, AtRest DEF OnFindings
  <1>9. ASSUME NEW t \in Pollers, Check(t) PROVE OnFindings
    BY <1>9, CheckFinds, PollersAreThreads DEF OnFindings
  <1>10. ASSUME NEW t \in Pollers, Advance(t) PROVE OnFindings
    BY <1>10, AdvanceStep, GoesSilently, AtRest
  <1>11. ASSUME NEW t \in Pollers, SaveCursor(t) PROVE OnFindings
    BY <1>11, SaveCursorStep, GoesSilently, AtRest
  <1>12. ASSUME NEW t \in Pollers, Leave(t) PROVE OnFindings
    BY <1>12, LeaveStep, GoesSilently, AtRest
  <1>13. CASE KmsgOpens
    BY <1>13, KmsgOpensStep, GoesSilently, AtRest
  <1>14. CASE KmsgUnavailable
    <2>1. Finds("kmsg")
      BY <1>14, KmsgUnavailableStep, GapFinds, AtRest DEF Flushes
    <2> QED BY <2>1, AtRest DEF OnFindings
  <1>15. CASE KmsgReads
    <2>1. CASE Skips
      BY <1>15, <2>1, KmsgReadsStep DEF Skips, OnFindings, Silent
    <2>2. CASE Takes
      BY <1>15, <2>2, KmsgReadsStep, GoesSilently, AtRest DEF Takes
    <2> QED BY <1>15, <2>1, <2>2, KmsgReadsStep
  <1>16. CASE KmsgOverrun
    <2>1. Finds("kmsg")
      BY <1>16, KmsgOverrunStep, GapFinds, AtRest DEF Flushes
    <2> QED BY <2>1, AtRest DEF OnFindings
  <1>17. CASE KmsgProcesses
    <2>1. /\ ~Flushes("kmsg") /\ \A u \in Threads \ {"kmsg"} : pc'[u] = pc[u]
          /\ UNCHANGED <<source, saved, snap>> /\ items' \in Findings /\ dirty' = TRUE
          /\ items.gaps = items'.gaps /\ pc'["kmsg"] # "write"
          /\ items.count = 0 => pc'["kmsg"] = "flush"
      BY <1>17, KmsgProcessesStep DEF Flushes, Moved
    <2>2. items.count \in Nat /\ items.rank \in 0..2 /\ items \in Findings
      BY DEF TypeOK, Findings
    <2>3. source # "ue"
      BY <1>17, KmsgProcessesStep, SourceOfThread DEF Placed, KernelTold
    <2>4. items.count <= items'.count
      <3>1. items'.count \in {items.count, items.count + 1}
        BY <1>17, <2>2, KmsgProcessesStep
      <3> QED BY <2>2, <3>1
    <2>5. items.rank <= items'.rank /\ (items'.rank = 2 => items.rank = 2)
      <3>1. items'.rank = (IF items.rank = 0 THEN 1 ELSE items.rank)
        BY <1>17, KmsgProcessesStep
      <3> QED BY <2>2, <3>1
    <2>6. items.count = 0 \/ items.count > 0
      BY <2>2
    <2>7. Finds("kmsg")
      <3>1. CASE pc'["kmsg"] = "flush"
        BY <2>1, <2>4, <2>5, <3>1 DEF Finds
      <3>2. CASE pc'["kmsg"] # "flush"
        BY <2>1, <2>3, <2>4, <2>5, <2>6, <3>2 DEF Finds
      <3> QED BY <3>1, <3>2
    <2> QED BY <2>7, AtRest DEF OnFindings
  <1>18. CASE Check("kmsg")
    BY <1>18, CheckFinds, AtRest DEF OnFindings
  <1>19. CASE KmsgLogs
    BY <1>19, KmsgLogsStep, GoesSilently, AtRest
  <1>20. CASE KmsgAcknowledges
    BY <1>20, KmsgAcknowledgesStep, GoesSilently, AtRest
  <1>21. ASSUME NEW t \in Threads, Snapshot(t) PROVE OnFindings
    <2>1. CASE dirty /\ Snaps(t) /\ then'[t] = then[t]
      <3>1. Copies(t)
        BY <1>21, <2>1, SnapshotStep DEF Copies, Moved
      <3> QED BY <3>1 DEF OnFindings
    <2>2. CASE ~dirty
      <3>1. Skipped(t)
        BY <1>21, <2>2, SnapshotStep DEF Skipped, Moved
      <3> QED BY <3>1 DEF OnFindings
    <2> QED BY <1>21, <2>1, <2>2, SnapshotStep
  <1>22. ASSUME NEW t \in Threads, Write(t) PROVE OnFindings
    <2>1. Writes(t)
      BY <1>22, WriteStep DEF Writes, Moved
    <2> QED BY <2>1 DEF OnFindings
  <1>23. ASSUME NEW t \in {"monitor", "kmsg"}, ThreadEnds(t) PROVE OnFindings
    BY <1>23, ThreadEndsStep, GoesSilently, AtRest
  <1>24. CASE Save
    BY <1>24, SaveStep DEF OnFindings, Silent
  <1>25. CASE HeartbeatFlush
    <2>1. Copies("heartbeat")
      BY <1>25, HeartbeatFlushStep DEF Copies, Moved
    <2> QED BY <2>1, AtRest DEF OnFindings
  <1>26. CASE FinalSamples
    BY <1>26, FinalSamplesStep, GoesSilently, AtRest
  <1>27. CASE StopMonitors
    BY <1>27, StopMonitorsStep, GoesSilently, AtRest
  <1>28. CASE LastFlush
    <2>1. Copies("main")
      BY <1>28, LastFlushStep DEF Copies, Moved
    <2> QED BY <2>1, AtRest DEF OnFindings
  <1>29. CASE UNCHANGED vars
    BY <1>29 DEF OnFindings, Silent, vars
  <1> QED BY <1>1, <1>2, <1>3, <1>4, <1>5, <1>6, <1>7, <1>8, <1>9, <1>10, <1>11, <1>12, <1>13,
             <1>14, <1>15, <1>16, <1>17, <1>18, <1>19, <1>20, <1>21, <1>22, <1>23, <1>24, <1>25,
             <1>26, <1>27, <1>28, <1>29
         DEF Next, Environment, Poll, Kmsg, Finalize, Over

LEMMA AheadKept ==
    ASSUME TypeOK, Ahead, OnFindings
    PROVE  Ahead'
  <1>1. /\ items \in Findings /\ saved \in Findings /\ \A t \in Threads : snap[t] \in Findings
    BY DEF TypeOK
  <1>2. CASE Silent
    BY <1>2 DEF Silent, Ahead, Behind
  <1>3. CASE Stops
    BY <1>1, <1>3 DEF Stops, Ahead, Behind, None, Findings
  <1>4. ASSUME NEW t \in Threads, Finds(t) PROVE Ahead'
    <2>1. /\ items'.count \in Nat /\ items'.rank \in 0..2
          /\ items.count <= items'.count /\ items.rank <= items'.rank /\ items.gaps \subseteq items'.gaps
      BY <1>4 DEF Finds, Findings
    <2>2. ASSUME NEW f \in Findings, Behind(f) PROVE Behind(f)'
      BY <1>1, <2>1, <2>2 DEF Behind, Findings
    <2>3. saved' = saved /\ snap' = snap
      BY <1>4 DEF Finds
    <2> QED BY <1>1, <2>2, <2>3 DEF Ahead, Behind
  <1>5. ASSUME NEW t \in Threads, Copies(t) PROVE Ahead'
    BY <1>1, <1>5 DEF Copies, Snaps, Ahead, Behind, Findings
  <1>6. ASSUME NEW t \in Threads, Skipped(t) PROVE Ahead'
    BY <1>6 DEF Skipped, Ahead, Behind
  <1>7. ASSUME NEW t \in Threads, Writes(t) PROVE Ahead'
    <2>1. Behind(saved) /\ Behind(snap[t])
      BY DEF Ahead
    <2>2. items' = items
      BY <1>7 DEF Writes
    <2>3. Behind(saved)'
      BY <1>7, <2>1, <2>2 DEF Writes, Behind
    <2>4. ASSUME NEW u \in Threads PROVE Behind(snap[u])'
      <3>1. CASE u = t
        BY <1>1, <1>7, <2>2, <3>1 DEF Writes, Behind, None, Findings
      <3>2. CASE u # t
        BY <1>7, <2>2, <3>2 DEF Writes, Behind, Ahead
      <3> QED BY <3>1, <3>2
    <2> QED BY <2>3, <2>4 DEF Ahead
  <1> QED BY <1>2, <1>3, <1>4, <1>5, <1>6, <1>7 DEF OnFindings

\* What a flush in progress has, and what the stick has, stays there or comes there.
LEMMA ArrivesKept ==
    ASSUME TypeOK, Arrives, OnFindings
    PROVE  Arrives'
  <1>1. /\ items \in Findings /\ saved \in Findings /\ \A t \in Threads : snap[t] \in Findings
        /\ dirty \in BOOLEAN
    BY DEF TypeOK
  <1>2. CASE Silent
    <2>1. \A t \in Threads : /\ pc[t] = "flush" => pc'[t] = "flush"
                             /\ Writing(t) => Writing(t)'
      BY <1>2 DEF Silent, Flushes, Writing
    <2>2. Due => Due'
      BY <1>2, <2>1 DEF Silent, Due
    <2> QED BY <1>2, <2>1, <2>2 DEF Silent, Arrives
  <1>3. CASE Stops
    BY <1>1, <1>3 DEF Stops, Arrives, Findings
  <1>4. ASSUME NEW t \in Threads, Finds(t) PROVE Arrives'
    <2>1. CASE pc'[t] = "flush" /\ dirty' = TRUE
      BY <2>1 DEF Arrives, Due
    <2>2. CASE /\ pc'[t] # "write"
               /\ items'.count > 0 => items.count > 0
               /\ items'.rank = 2 => items.rank = 2
               /\ items'.gaps # {} => items.gaps # {}
               /\ source = "ue" => items'.count = items.count
      <3>1. \A u \in Threads : /\ pc[u] = "flush" => pc'[u] = "flush"
                               /\ Writing(u) => Writing(u)'
        BY <1>4 DEF Finds, Flushes, Writing
      <3>2. Due => Due'
        BY <1>1, <1>4, <3>1 DEF Finds, Due
      <3>3. UNCHANGED <<source, saved, snap>>
        BY <1>4 DEF Finds
      <3> QED BY <2>2, <3>1, <3>2, <3>3 DEF Arrives
    <2> QED BY <1>4, <2>1, <2>2 DEF Finds
  <1>5. ASSUME NEW t \in Threads, Copies(t) PROVE Arrives'
    <2>1. Writing(t)' /\ snap'[t] = items /\ items' = items
      BY <1>5 DEF Copies, Snaps, Writing
    <2>2. items.count \in Nat
      BY <1>1 DEF Findings
    <2> QED BY <2>1, <2>2 DEF Arrives
  <1>6. ASSUME NEW t \in Threads, Skipped(t) PROVE Arrives'
    <2>1. ~Due /\ UNCHANGED <<source, items, saved, snap>>
      BY <1>6 DEF Skipped, Due
    <2>2. \A u \in Threads : Writing(u) => Writing(u)'
      BY <1>6 DEF Skipped, Writing
    <2> QED BY <2>1, <2>2 DEF Arrives
  <1>7. ASSUME NEW t \in Threads, Writes(t) PROVE Arrives'
    <2>1. Due => Due'
      BY <1>7 DEF Writes, Due
    <2>2. \A u \in Threads \ {t} : Writing(u) => Writing(u)' /\ snap'[u] = snap[u]
      BY <1>7 DEF Writes, Writing
    <2>3. /\ saved.count <= saved'.count /\ snap[t].count <= saved'.count
          /\ saved.count \in Nat /\ snap[t].count \in Nat /\ saved'.count \in Nat /\ items.count \in Nat
      BY <1>1, <1>7 DEF Writes, Findings
    <2>4. saved.rank = 2 \/ snap[t].rank = 2 => saved'.rank = 2
      BY <1>1, <1>7 DEF Writes, Findings
    <2>5. saved.gaps # {} \/ snap[t].gaps # {} => saved'.gaps # {}
      BY <1>7 DEF Writes
    <2>6. UNCHANGED <<source, items>>
      BY <1>7 DEF Writes
    <2>7. items'.count > 0 =>
            saved'.count > 0 \/ Due' \/ \E u \in Threads : Writing(u)' /\ snap'[u].count > 0
      <3>1. CASE \E u \in Threads : Writing(u) /\ snap[u].count > 0
        <4>1. PICK u \in Threads : Writing(u) /\ snap[u].count > 0
          BY <3>1
        <4>2. CASE u = t
          BY <2>3, <4>1, <4>2
        <4>3. CASE u # t
          BY <2>2, <4>1, <4>3
        <4> QED BY <4>2, <4>3
      <3>2. CASE saved.count > 0
        BY <2>3, <3>2
      <3> QED BY <2>1, <2>6, <3>1, <3>2 DEF Arrives
    <2>8. items'.gaps # {} =>
            saved'.gaps # {} \/ Due' \/ \E u \in Threads : Writing(u)' /\ snap'[u].gaps # {}
      BY <2>1, <2>2, <2>5, <2>6 DEF Arrives
    <2>9. items'.rank = 2 =>
            saved'.rank = 2 \/ Due' \/ \E u \in Threads : Writing(u)' /\ snap'[u].rank = 2
      BY <2>1, <2>2, <2>4, <2>6 DEF Arrives
    <2>10. source' = "ue" =>
             \/ saved'.count >= items'.count \/ Due'
             \/ \E u \in Threads : Writing(u)' /\ snap'[u].count >= items'.count
      <3>1. CASE \E u \in Threads : Writing(u) /\ snap[u].count >= items.count
        <4>1. PICK u \in Threads : Writing(u) /\ snap[u].count >= items.count
          BY <3>1
        <4>2. CASE u = t
          BY <2>3, <2>6, <4>1, <4>2
        <4>3. CASE u # t
          BY <2>2, <2>6, <4>1, <4>3
        <4> QED BY <4>2, <4>3
      <3>2. CASE saved.count >= items.count
        BY <2>3, <2>6, <3>2
      <3> QED BY <2>1, <2>6, <3>1, <3>2 DEF Arrives
    <2> QED BY <2>7, <2>8, <2>9, <2>10 DEF Arrives
  <1> QED BY <1>2, <1>3, <1>4, <1>5, <1>6, <1>7 DEF OnFindings

\* With no flush in progress the stick has what matters.
LEMMA AllWritten ==
    ASSUME Arrives, ~Flushing
    PROVE  /\ items.count > 0 => saved.count > 0
           /\ items.gaps # {} => saved.gaps # {}
           /\ items.rank = 2 => saved.rank = 2
           /\ source = "ue" => saved.count >= items.count
  <1>1. ~Due /\ \A t \in Threads : ~Writing(t)
    BY DEF Flushing, Due, Writing
  <1> QED BY <1>1 DEF Arrives

-----------------------------------------------------------------------------
(* What a step does to the counts *)

InCount == {"check", "advance"}

LEMMA CountsAreNat ==
    ASSUME TypeOK, Placed, Bounded
    PROVE  /\ Prev \in Nat /\ Counted \in Nat /\ Processed \in Int /\ errors \in Nat
           /\ Prev <= Counted /\ Counted <= errors /\ Prev <= errors
           /\ got["kmsg"] \in Nat /\ got["kmsg"] <= errors
  <1>1. Prev \in Nat /\ errors \in Nat /\ Prev <= errors
    BY DEF TypeOK, Prev, Absent
  <1>2. \A t \in Threads : got[t] \in Nat /\ got[t] <= errors
    BY DEF TypeOK, Bounded
  <1>3. ASSUME NEW t \in Pollers, Where(t) \in InCount
        PROVE  Seen(t) \in Nat /\ Prev <= Seen(t) /\ Seen(t) <= errors
    <2>1. got[t] \in Nat /\ got[t] >= Prev /\ got[t] <= errors
      BY <1>1, <1>2, <1>3, PollersAreThreads DEF Bounded, Advancing, InCount
    <2> QED BY <1>1, <2>1 DEF Seen
  <1>4. Counted \in Nat /\ Prev <= Counted /\ Counted <= errors
    BY <1>1, <1>3 DEF Counted, InCount, Pollers
  <1>5. Processed \in Int
    BY <1>2 DEF Processed, Threads
  <1> QED BY <1>1, <1>2, <1>4, <1>5 DEF Threads

\* While t polls, Counted is about t.
LEMMA CountedIs ==
    ASSUME NEW t \in Pollers, \A u \in Pollers \ {t} : Where(u) \notin Polling
    PROVE  Counted = IF Where(t) \in InCount THEN Seen(t) ELSE Prev
  BY DEF Counted, Pollers, Polling, InCount

LEMMA CountedBecomes ==
    ASSUME NEW t \in Pollers, NEW b, \A u \in Pollers \ {t} : Where(u) \notin Polling, Moved(t, b)
    PROVE  Counted' = IF b \in InCount THEN Seen(t)' ELSE Prev'
  <1>1. Where(t)' = b /\ \A u \in Pollers \ {t} : Where(u)' \notin Polling
    BY PollersAreThreads DEF Moved
  <1>2. CASE t = "monitor"
    <2>1. Where("main")' \notin InCount
      BY <1>1, <1>2 DEF Pollers, Polling, InCount
    <2> QED BY <1>1, <1>2, <2>1 DEF Counted, InCount
  <1>3. CASE t = "main"
    <2>1. Where("monitor")' \notin InCount
      BY <1>1, <1>3 DEF Pollers, Polling, InCount
    <2> QED BY <1>1, <1>3, <2>1 DEF Counted, InCount
  <1> QED BY <1>2, <1>3 DEF Pollers

LEMMA CountedStays ==
    ASSUME TypeOK, NEW t \in Threads, NEW b, Moved(t, b),
           t \in Pollers => (Where(t) \in InCount <=> b \in InCount),
           UNCHANGED source, session'.cursor = session.cursor,
           \A u \in Pollers : Where(u) \in InCount => got'[u] = got[u]
    PROVE  Counted' = Counted /\ Prev' = Prev
  <1>1. Prev' = Prev
    BY DEF Prev
  <1>2. \A u \in Pollers : Where(u)' \in InCount <=> Where(u) \in InCount
    BY PollersAreThreads DEF Moved
  <1>3. \A u \in Pollers : Where(u) \in InCount => Seen(u)' = Seen(u)
    BY <1>1 DEF Seen
  <1> QED BY <1>1, <1>2, <1>3 DEF Counted, InCount, Pollers

\* The kernel log reader has passed nothing.
Unread == session.seq = 0 /\ (Where("kmsg") # "process" => got["kmsg"] = 0)

SameStory == /\ history'.base = history.base /\ history'.earlier = history.earlier
             /\ history'.died = history.died /\ history'.reset = history.reset
             /\ history'.torn = history.torn

\* What is added to the finding is what the cursor will pass.
Balanced ==
    /\ Counted' \in Nat /\ Counted' >= Counted
    /\ items'.count + Counted = items.count + Counted'
    /\ items.gaps \subseteq items'.gaps
    /\ source' = source /\ SameStory
    /\ history'.total + errors = history.total + errors'
    /\ session'.cursor = Absent => session.cursor = Absent
    /\ Processed' >= Processed /\ Processed' \in Int
    /\ Unread => Unread'

Processes ==
    /\ Where("kmsg") = "process" /\ Where("kmsg")' # "process" /\ source \in KernelTold
    /\ items'.count = IF source \notin Polled THEN items.count + 1
                      ELSE IF items.count = 0 THEN 1 ELSE items.count
    /\ items'.gaps = items.gaps
    /\ UNCHANGED <<source, errors, history, session, got>>
    /\ Counted' = Counted

TakesBaseline ==
    /\ \E t \in Pollers : Baselines(t)
    /\ Counted = 0 /\ Counted' = errors
    /\ UNCHANGED <<source, errors, items>>
    /\ Processed' = Processed

OnCounts == Die \/ Reset \/ Processes \/ TakesBaseline \/ Balanced

LEMMA BalancedMoves ==
    ASSUME TypeOK, Placed, Bounded, NEW t \in Threads, NEW b, Moved(t, b),
           UNCHANGED <<source, errors, session, got>>,
           items'.count = items.count, items.gaps \subseteq items'.gaps,
           SameStory, history'.total = history.total,
           t \in Pollers => (Where(t) \in InCount <=> b \in InCount),
           t = "kmsg" => (Where(t) = "process" <=> b = "process")
    PROVE  Balanced
  <1>1. Counted' = Counted /\ Counted \in Nat
    BY CountedStays, CountsAreNat
  <1>2. Where("kmsg")' = "process" <=> Where("kmsg") = "process"
    BY DEF Moved, Threads
  <1>3. Processed' = Processed /\ Processed \in Int
    BY <1>2, CountsAreNat DEF Processed
  <1>4. Unread => Unread'
    BY <1>2 DEF Unread
  <1>5. history.total \in Nat /\ items.count \in Nat /\ errors \in Nat
    BY DEF Bounded, History, TypeOK, Findings
  <1> QED BY <1>1, <1>3, <1>4, <1>5 DEF Balanced

LEMMA StepsOnCounts ==
    ASSUME TypeOK, Placed, Bounded, [Next]_vars
    PROVE  OnCounts
  <1>1. CASE HardwareError
    <2>1. /\ errors' = errors + 1 /\ UNCHANGED <<source, session, items, pc, then, got>>
          /\ history' = [history EXCEPT !.total = @ + 1]
      BY <1>1, HardwareErrorStep
    <2>2. history'.total = history.total + 1 /\ SameStory /\ history.total \in Nat
      BY <2>1 DEF Bounded, History, SameStory
    <2>3. Counted' = Counted /\ Processed' = Processed /\ (Unread => Unread')
      BY <2>1 DEF Counted, Seen, Prev, Where, Processed, Unread
    <2>4. Counted \in Nat /\ Processed \in Int /\ errors \in Nat /\ items.count \in Nat
      BY CountsAreNat DEF TypeOK, Findings
    <2>5. history'.total + errors = history.total + errors'
      BY <2>1, <2>2, <2>4
    <2>6. Balanced
      BY <2>1, <2>2, <2>3, <2>4, <2>5 DEF Balanced
    <2> QED BY <2>6 DEF OnCounts
  <1>2. CASE Die
    BY <1>2 DEF OnCounts
  <1>3. CASE Reset
    BY <1>3 DEF OnCounts
  <1>4. CASE Start
    <2>1. /\ got'["kmsg"] = session.seq /\ UNCHANGED <<source, errors, session, items, history>>
          /\ \A t \in Threads : Where(t) = "idle" /\ Where(t)' \in {"idle", "open", "ended"}
      BY <1>4, StartStep DEF Threads
    <2>2. got["kmsg"] = 0
      BY <1>4, StartStep DEF Idle, Threads
    <2>3. Where("kmsg") = "idle" /\ Where("kmsg")' # "process" /\ session.seq \in Nat
      BY <2>1 DEF TypeOK, Threads
    <2>4. Processed = 0 /\ Processed' = session.seq
      BY <2>1, <2>2, <2>3 DEF Processed
    <2>5. Unread => Unread'
      BY <2>1, <2>3 DEF Unread
    <2>6. Counted = Prev /\ Counted' = Prev' /\ Prev' = Prev
      BY <2>1 DEF Counted, Threads, Prev
    <2>7. Counted \in Nat /\ history.total \in Nat /\ errors \in Nat /\ items.count \in Nat
      BY CountsAreNat DEF TypeOK, Findings, Bounded, History
    <2>8. Balanced
      BY <2>1, <2>3, <2>4, <2>5, <2>6, <2>7 DEF Balanced, SameStory
    <2> QED BY <2>8 DEF OnCounts
  <1>5. ASSUME NEW t \in Pollers, BeginPoll(t) PROVE OnCounts
    <2>1. /\ Moved(t, "read") /\ t \in Threads
          /\ UNCHANGED <<source, errors, session, got, history>>
          /\ items'.count = items.count /\ items.gaps \subseteq items'.gaps
          /\ Where(t) \notin InCount
      BY <1>5, BeginPollStep, PollersAreThreads DEF Goes, Threads, InCount
    <2>3. Balanced
      BY <2>1, BalancedMoves DEF InCount, Pollers, SameStory
    <2> QED BY <2>3 DEF OnCounts
  <1>6. ASSUME NEW t \in Pollers, Raise(t) PROVE OnCounts
    <2>1. /\ Moved(t, "leave") /\ t \in Threads
          /\ UNCHANGED <<source, errors, session, got, history>>
          /\ items'.count = items.count /\ items.gaps \subseteq items'.gaps
          /\ Where(t) \notin InCount
      BY <1>6, RaiseStep, PollersAreThreads DEF Goes, Threads, InCount
    <2>3. Balanced
      BY <2>1, BalancedMoves DEF InCount, Pollers, SameStory
    <2> QED BY <2>3 DEF OnCounts
  <1>7. ASSUME NEW t \in Pollers, Read(t) PROVE OnCounts
    <2>1. /\ got'[t] = errors /\ \A u \in Threads \ {t} : got'[u] = got[u]
          /\ UNCHANGED <<source, errors, items>> /\ t \in Threads /\ t # "kmsg" /\ "kmsg" \in Threads
      BY <1>7, ReadStep, PollersAreThreads DEF Pollers, Threads
    <2>2. Where(t) = "read" /\ \A u \in Pollers \ {t} : Where(u) \notin Polling
      BY <1>7, ReadStep, OnePolls DEF Compares, Baselines, Goes, Polling
    <2>3. Counted = Prev
      BY <2>2, CountedIs DEF InCount
    <2>4. CASE Compares(t)
      <3>1. /\ Moved(t, IF errors > Prev THEN "add" ELSE "advance") /\ UNCHANGED <<session, history>>
        BY <2>4 DEF Compares, Goes
      <3>2. Prev' = Prev /\ Prev \in Nat /\ errors \in Nat /\ Prev <= errors
        BY <3>1, CountsAreNat DEF Prev
      <3>3. Counted' = Prev
        <4>1. CASE errors > Prev
          BY <2>2, <3>1, <3>2, <4>1, CountedBecomes DEF InCount
        <4>2. CASE ~(errors > Prev)
          <5>1. errors = Prev /\ Seen(t)' = Prev
            BY <2>1, <3>2, <4>2 DEF Seen
          <5> QED BY <2>2, <3>1, <4>2, <5>1, CountedBecomes DEF InCount
        <4> QED BY <4>1, <4>2
      <3>4. Where("kmsg")' = Where("kmsg") /\ got'["kmsg"] = got["kmsg"]
        BY <2>1, <3>1 DEF Moved
      <3>5. Processed' = Processed /\ Processed \in Int /\ (Unread => Unread')
        BY <3>1, <3>4, CountsAreNat DEF Processed, Unread
      <3>6. history.total \in Nat /\ items.count \in Nat
        BY DEF TypeOK, Findings, Bounded, History
      <3>7. Balanced
        BY <2>1, <2>3, <3>1, <3>2, <3>3, <3>5, <3>6 DEF Balanced, SameStory
      <3> QED BY <3>7 DEF OnCounts
    <2>5. CASE Baselines(t)
      <3>1. /\ Moved(t, IF source = "sel" THEN "saves" ELSE "leave")
            /\ session'.cursor = errors /\ session.cursor = Absent
        BY <2>5 DEF Baselines, Goes
      <3>2. Prev = 0 /\ Prev' = errors
        BY <3>1, CountsAreNat DEF Prev, Absent
      <3>3. Counted' = errors
        BY <2>2, <3>1, <3>2, CountedBecomes DEF InCount
      <3>4. Where("kmsg")' = Where("kmsg") /\ got'["kmsg"] = got["kmsg"]
        BY <2>1, <3>1 DEF Moved
      <3>5. TakesBaseline
        BY <2>1, <2>3, <2>5, <3>2, <3>3, <3>4 DEF TakesBaseline, Processed
      <3> QED BY <3>5 DEF OnCounts
    <2> QED BY <1>7, <2>4, <2>5, ReadStep
  <1>8. ASSUME NEW t \in Pollers, Add(t) PROVE OnCounts
    <2>1. /\ Where(t) = "add" /\ Moved(t, "check") /\ got[t] > Prev
          /\ items'.count = items.count + Found(t) /\ items'.gaps = items.gaps /\ Found(t) \in Nat
          /\ UNCHANGED <<source, errors, session, got, history>>
      BY <1>8, AddStep
    <2>2. \A u \in Pollers \ {t} : Where(u) \notin Polling
      BY <2>1, OnePolls DEF Polling
    <2>3. Counted = Prev /\ Counted' = Seen(t)'
      BY <2>1, <2>2, CountedIs, CountedBecomes DEF InCount
    <2>4. Prev \in Nat /\ got[t] \in Nat /\ Prev' = Prev /\ Processed \in Int /\ errors \in Nat
      BY <2>1, CountsAreNat, PollersAreThreads DEF Prev, TypeOK
    <2>5. Seen(t)' = Prev + Found(t)
      BY <2>1, <2>4 DEF Seen, Found
    <2>6. Where("kmsg")' = Where("kmsg") /\ Processed' = Processed /\ (Unread => Unread')
      BY <2>1 DEF Moved, Threads, Pollers, Processed, Unread
    <2>7. history.total \in Nat /\ items.count \in Nat
      BY DEF TypeOK, Findings, Bounded, History
    <2>8. Balanced
      BY <2>1, <2>3, <2>4, <2>5, <2>6, <2>7 DEF Balanced, SameStory
    <2> QED BY <2>8 DEF OnCounts
  <1>9. ASSUME NEW t \in Pollers, Check(t) PROVE OnCounts
    <2>1. /\ Moved(t, "advance") /\ t \in Threads
          /\ UNCHANGED <<source, errors, session, got, history>>
          /\ items'.count = items.count /\ items.gaps \subseteq items'.gaps
          /\ Where(t) \in InCount
      BY <1>9, CheckChecks, PollersAreThreads DEF Goes, Threads, InCount, Check, Pollers
    <2>3. Balanced
      BY <2>1, BalancedMoves DEF InCount, Pollers, SameStory
    <2> QED BY <2>3 DEF OnCounts
  <1>10. ASSUME NEW t \in Pollers, Advance(t) PROVE OnCounts
    <2>1. /\ session' \in Cursors /\ session'.cursor = Seen(t) /\ session'.seq = session.seq
          /\ Prev <= Seen(t) /\ Seen(t) <= got[t] /\ Seen(t) \in Nat
          /\ Goes(t, "advance", IF Seen(t) < got[t] THEN "add"
                                ELSE IF source = "sel" /\ Seen(t) > Prev THEN "saves" ELSE "leave")
          /\ UNCHANGED <<source, errors, items, got, history>>
      BY <1>10, AdvanceStep
    <2>2. \A u \in Pollers \ {t} : Where(u) \notin Polling
      BY <2>1, OnePolls DEF Goes, Polling
    <2>3. Prev' = Seen(t)
      BY <2>1 DEF Prev, Absent
    <2>4. Counted = Seen(t) /\ Counted' = Seen(t)
      BY <2>1, <2>2, <2>3, CountedIs, CountedBecomes DEF InCount, Goes
    <2>5. Where("kmsg")' = Where("kmsg")
      BY <2>1 DEF Goes, Moved, Threads, Pollers
    <2>6. Processed' = Processed /\ (Unread => Unread') /\ Processed \in Int
      BY <2>1, <2>5, CountsAreNat DEF Processed, Unread
    <2>7. history.total \in Nat /\ items.count \in Nat /\ errors \in Nat
      BY DEF TypeOK, Findings, Bounded, History
    <2>8. session'.cursor # Absent
      BY <2>1 DEF Absent
    <2>9. Balanced
      BY <2>1, <2>4, <2>6, <2>7, <2>8 DEF Balanced, SameStory
    <2> QED BY <2>9 DEF OnCounts
  <1>11. ASSUME NEW t \in Pollers, SaveCursor(t) PROVE OnCounts
    <2>1. /\ Moved(t, "leave") /\ t \in Threads
          /\ UNCHANGED <<source, errors, session, got, history>>
          /\ items'.count = items.count /\ items.gaps \subseteq items'.gaps
          /\ Where(t) \notin InCount
      BY <1>11, SaveCursorStep, PollersAreThreads DEF Goes, Threads, InCount
    <2>3. Balanced
      BY <2>1, BalancedMoves DEF InCount, Pollers, SameStory
    <2> QED BY <2>3 DEF OnCounts
  <1>12. ASSUME NEW t \in Pollers, Leave(t) PROVE OnCounts
    <2>1. /\ Goes(t, "leave", IF t = "main" THEN "stop" ELSE "idle")
          /\ got'[t] = 0 /\ \A u \in Threads \ {t} : got'[u] = got[u]
          /\ UNCHANGED <<source, errors, session, items>> /\ t \in Threads /\ t # "kmsg" /\ "kmsg" \in Threads
      BY <1>12, LeaveStep, PollersAreThreads DEF Pollers, Threads
    <2>2. SameStory /\ history'.total = history.total /\ history.total \in Nat
      BY <1>12, LeaveStep DEF Bounded, History, SameStory
    <2>3. Moved(t, IF t = "main" THEN "stop" ELSE "idle") /\ Where(t) = "leave"
      BY <2>1 DEF Goes
    <2>4. Counted' = Counted
      <3>1. \A u \in Pollers : Where(u) \in InCount => got'[u] = got[u]
        BY <2>1, <2>3, PollersAreThreads DEF InCount
      <3> QED BY <2>1, <2>3, <3>1, CountedStays DEF InCount
    <2>5. Where("kmsg")' = Where("kmsg")
      BY <2>1, <2>3 DEF Moved
    <2>6. Processed' = Processed /\ (Unread => Unread') /\ Processed \in Int /\ Counted \in Nat
      BY <2>1, <2>5, CountsAreNat DEF Processed, Unread
    <2>7. items.count \in Nat /\ errors \in Nat
      BY DEF TypeOK, Findings
    <2>8. Balanced
      BY <2>1, <2>2, <2>4, <2>6, <2>7 DEF Balanced
    <2> QED BY <2>8 DEF OnCounts
  <1>13. CASE KmsgOpens
    <2>1. /\ Moved("kmsg", "idle") /\ "kmsg" \in Threads
          /\ UNCHANGED <<source, errors, session, got>>
          /\ items'.count = items.count /\ items.gaps \subseteq items'.gaps
          /\ Where("kmsg") = "open"
      BY <1>13, KmsgOpensStep, PollersAreThreads DEF Goes, Threads
    <2>2. SameStory /\ history'.total = history.total
      BY <1>13, KmsgOpensStep DEF Bounded, History, SameStory
    <2>3. Balanced
      BY <2>1, <2>2, BalancedMoves DEF InCount, Pollers, SameStory
    <2> QED BY <2>3 DEF OnCounts
  <1>14. CASE KmsgUnavailable
    <2>1. /\ Moved("kmsg", "ended") /\ "kmsg" \in Threads
          /\ UNCHANGED <<source, errors, session, got, history>>
          /\ items'.count = items.count /\ items.gaps \subseteq items'.gaps
          /\ Where("kmsg") = "open"
      BY <1>14, KmsgUnavailableStep, PollersAreThreads DEF Goes, Threads
    <2>3. Balanced
      BY <2>1, BalancedMoves DEF InCount, Pollers, SameStory
    <2> QED BY <2>3 DEF OnCounts
  <1>15. CASE KmsgReads
    <2>1. /\ pos \in Nat /\ Where("kmsg") = "idle" /\ UNCHANGED <<source, errors, session, items, history>>
      BY <1>15, KmsgReadsStep
    <2>2. /\ history.total \in Nat /\ items.count \in Nat /\ errors \in Nat /\ Counted \in Nat
          /\ Processed \in Int /\ got["kmsg"] \in Nat
      BY CountsAreNat DEF TypeOK, Findings, Bounded, History
    <2>3. CASE Skips
      <3>1. Counted' = Counted /\ Processed' = Processed /\ (Unread => Unread')
        BY <2>1, <2>3 DEF Skips, Counted, Seen, Prev, Where, Processed, Unread
      <3>2. Balanced
        BY <2>1, <2>2, <3>1 DEF Balanced, SameStory
      <3> QED BY <3>2 DEF OnCounts
    <2>4. CASE Takes
      <3>1. /\ pos > got["kmsg"] /\ got'["kmsg"] = pos /\ Moved("kmsg", "process") /\ "kmsg" \in Threads
            /\ \A u \in Threads \ {"kmsg"} : got'[u] = got[u]
        BY <2>4 DEF Takes, Goes, Threads
      <3>2. \A u \in Pollers : got'[u] = got[u]
        BY <3>1 DEF Pollers, Threads
      <3>3. Counted' = Counted
        BY <2>1, <3>1, <3>2, CountedStays DEF Pollers
      <3>4. Where("kmsg")' = "process"
        BY <3>1 DEF Moved
      <3>5. Processed = got["kmsg"] /\ Processed' = pos - 1
        BY <2>1, <3>1, <3>4 DEF Processed
      <3>6. Processed' >= Processed /\ Processed' \in Int
        BY <2>1, <2>2, <3>1, <3>5
      <3>7. Unread => Unread'
        BY <2>1, <3>4 DEF Unread
      <3>8. Balanced
        BY <2>1, <2>2, <3>3, <3>6, <3>7 DEF Balanced, SameStory
      <3> QED BY <3>8 DEF OnCounts
    <2> QED BY <1>15, <2>3, <2>4, KmsgReadsStep
  <1>16. CASE KmsgOverrun
    <2>1. /\ Moved("kmsg", "idle") /\ "kmsg" \in Threads
          /\ UNCHANGED <<source, errors, session, got, history>>
          /\ items'.count = items.count /\ items.gaps \subseteq items'.gaps
          /\ Where("kmsg") = "idle"
      BY <1>16, KmsgOverrunStep, PollersAreThreads DEF Goes, Threads
    <2>3. Balanced
      BY <2>1, BalancedMoves DEF InCount, Pollers, SameStory
    <2> QED BY <2>3 DEF OnCounts
  <1>17. CASE KmsgProcesses
    <2>1. /\ up /\ Where("kmsg") = "process" /\ Moved("kmsg", IF source \in Polled THEN "idle" ELSE "check")
          /\ items'.count = IF source \notin Polled THEN items.count + 1
                            ELSE IF items.count = 0 THEN 1 ELSE items.count
          /\ items'.gaps = items.gaps /\ "kmsg" \in Threads
          /\ UNCHANGED <<source, errors, history, session, got>>
      BY <1>17, KmsgProcessesStep DEF Threads
    <2>2. Counted' = Counted
      BY <2>1, CountedStays DEF Pollers
    <2>3. Where("kmsg")' # "process"
      BY <2>1 DEF Moved
    <2>4. source \in KernelTold
      BY <2>1, SourceOfThread DEF Placed
    <2>5. Processes
      BY <2>1, <2>2, <2>3, <2>4 DEF Processes
    <2> QED BY <2>5 DEF OnCounts
  <1>18. CASE Check("kmsg")
    <2>1. /\ Moved("kmsg", "idle") /\ "kmsg" \in Threads
          /\ UNCHANGED <<source, errors, session, got, history>>
          /\ items'.count = items.count /\ items.gaps \subseteq items'.gaps
          /\ Where("kmsg") = "check"
      BY <1>18, CheckChecks, PollersAreThreads DEF Goes, Threads, Check
    <2>3. Balanced
      BY <2>1, BalancedMoves DEF InCount, Pollers, SameStory
    <2> QED BY <2>3 DEF OnCounts
  <1>19. CASE KmsgLogs
    <2>1. /\ Moved("kmsg", "acknowledge") /\ "kmsg" \in Threads
          /\ UNCHANGED <<source, errors, session, got, history>>
          /\ items'.count = items.count /\ items.gaps \subseteq items'.gaps
          /\ Where("kmsg") = "idle"
      BY <1>19, KmsgLogsStep, PollersAreThreads DEF Goes, Threads
    <2>3. Balanced
      BY <2>1, BalancedMoves DEF InCount, Pollers, SameStory
    <2> QED BY <2>3 DEF OnCounts
  <1>20. CASE KmsgAcknowledges
    <2>1. /\ session'.seq = got["kmsg"] /\ session'.cursor = session.cursor
          /\ Moved("kmsg", "idle") /\ "kmsg" \in Threads /\ Where("kmsg") = "acknowledge"
          /\ UNCHANGED <<source, errors, items, got, history>>
      BY <1>20, KmsgAcknowledgesStep DEF Goes, Threads
    <2>2. Counted' = Counted
      BY <2>1, CountedStays DEF Pollers
    <2>3. Where("kmsg")' = "idle"
      BY <2>1 DEF Moved
    <2>4. Processed' = Processed /\ (Unread => Unread')
      BY <2>1, <2>3 DEF Processed, Unread
    <2>5. history.total \in Nat /\ items.count \in Nat /\ errors \in Nat /\ Counted \in Nat /\ Processed \in Int
      BY CountsAreNat DEF TypeOK, Findings, Bounded, History
    <2>6. Balanced
      BY <2>1, <2>2, <2>4, <2>5 DEF Balanced, SameStory
    <2> QED BY <2>6 DEF OnCounts
  <1>21. ASSUME NEW t \in Threads, Snapshot(t) PROVE OnCounts
    <2>1. /\ Moved(t, Where(t)) /\ t \in Threads
          /\ UNCHANGED <<source, errors, session, got, history>>
          /\ items'.count = items.count /\ items.gaps \subseteq items'.gaps
      BY <1>21, SnapshotStep, PollersAreThreads DEF Goes, Threads, Snaps
    <2>3. Balanced
      BY <2>1, BalancedMoves DEF InCount, Pollers, SameStory
    <2> QED BY <2>3 DEF OnCounts
  <1>22. ASSUME NEW t \in Threads, Write(t) PROVE OnCounts
    <2>1. /\ Moved(t, Where(t)) /\ t \in Threads
          /\ UNCHANGED <<source, errors, session, got, history>>
          /\ items'.count = items.count /\ items.gaps \subseteq items'.gaps
      BY <1>22, WriteStep, PollersAreThreads DEF Goes, Threads
    <2>3. Balanced
      BY <2>1, BalancedMoves DEF InCount, Pollers, SameStory
    <2> QED BY <2>3 DEF OnCounts
  <1>23. ASSUME NEW t \in {"monitor", "kmsg"}, ThreadEnds(t) PROVE OnCounts
    <2>1. /\ Moved(t, "ended") /\ t \in Threads
          /\ UNCHANGED <<source, errors, session, got, history>>
          /\ items'.count = items.count /\ items.gaps \subseteq items'.gaps
          /\ Where(t) = "idle"
      BY <1>23, ThreadEndsStep, PollersAreThreads DEF Goes, Threads
    <2>3. Balanced
      BY <2>1, BalancedMoves DEF InCount, Pollers, SameStory
    <2> QED BY <2>3 DEF OnCounts
  <1>24. CASE Save
    <2>1. UNCHANGED <<source, errors, session, items, pc, then, got, history>>
      BY <1>24, SaveStep
    <2>2. Counted' = Counted /\ Processed' = Processed /\ (Unread => Unread')
      BY <2>1 DEF Counted, Seen, Prev, Where, Processed, Unread
    <2>3. history.total \in Nat /\ items.count \in Nat /\ errors \in Nat /\ Counted \in Nat /\ Processed \in Int
      BY CountsAreNat DEF TypeOK, Findings, Bounded, History
    <2>4. Balanced
      BY <2>1, <2>2, <2>3 DEF Balanced, SameStory
    <2> QED BY <2>4 DEF OnCounts
  <1>25. CASE HeartbeatFlush
    <2>1. /\ Moved("heartbeat", Where("heartbeat")) /\ "heartbeat" \in Threads
          /\ UNCHANGED <<source, errors, session, got, history>>
          /\ items'.count = items.count /\ items.gaps \subseteq items'.gaps
      BY <1>25, HeartbeatFlushStep, PollersAreThreads DEF Goes, Threads, Snaps
    <2>3. Balanced
      BY <2>1, BalancedMoves DEF InCount, Pollers, SameStory
    <2> QED BY <2>3 DEF OnCounts
  <1>26. CASE FinalSamples
    <2>1. /\ Moved("main", IF source \in Polled THEN "sample" ELSE "stop") /\ "main" \in Threads
          /\ UNCHANGED <<source, errors, session, got, history>>
          /\ items'.count = items.count /\ items.gaps \subseteq items'.gaps
          /\ Where("main") = "idle"
      BY <1>26, FinalSamplesStep, PollersAreThreads DEF Goes, Threads
    <2>3. Balanced
      BY <2>1, BalancedMoves DEF InCount, Pollers, SameStory
    <2> QED BY <2>3 DEF OnCounts
  <1>27. CASE StopMonitors
    <2>1. /\ Moved("main", "join") /\ "main" \in Threads
          /\ UNCHANGED <<source, errors, session, got, history>>
          /\ items'.count = items.count /\ items.gaps \subseteq items'.gaps
          /\ Where("main") = "stop"
      BY <1>27, StopMonitorsStep, PollersAreThreads DEF Goes, Threads
    <2>3. Balanced
      BY <2>1, BalancedMoves DEF InCount, Pollers, SameStory
    <2> QED BY <2>3 DEF OnCounts
  <1>28. CASE LastFlush
    <2>1. /\ Moved("main", "done") /\ "main" \in Threads
          /\ UNCHANGED <<source, errors, session, got>>
          /\ items'.count = items.count /\ items.gaps \subseteq items'.gaps
          /\ Where("main") = "join"
      BY <1>28, LastFlushStep, PollersAreThreads DEF Goes, Threads, Snaps
    <2>2. SameStory /\ history'.total = history.total
      BY <1>28, LastFlushStep DEF Bounded, History, SameStory
    <2>3. Balanced
      BY <2>1, <2>2, BalancedMoves DEF InCount, Pollers, SameStory
    <2> QED BY <2>3 DEF OnCounts
  <1>29. CASE UNCHANGED vars
    <2>1. UNCHANGED <<source, errors, session, items, pc, then, got, history>>
      BY <1>29 DEF vars
    <2>2. Counted' = Counted /\ Processed' = Processed /\ (Unread => Unread')
      BY <2>1 DEF Counted, Seen, Prev, Where, Processed, Unread
    <2>3. history.total \in Nat /\ items.count \in Nat /\ errors \in Nat /\ Counted \in Nat /\ Processed \in Int
      BY CountsAreNat DEF TypeOK, Findings, Bounded, History
    <2>4. Balanced
      BY <2>1, <2>2, <2>3 DEF Balanced, SameStory
    <2> QED BY <2>4 DEF OnCounts
  <1> QED BY <1>1, <1>2, <1>3, <1>4, <1>5, <1>6, <1>7, <1>8, <1>9, <1>10, <1>11, <1>12, <1>13,
             <1>14, <1>15, <1>16, <1>17, <1>18, <1>19, <1>20, <1>21, <1>22, <1>23, <1>24, <1>25,
             <1>26, <1>27, <1>28, <1>29
         DEF Next, Environment, Poll, Kmsg, Finalize, Over

-----------------------------------------------------------------------------
(* The counts *)

\* What a restart leaves of the cursors and of the counts.
LEMMA StopsKeepLess ==
    ASSUME TypeOK, Placed, Bounded, Die \/ Reset
    PROVE  /\ Stops
           /\ Counted' = Prev' /\ Prev' \in Nat /\ Prev' <= Prev /\ Processed' = 0
           /\ session'.seq \in Nat /\ session'.seq <= session.seq /\ got'["kmsg"] = 0
           /\ Where("kmsg")' = "idle" /\ (history'.died \/ history'.reset)
           /\ ~history'.torn => ~history.torn /\ ~Flushing
           /\ history'.total = history.total /\ history'.earlier \in Nat
           /\ history'.earlier + Prev' + session'.seq <= history.earlier + Prev + session.seq
  <1>1. Stops
    BY DieStep, ResetStep
  <1>2. /\ Where("monitor")' = "idle" /\ Where("main")' = "idle" /\ Where("kmsg")' = "idle"
        /\ got'["kmsg"] = 0
    BY <1>1 DEF Stops, Threads
  <1>3. Counted' = Prev' /\ Processed' = 0
    BY <1>2 DEF Counted, Processed
  <1> DEFINE kept == IF stored.cursor = Absent THEN 0 ELSE stored.cursor
  <1>4. /\ Prev \in Nat /\ kept \in Nat /\ kept <= Prev
        /\ stored.seq \in Nat /\ session.seq \in Nat /\ stored.seq <= session.seq
        /\ history.earlier \in Nat
    BY DEF TypeOK, Prev, Absent, Bounded, History
  <1>5. CASE Die
    <2>1. session' = stored /\ history' = [history EXCEPT !.died = TRUE, !.torn = @ \/ Flushing]
      BY <1>5, DieStep
    <2>2. /\ history'.died /\ history'.total = history.total /\ history'.earlier = history.earlier
          /\ history'.torn = (history.torn \/ Flushing)
      BY <2>1 DEF Bounded, History
    <2>3. Prev' = kept
      BY <2>1 DEF Prev
    <2>4. ~history'.torn => ~history.torn /\ ~Flushing
      BY <2>2
    <2> HIDE DEF kept
    <2>5. history'.earlier + Prev' + session'.seq <= history.earlier + Prev + session.seq
      BY <1>4, <2>1, <2>2, <2>3
    <2> QED BY <1>1, <1>2, <1>3, <1>4, <2>1, <2>2, <2>3, <2>4, <2>5
  <1>6. CASE Reset
    <2>1. /\ session' = stored'
          /\ \/ source = "sel" /\ stored' = stored
             \/ source # "sel" /\ stored' = NoCursors
      BY <1>6, ResetStep
    <2>2. history' = [history EXCEPT
                 !.reset = TRUE, !.torn = @ \/ Flushing, !.unseen = {},
                 !.earlier = IF source = "sel" THEN @ ELSE @ + kept + stored.seq]
      BY <1>6, ResetStep
    <2>3. /\ history'.reset /\ history'.total = history.total
          /\ history'.torn = (history.torn \/ Flushing)
          /\ history'.earlier = IF source = "sel" THEN history.earlier
                                ELSE history.earlier + kept + stored.seq
      BY <2>2 DEF Bounded, History
    <2>6. ~history'.torn => ~history.torn /\ ~Flushing
      BY <2>3
    <2>4. CASE source = "sel"
      <3>1. session' = stored /\ Prev' = kept
        BY <2>1, <2>4 DEF Prev
      <3> HIDE DEF kept
      <3>2. history'.earlier + Prev' + session'.seq <= history.earlier + Prev + session.seq
        BY <1>4, <2>3, <2>4, <3>1
      <3> QED BY <1>1, <1>2, <1>3, <1>4, <2>3, <2>4, <2>6, <3>1, <3>2
    <2>5. CASE source # "sel"
      <3>1. session'.seq = 0 /\ Prev' = 0
        BY <2>1, <2>5 DEF Prev, NoCursors
      <3> HIDE DEF kept
      <3>3. history'.earlier = history.earlier + kept + stored.seq /\ history'.earlier \in Nat
        BY <1>4, <2>3, <2>5
      <3>2. history'.earlier + Prev' + session'.seq <= history.earlier + Prev + session.seq
        BY <1>4, <3>1, <3>3
      <3> QED BY <1>1, <1>2, <1>3, <1>4, <2>3, <2>6, <3>1, <3>2, <3>3
    <2> QED BY <2>4, <2>5
  <1> QED BY <1>5, <1>6

\* Where no monitor polls, nothing is counted by one, now and after a step.
LEMMA NotPolledNotCounted ==
    /\ Placed /\ source \notin Polled => Counted = 0
    /\ (Placed /\ source \notin Polled => Counted = 0)'
  <1>1. Placed /\ source \notin Polled => Counted = 0
    <2> SUFFICES ASSUME Placed, source \notin Polled PROVE Counted = 0
      OBVIOUS
    <2>1. Where("monitor") \notin InCount /\ Where("main") \notin InCount
      <3>1. CASE up
        BY <3>1 DEF Placed, Bystanders, InCount, Polling
      <3>2. CASE ~up
        BY <3>2 DEF Placed, Bystanders, InCount, Idle, Where, Threads
      <3> QED BY <3>1, <3>2
    <2> QED BY <2>1 DEF Placed, Bystanders, Counted, Prev, InCount
  <1> QED BY <1>1, PTL

LEMMA NotMoreKept ==
    ASSUME TypeOK, Placed, Bounded, Ahead, NotMore, [Next]_vars
    PROVE  NotMore'
  <1> DEFINE Told == IF source \in Polled THEN Counted ELSE Processed
             Lost == history.total - errors
  <1>1. TypeOK' /\ Placed' /\ Bounded'
    BY TypesKept, PlacedKept, BoundedKept
  <1>2. /\ items.count \in Nat /\ items'.count \in Nat /\ Extra \in 0..1
        /\ Counted \in Nat /\ Processed \in Int /\ Lost \in Nat /\ Counted <= errors /\ errors \in Nat
    BY <1>1, CountsAreNat DEF TypeOK, Findings, Extra, Bounded, History
  <1>3. SUFFICES ASSUME ~history'.died, source' = "sel" => ~history'.reset
                 PROVE  items'.count <= Lost' + Extra' + Told'
    BY DEF NotMore
  <1>4. CASE Die
    <2>1. history'.died
      BY <1>4, DieStep DEF Bounded, History
    <2> QED BY <1>3, <2>1
  <1>5. CASE Reset
    <2>1. Stops /\ Counted' \in Nat /\ Processed' = 0 /\ history'.total = history.total
      BY <1>5, StopsKeepLess
    <2>2. /\ history' = [history EXCEPT
                 !.reset = TRUE, !.torn = @ \/ Flushing, !.unseen = {},
                 !.earlier = IF source = "sel" THEN @
                             ELSE @ + (IF stored.cursor = Absent THEN 0 ELSE stored.cursor)
                                    + stored.seq]
          /\ \/ source = "sel"
             \/ source # "sel" /\ errors' = 0
      BY <1>5, ResetStep
    <2>3. history'.reset /\ history'.died = history.died /\ source' = source
      BY <2>1, <2>2 DEF Bounded, History, Stops
    <2>4. source # "sel" /\ errors' = 0 /\ ~history.died
      BY <1>3, <2>2, <2>3
    <2>5. items.count <= Lost + Extra + Told
      BY <2>4 DEF NotMore
    <2>6. Processed <= errors
      BY CountsAreNat DEF Processed, Threads
    <2>7. items'.count <= items.count
      BY <2>1 DEF Stops, Ahead, Behind
    <2>8. Extra' = Extra /\ Lost' = history.total /\ history.total \in Nat /\ Told' \in Nat
      BY <2>1, <2>3, <2>4 DEF Extra, Bounded, History
    <2>9. Told <= errors /\ Told \in Int
      BY <1>2, <2>6
    <2>10. items'.count \in Nat /\ Extra \in Nat /\ Lost = history.total - errors
      BY <1>2
    <2> HIDE DEF Told, Lost
    <2> QED BY <1>2, <2>5, <2>7, <2>8, <2>9, <2>10
  <1>6. CASE Processes
    <2>1. /\ Lost' = Lost /\ Extra' = Extra /\ source' = source /\ history' = history /\ Counted' = Counted
      BY <1>6 DEF Processes, Extra
    <2>2. items.count <= Lost + Extra + Told
      BY <1>3, <2>1 DEF NotMore
    <2>3. CASE source \in Polled
      <3>1. Extra = 1 /\ items'.count = IF items.count = 0 THEN 1 ELSE items.count
        BY <1>6, <2>3 DEF Processes, Extra
      <3> QED BY <1>2, <2>1, <2>2, <2>3, <3>1
    <2>4. CASE source \notin Polled
      <3>1. items'.count = items.count + 1 /\ Processed' = Processed + 1
        <4>1. /\ items'.count = items.count + 1 /\ got'["kmsg"] = got["kmsg"]
              /\ Where("kmsg") = "process" /\ Where("kmsg")' # "process"
          BY <1>6, <2>4 DEF Processes
        <4>2. got["kmsg"] \in Nat
          BY CountsAreNat
        <4> QED BY <4>1, <4>2 DEF Processed
      <3> QED BY <1>2, <2>1, <2>2, <2>4, <3>1
    <2> QED BY <2>3, <2>4
  <1>7. CASE TakesBaseline
    <2>1. PICK t \in Pollers : Baselines(t)
      BY <1>7 DEF TakesBaseline
    <2>2. source \in Polled /\ history'.total = history.total /\ history'.died = history.died
          /\ history'.reset = history.reset /\ source' = source /\ errors' = errors /\ items' = items
          /\ Counted = 0 /\ Counted' = errors
      BY <1>7, <2>1 DEF TakesBaseline, Baselines, Bounded, History, Polled, Baselined
    <2>3. items.count <= Lost + Extra + Told /\ Extra' = Extra
      BY <1>3, <2>2 DEF NotMore, Extra
    <2> QED BY <1>2, <2>2, <2>3
  <1>8. CASE Balanced
    <2>1. /\ Counted' \in Nat /\ Counted' >= Counted /\ items'.count + Counted = items.count + Counted'
          /\ Processed' >= Processed /\ Processed' \in Int
          /\ source' = source /\ SameStory
          /\ history'.total + errors = history.total + errors'
      BY <1>8 DEF Balanced
    <2>2. items.count <= Lost + Extra + Told /\ Extra' = Extra
      BY <1>3, <2>1 DEF NotMore, Extra, SameStory
    <2>3. Lost' = Lost
      BY <1>1, <2>1 DEF TypeOK, Bounded, History
    <2>4. CASE source \in Polled
      BY <1>2, <2>1, <2>2, <2>3, <2>4
    <2>5. CASE source \notin Polled
      <3>1. Counted = 0 /\ Counted' = 0
        BY <1>1, <2>1, <2>5, NotPolledNotCounted
      <3> QED BY <1>2, <2>1, <2>2, <2>3, <2>5, <3>1
    <2> QED BY <2>4, <2>5
  <1> QED BY <1>4, <1>5, <1>6, <1>7, <1>8, StepsOnCounts DEF OnCounts

LEMMA NotLessKept ==
    ASSUME TypeOK, Placed, Bounded, Ahead, Arrives, NotLess, [Next]_vars
    PROVE  NotLess'
  <1>1. TypeOK' /\ Placed' /\ Bounded'
    BY TypesKept, PlacedKept, BoundedKept
  <1>2. /\ items.count \in Nat /\ items'.count \in Nat /\ history.base \in Nat /\ history.earlier \in Nat
        /\ Prev \in Nat /\ Counted \in Nat /\ Prev <= Counted /\ session.seq \in Nat
    BY <1>1, CountsAreNat DEF TypeOK, Findings, Bounded, History, Cursors
  <1>3. CASE Die \/ Reset
    <2>1. history'.died \/ history'.reset
      BY <1>3, StopsKeepLess
    <2>2. ASSUME ~history'.torn, source' = "ue" PROVE items'.count >= history'.earlier + Counted'
      <3>1. /\ Stops /\ ~history.torn /\ ~Flushing /\ Counted' = Prev' /\ session'.seq \in Nat
            /\ history'.earlier + Prev' + session'.seq <= history.earlier + Prev + session.seq
            /\ history'.earlier \in Nat /\ Prev' \in Nat
        BY <1>3, <2>2, StopsKeepLess
      <3>2. source = "ue" /\ items' = saved
        BY <2>2, <3>1 DEF Stops
      <3>3. session.seq = 0
        BY <3>2 DEF Placed, Bystanders, KernelTold
      <3>4. items.count >= history.earlier + Counted
        BY <3>1, <3>2 DEF NotLess
      <3>5. items'.count >= items.count
        BY <3>1, <3>2, AllWritten
      <3> QED BY <1>2, <3>1, <3>3, <3>4, <3>5
    <2> QED BY <2>1, <2>2 DEF NotLess
  <1>4. CASE Processes
    <2>1. items'.count >= items.count
      BY <1>2, <1>4 DEF Processes
    <2>2. UNCHANGED <<source, history, session>> /\ Counted' = Counted
      BY <1>4 DEF Processes
    <2> QED BY <1>2, <2>1, <2>2 DEF NotLess
  <1>5. CASE TakesBaseline
    <2>1. PICK t \in Pollers : Baselines(t)
      BY <1>5 DEF TakesBaseline
    <2>2. /\ history'.base = errors /\ Counted' = errors /\ source' = source /\ source # "ue"
          /\ session'.cursor = errors /\ errors \in Nat
      BY <1>5, <2>1 DEF TakesBaseline, Baselines, Bounded, History, Baselined, TypeOK
    <2>3. session'.cursor # Absent
      BY <2>2 DEF Absent
    <2> QED BY <1>2, <2>2, <2>3 DEF NotLess
  <1>6. CASE Balanced
    <2>1. /\ Counted' \in Nat /\ items'.count + Counted = items.count + Counted'
          /\ source' = source /\ SameStory /\ (session'.cursor = Absent => session.cursor = Absent)
      BY <1>6 DEF Balanced
    <2> QED BY <1>2, <2>1 DEF NotLess, SameStory
  <1> QED BY <1>3, <1>4, <1>5, <1>6, StepsOnCounts DEF OnCounts

LEMMA EvidentKept ==
    ASSUME TypeOK, Placed, Bounded, Ahead, Arrives, Evident, [Next]_vars
    PROVE  Evident'
  <1>1. TypeOK' /\ Placed' /\ Bounded'
    BY TypesKept, PlacedKept, BoundedKept
  <1>2. /\ items.count \in Nat /\ items'.count \in Nat /\ history.earlier \in Nat
        /\ Prev \in Nat /\ Counted \in Nat /\ Prev <= Counted /\ session.seq \in Nat
    BY <1>1, CountsAreNat DEF TypeOK, Findings, Bounded, History, Cursors
  <1>3. SUFFICES ASSUME ~history'.torn, source' \notin Baselined, items'.count = 0
                 PROVE  history'.earlier = 0 /\ Counted' = 0 /\ Unread'
    BY DEF Evident, Unread
  <1>4. CASE Die \/ Reset
    <2>1. /\ Stops /\ ~history.torn /\ ~Flushing /\ Counted' = Prev' /\ session'.seq \in Nat
          /\ history'.earlier + Prev' + session'.seq <= history.earlier + Prev + session.seq
          /\ history'.earlier \in Nat /\ Prev' \in Nat
          /\ got'["kmsg"] = 0
      BY <1>3, <1>4, StopsKeepLess
    <2>2. source' = source /\ items' = saved
      BY <2>1 DEF Stops
    <2>3. items.count = 0
      BY <1>2, <1>3, <2>1, <2>2, AllWritten
    <2>4. history.earlier = 0 /\ Counted = 0 /\ session.seq = 0
      BY <1>3, <2>1, <2>2, <2>3 DEF Evident
    <2>5. Prev = 0
      BY <1>2, <2>4
    <2>6. history'.earlier = 0 /\ Prev' = 0 /\ session'.seq = 0
      BY <2>1, <2>4, <2>5
    <2> QED BY <2>1, <2>6 DEF Unread
  <1>5. CASE Processes
    <2>1. items'.count > 0
      BY <1>2, <1>5 DEF Processes
    <2> QED BY <1>3, <2>1
  <1>6. CASE TakesBaseline
    BY <1>3, <1>6 DEF TakesBaseline, Baselines
  <1>7. CASE Balanced
    <2>1. /\ Counted' \in Nat /\ Counted' >= Counted /\ items'.count + Counted = items.count + Counted'
          /\ source' = source /\ SameStory /\ (Unread => Unread')
      BY <1>7 DEF Balanced
    <2>2. items.count = 0 /\ Counted' = Counted
      <3>1. \A m, n, k \in Nat : n >= m /\ m = k + n => k = 0 /\ n = m
        OBVIOUS
      <3>2. 0 + Counted = items.count + Counted'
        BY <1>3, <2>1
      <3>3. Counted = items.count + Counted'
        BY <1>2, <3>2
      <3> QED BY <1>2, <2>1, <3>1, <3>3
    <2>3. history.earlier = 0 /\ Counted = 0 /\ Unread
      BY <1>3, <2>1, <2>2 DEF Evident, Unread, SameStory
    <2> QED BY <2>1, <2>2, <2>3 DEF SameStory
  <1> QED BY <1>4, <1>5, <1>6, <1>7, StepsOnCounts DEF OnCounts

-----------------------------------------------------------------------------
(* The baselines *)

LEMMA BaselineFirstMoves ==
    ASSUME BaselineFirst, NEW t \in Threads, NEW b, Moved(t, b),
           UNCHANGED <<source, stored>>, session'.cursor = session.cursor,
           source = "sel" /\ items'.count > 0 => items.count > 0 \/ stored.cursor # Absent,
           t \in Pollers /\ source \in Baselined /\ b \in {"add", "check", "advance"} =>
               session.cursor # Absent,
           t \in Pollers /\ Where(t) = "saves" => b = "saves"
    PROVE  BaselineFirst'
  <1>1. Where(t)' = b /\ \A u \in Threads \ {t} : Where(u)' = Where(u)
    BY DEF Moved
  <1>2. \A u \in Pollers : Where(u)' = IF u = t THEN b ELSE Where(u)
    BY <1>1, PollersAreThreads
  <1> QED BY <1>2 DEF BaselineFirst

LEMMA BaselineFirstKept ==
    ASSUME TypeOK, Placed, Bounded, Ahead, BaselineFirst, [Next]_vars
    PROVE  BaselineFirst'
  <1>1. CASE HardwareError
    BY <1>1, HardwareErrorStep DEF BaselineFirst, Where
  <1>2. CASE Die
    <2>1. Stops /\ session' = stored /\ stored' = stored
      BY <1>2, DieStep
    <2>2. /\ source' = source /\ (items'.count > 0 => items.count > 0)
          /\ \A t \in Pollers : Where(t)' = "idle"
      BY <2>1, PollersAreThreads DEF Stops, Ahead, Behind, TypeOK, Findings
    <2> QED BY <2>1, <2>2 DEF BaselineFirst
  <1>3. CASE Reset
    <2>1. Stops /\ session' = stored' /\ (source = "sel" => stored' = stored)
      BY <1>3, ResetStep
    <2>2. /\ source' = source /\ (items'.count > 0 => items.count > 0)
          /\ \A t \in Pollers : Where(t)' = "idle"
      BY <2>1, PollersAreThreads DEF Stops, Ahead, Behind, TypeOK, Findings
    <2> QED BY <2>1, <2>2 DEF BaselineFirst
  <1>4. CASE Start
    BY <1>4, StartStep, AtRest DEF BaselineFirst
  <1>5. ASSUME NEW t \in Pollers, BeginPoll(t) PROVE BaselineFirst'
    <2>1. /\ Moved(t, "read") /\ t \in Threads /\ UNCHANGED <<source, session, stored>>
          /\ items'.count = items.count /\ Where(t) # "saves"
      BY <1>5, BeginPollStep, PollersAreThreads DEF Goes, Threads
    <2> QED BY <2>1, BaselineFirstMoves
  <1>6. ASSUME NEW t \in Pollers, Raise(t) PROVE BaselineFirst'
    <2>1. /\ Moved(t, "leave") /\ t \in Threads /\ UNCHANGED <<source, session, stored>>
          /\ items'.count = items.count /\ Where(t) # "saves"
      BY <1>6, RaiseStep, PollersAreThreads DEF Goes, Threads
    <2> QED BY <2>1, BaselineFirstMoves
  <1>7. ASSUME NEW t \in Pollers, Read(t) PROVE BaselineFirst'
    <2>1. /\ UNCHANGED <<source, stored, items>> /\ t \in Threads /\ errors \in Nat
      BY <1>7, ReadStep, PollersAreThreads DEF TypeOK
    <2>2. CASE Compares(t)
      <3>1. /\ Moved(t, IF errors > Prev THEN "add" ELSE "advance") /\ session' = session
            /\ (source \in Baselined => session.cursor # Absent) /\ Where(t) = "read"
        BY <2>2 DEF Compares, Goes
      <3> QED BY <2>1, <3>1, BaselineFirstMoves
    <2>3. CASE Baselines(t)
      <3>1. /\ Moved(t, IF source = "sel" THEN "saves" ELSE "leave") /\ session'.cursor = errors
            /\ Where(t) = "read" /\ session.cursor = Absent
        BY <2>3 DEF Baselines, Goes
      <3>2. \A u \in Pollers \ {t} : Where(u) \notin Polling /\ Where(u)' = Where(u)
        BY <3>1, OnePolls, PollersAreThreads DEF Polling, Moved
      <3>3. Where(t)' = IF source = "sel" THEN "saves" ELSE "leave"
        BY <3>1 DEF Moved
      <3>4. session'.cursor # Absent
        BY <2>1, <3>1 DEF Absent
      <3> QED BY <2>1, <3>2, <3>3, <3>4 DEF BaselineFirst, Polling
    <2> QED BY <1>7, <2>2, <2>3, ReadStep
  <1>8. ASSUME NEW t \in Pollers, Add(t) PROVE BaselineFirst'
    <2>1. /\ Moved(t, "check") /\ t \in Threads /\ UNCHANGED <<source, session, stored>>
          /\ Where(t) = "add"
      BY <1>8, AddStep, PollersAreThreads
    <2>2. source \in Baselined => session.cursor # Absent
      BY <2>1 DEF BaselineFirst
    <2>3. \A u \in Pollers : Where(u) # "saves"
      BY <2>1, OnePolls DEF Polling
    <2>4. source = "sel" => stored.cursor # Absent
      BY <2>2, <2>3 DEF BaselineFirst, Baselined
    <2> QED BY <2>1, <2>2, <2>4, BaselineFirstMoves
  <1>9. ASSUME NEW t \in Pollers, Check(t) PROVE BaselineFirst'
    <2>1. /\ Moved(t, "advance") /\ t \in Threads /\ UNCHANGED <<source, session, stored>>
          /\ items'.count = items.count /\ Where(t) = "check"
      BY <1>9, CheckChecks, PollersAreThreads DEF Check, Pollers
    <2>2. source \in Baselined => session.cursor # Absent
      BY <2>1 DEF BaselineFirst
    <2> QED BY <2>1, <2>2, BaselineFirstMoves
  <1>10. ASSUME NEW t \in Pollers, Advance(t) PROVE BaselineFirst'
    <2>1. /\ session'.cursor = Seen(t) /\ Seen(t) \in Nat /\ Where(t) = "advance"
          /\ UNCHANGED <<source, stored, items>>
      BY <1>10, AdvanceStep DEF Goes
    <2>2. session'.cursor # Absent
      BY <2>1 DEF Absent
    <2>3. \A u \in Pollers : Where(u) # "saves"
      BY <2>1, OnePolls DEF Polling
    <2>4. source = "sel" => stored.cursor # Absent
      BY <2>1, <2>3 DEF BaselineFirst, Baselined
    <2> QED BY <2>1, <2>2, <2>4 DEF BaselineFirst
  <1>11. ASSUME NEW t \in Pollers, SaveCursor(t) PROVE BaselineFirst'
    <2>1. /\ Goes(t, "saves", "leave") /\ stored' = session /\ UNCHANGED <<source, items, session>>
      BY <1>11, SaveCursorStep
    <2>2. items.count > 0 /\ source = "sel" => session.cursor # Absent
      <3>1. stored.cursor <= session.cursor /\ stored.cursor \in Int /\ stored.cursor >= Absent
        BY DEF Bounded, TypeOK, Cursors, Absent
      <3>2. stored.cursor # Absent => session.cursor # Absent
        BY <3>1 DEF Absent
      <3> QED BY <3>2 DEF BaselineFirst
    <2>3. \A u \in Pollers : Where(u)' \notin {"add", "check", "advance"}
      <3>1. \A u \in Pollers \ {t} : Where(u)' = Where(u) /\ Where(u) \notin Polling
        BY <2>1, OnePolls, PollersAreThreads DEF Goes, Moved, Polling
      <3>2. Where(t)' = "leave"
        BY <2>1 DEF Goes, Moved
      <3> QED BY <3>1, <3>2 DEF Polling
    <2> QED BY <2>1, <2>2, <2>3 DEF BaselineFirst
  <1>12. ASSUME NEW t \in Pollers, Leave(t) PROVE BaselineFirst'
    <2>1. /\ Moved(t, IF t = "main" THEN "stop" ELSE "idle") /\ t \in Threads /\ UNCHANGED <<source, session, stored>>
          /\ items'.count = items.count /\ Where(t) # "saves"
      BY <1>12, LeaveStep, PollersAreThreads DEF Goes, Threads
    <2> QED BY <2>1, BaselineFirstMoves
  <1>13. CASE KmsgOpens
    <2>1. /\ Moved("kmsg", "idle") /\ "kmsg" \in Threads /\ UNCHANGED <<source, session, stored>>
          /\ items'.count = items.count /\ Where("kmsg") # "saves"
      BY <1>13, KmsgOpensStep, PollersAreThreads DEF Goes, Threads
    <2> QED BY <2>1, BaselineFirstMoves
  <1>14. CASE KmsgUnavailable
    <2>1. /\ Moved("kmsg", "ended") /\ "kmsg" \in Threads /\ UNCHANGED <<source, session, stored>>
          /\ items'.count = items.count /\ Where("kmsg") # "saves"
      BY <1>14, KmsgUnavailableStep, PollersAreThreads DEF Goes, Threads
    <2> QED BY <2>1, BaselineFirstMoves
  <1>15. CASE KmsgReads
    <2>1. UNCHANGED <<source, session, stored, items>>
      BY <1>15, KmsgReadsStep
    <2>2. CASE Skips
      BY <2>1, <2>2 DEF Skips, BaselineFirst, Where
    <2>3. CASE Takes
      BY <2>1, <2>3, BaselineFirstMoves, AtRest DEF Takes, Goes
    <2> QED BY <1>15, <2>2, <2>3, KmsgReadsStep
  <1>16. CASE KmsgOverrun
    <2>1. /\ Moved("kmsg", "idle") /\ "kmsg" \in Threads /\ UNCHANGED <<source, session, stored>>
          /\ items'.count = items.count /\ Where("kmsg") # "saves"
      BY <1>16, KmsgOverrunStep, PollersAreThreads DEF Goes, Threads
    <2> QED BY <2>1, BaselineFirstMoves
  <1>17. CASE KmsgProcesses
    <2>1. /\ Moved("kmsg", IF source \in Polled THEN "idle" ELSE "check") /\ "kmsg" \in Threads
          /\ UNCHANGED <<source, session, stored>> /\ up /\ Where("kmsg") = "process"
      BY <1>17, KmsgProcessesStep DEF Threads
    <2>2. source # "sel"
      BY <2>1, SourceOfThread DEF Placed, KernelTold
    <2> QED BY <2>1, <2>2, BaselineFirstMoves DEF Pollers
  <1>18. CASE Check("kmsg")
    <2>1. /\ Moved("kmsg", "idle") /\ "kmsg" \in Threads /\ UNCHANGED <<source, session, stored>>
          /\ items'.count = items.count
      BY <1>18, CheckChecks DEF Threads, Check
    <2> QED BY <2>1, BaselineFirstMoves DEF Pollers
  <1>19. CASE KmsgLogs
    <2>1. /\ Moved("kmsg", "acknowledge") /\ "kmsg" \in Threads /\ UNCHANGED <<source, session, stored>>
          /\ items'.count = items.count /\ Where("kmsg") # "saves"
      BY <1>19, KmsgLogsStep, PollersAreThreads DEF Goes, Threads
    <2> QED BY <2>1, BaselineFirstMoves
  <1>20. CASE KmsgAcknowledges
    <2>1. /\ Moved("kmsg", "idle") /\ "kmsg" \in Threads /\ UNCHANGED <<source, stored, items>>
          /\ session'.cursor = session.cursor
      BY <1>20, KmsgAcknowledgesStep DEF Goes, Threads
    <2> QED BY <2>1, BaselineFirstMoves DEF Pollers
  <1>21. ASSUME NEW t \in Threads, Snapshot(t) PROVE BaselineFirst'
    <2>1. /\ Moved(t, Where(t)) /\ t \in Threads /\ UNCHANGED <<source, session, stored>>
          /\ items'.count = items.count
      BY <1>21, SnapshotStep DEF Snaps, Threads
    <2>2. t \in Pollers /\ source \in Baselined /\ Where(t) \in {"add", "check", "advance"} =>
             session.cursor # Absent
      BY DEF BaselineFirst
    <2> QED BY <2>1, <2>2, BaselineFirstMoves
  <1>22. ASSUME NEW t \in Threads, Write(t) PROVE BaselineFirst'
    <2>1. /\ Moved(t, Where(t)) /\ t \in Threads /\ UNCHANGED <<source, session, stored>>
          /\ items'.count = items.count
      BY <1>22, WriteStep DEF Snaps, Threads
    <2>2. t \in Pollers /\ source \in Baselined /\ Where(t) \in {"add", "check", "advance"} =>
             session.cursor # Absent
      BY DEF BaselineFirst
    <2> QED BY <2>1, <2>2, BaselineFirstMoves
  <1>23. ASSUME NEW t \in {"monitor", "kmsg"}, ThreadEnds(t) PROVE BaselineFirst'
    <2>1. /\ Moved(t, "ended") /\ t \in Threads /\ UNCHANGED <<source, session, stored>>
          /\ items'.count = items.count /\ Where(t) # "saves"
      BY <1>23, ThreadEndsStep, PollersAreThreads DEF Goes, Threads
    <2> QED BY <2>1, BaselineFirstMoves
  <1>24. CASE Save
    <2>1. stored' = session /\ UNCHANGED <<source, items, session, pc, then>>
      BY <1>24, SaveStep
    <2>2. items.count > 0 /\ source = "sel" => session.cursor # Absent
      <3>1. stored.cursor <= session.cursor /\ stored.cursor \in Int /\ stored.cursor >= Absent
        BY DEF Bounded, TypeOK, Cursors, Absent
      <3>2. stored.cursor # Absent => session.cursor # Absent
        BY <3>1 DEF Absent
      <3> QED BY <3>2 DEF BaselineFirst
    <2> QED BY <2>1, <2>2 DEF BaselineFirst, Where
  <1>25. CASE HeartbeatFlush
    <2>1. /\ Moved("heartbeat", Where("heartbeat")) /\ "heartbeat" \in Threads /\ UNCHANGED <<source, session, stored>>
          /\ items'.count = items.count
      BY <1>25, HeartbeatFlushStep DEF Snaps, Threads
    <2>2. "heartbeat" \in Pollers /\ source \in Baselined /\ Where("heartbeat") \in {"add", "check", "advance"} =>
             session.cursor # Absent
      BY DEF BaselineFirst
    <2> QED BY <2>1, <2>2, BaselineFirstMoves
  <1>26. CASE FinalSamples
    <2>1. /\ Moved("main", IF source \in Polled THEN "sample" ELSE "stop") /\ "main" \in Threads /\ UNCHANGED <<source, session, stored>>
          /\ items'.count = items.count /\ Where("main") # "saves"
      BY <1>26, FinalSamplesStep, PollersAreThreads DEF Goes, Threads
    <2> QED BY <2>1, BaselineFirstMoves
  <1>27. CASE StopMonitors
    <2>1. /\ Moved("main", "join") /\ "main" \in Threads /\ UNCHANGED <<source, session, stored>>
          /\ items'.count = items.count /\ Where("main") # "saves"
      BY <1>27, StopMonitorsStep, PollersAreThreads DEF Goes, Threads
    <2> QED BY <2>1, BaselineFirstMoves
  <1>28. CASE LastFlush
    <2>1. /\ Moved("main", "done") /\ "main" \in Threads /\ UNCHANGED <<source, session, stored>>
          /\ items'.count = items.count /\ Where("main") # "saves"
      BY <1>28, LastFlushStep, PollersAreThreads DEF Goes, Threads, Snaps
    <2> QED BY <2>1, BaselineFirstMoves
  <1>29. CASE UNCHANGED vars
    BY <1>29 DEF BaselineFirst, Where, vars
  <1> QED BY <1>1, <1>2, <1>3, <1>4, <1>5, <1>6, <1>7, <1>8, <1>9, <1>10, <1>11, <1>12, <1>13,
             <1>14, <1>15, <1>16, <1>17, <1>18, <1>19, <1>20, <1>21, <1>22, <1>23, <1>24, <1>25,
             <1>26, <1>27, <1>28, <1>29
         DEF Next, Environment, Poll, Kmsg, Finalize, Over


-----------------------------------------------------------------------------
(* The final sample *)

\* But for a restart, findings only grow.
Grows ==
    /\ items.count <= items'.count /\ items.rank <= items'.rank /\ items.gaps \subseteq items'.gaps
    /\ saved.count <= saved'.count /\ saved.rank <= saved'.rank /\ saved.gaps \subseteq saved'.gaps

LEMMA FindingsGrow ==
    ASSUME TypeOK, Placed, Bounded, [Next]_vars
    PROVE  Stops \/ Grows
  <1>1. items \in Findings /\ saved \in Findings /\ \A t \in Threads : snap[t] \in Findings
    BY DEF TypeOK
  <1>2. CASE Silent
    BY <1>1, <1>2 DEF Silent, Grows, Findings
  <1>3. ASSUME NEW t \in Threads, Finds(t) PROVE Grows
    BY <1>1, <1>3 DEF Finds, Grows, Findings
  <1>4. ASSUME NEW t \in Threads, Copies(t) PROVE Grows
    BY <1>1, <1>4 DEF Copies, Snaps, Grows, Findings
  <1>5. ASSUME NEW t \in Threads, Skipped(t) PROVE Grows
    BY <1>1, <1>5 DEF Skipped, Grows, Findings
  <1>6. ASSUME NEW t \in Threads, Writes(t) PROVE Grows
    BY <1>1, <1>6 DEF Writes, Grows, Findings
  <1> QED BY <1>2, <1>3, <1>4, <1>5, <1>6, StepsOnFindings DEF OnFindings

\* A step of another thread than main.
LEMMA SampledElsewhere ==
    ASSUME TypeOK, Bounded, Sampled, Grows, items' \in Findings, saved' \in Findings,
           pc'["main"] = pc["main"], Where("main")' = Where("main"),
           snap'["main"] = snap["main"], got'["main"] = got["main"],
           history'.sampled = history.sampled, history'.base \in Nat,
           ~history'.died /\ ~history'.reset =>
               ~history.died /\ ~history.reset /\ history.base <= history'.base
    PROVE  Sampled'
  <1>1. /\ items.count \in Nat /\ items'.count \in Nat /\ saved.count \in Nat /\ saved'.count \in Nat
        /\ snap["main"].count \in Nat /\ got["main"] \in Nat
        /\ history.base \in Nat /\ history.sampled \in Nat
    BY DEF TypeOK, Findings, Bounded, History, Threads
  <1>2. items'.gaps = {} => items.gaps = {}
    BY DEF Grows
  <1>3. saved'.gaps = {} => saved.gaps = {}
    BY DEF Grows
  <1>4. items.count <= items'.count /\ saved.count <= saved'.count
    BY DEF Grows
  <1> SUFFICES ASSUME ~history'.died, ~history'.reset
               PROVE  /\ Where("main")' \in {"saves", "leave"} /\ items'.gaps = {} =>
                            items'.count >= got'["main"] - history'.base
                      /\ Where("main")' \in {"stop", "join"} /\ items'.gaps = {} =>
                            items'.count >= history'.sampled - history'.base
                      /\ Where("main")' = "done" /\ Writing("main")' /\ snap'["main"].gaps = {} =>
                            snap'["main"].count >= history'.sampled - history'.base
                      /\ pc'["main"] = "done" /\ saved'.gaps = {} =>
                            saved'.count >= history'.sampled - history'.base
    BY DEF Sampled
  <1>5. ~history.died /\ ~history.reset /\ history.base <= history'.base
    OBVIOUS
  <1>6. ASSUME Where("main")' \in {"saves", "leave"}, items'.gaps = {}
        PROVE  items'.count >= got'["main"] - history'.base
    <2>1. items.count >= got["main"] - history.base
      BY <1>2, <1>5, <1>6 DEF Sampled
    <2> QED BY <1>1, <1>4, <1>5, <2>1
  <1>7. ASSUME Where("main")' \in {"stop", "join"}, items'.gaps = {}
        PROVE  items'.count >= history'.sampled - history'.base
    <2>1. items.count >= history.sampled - history.base
      BY <1>2, <1>5, <1>7 DEF Sampled
    <2> QED BY <1>1, <1>4, <1>5, <2>1
  <1>8. ASSUME Where("main")' = "done", Writing("main")', snap'["main"].gaps = {}
        PROVE  snap'["main"].count >= history'.sampled - history'.base
    <2>1. snap["main"].count >= history.sampled - history.base
      BY <1>5, <1>8 DEF Sampled, Writing
    <2> QED BY <1>1, <1>5, <2>1
  <1>9. ASSUME pc'["main"] = "done", saved'.gaps = {}
        PROVE  saved'.count >= history'.sampled - history'.base
    <2>1. saved.count >= history.sampled - history.base
      BY <1>3, <1>5, <1>9 DEF Sampled
    <2> QED BY <1>1, <1>4, <1>5, <2>1
  <1> QED BY <1>6, <1>7, <1>8, <1>9

\* main takes a step of its sample, or goes on behind it.
LEMMA SampledMoves ==
    ASSUME NEW b \in Resting, Moved("main", b),
           b = "done" => pc'["main"] = "write",
           ~history'.died /\ ~history'.reset =>
               /\ b \in {"saves", "leave"} /\ items'.gaps = {} =>
                     items'.count >= got'["main"] - history'.base
               /\ b \in {"stop", "join"} /\ items'.gaps = {} =>
                     items'.count >= history'.sampled - history'.base
               /\ b = "done" /\ snap'["main"].gaps = {} =>
                     snap'["main"].count >= history'.sampled - history'.base
    PROVE  Sampled'
  <1>1. Where("main")' = b /\ (pc'["main"] = "done" => b = "done")
    BY DEF Moved, Where
  <1>2. pc'["main"] # "done"
    BY <1>1
  <1> QED BY <1>1, <1>2 DEF Sampled

LEMMA SampledKept ==
    ASSUME TypeOK, Placed, Bounded, NotLess, Sampled, [Next]_vars
    PROVE  Sampled'
  <1>a. /\ items' \in Findings /\ saved' \in Findings /\ (Stops \/ Grows)
        /\ history.base \in Nat /\ TypeOK /\ Bounded /\ Sampled
    BY TypesKept, FindingsGrow DEF TypeOK, Bounded, History
  <1>1. CASE HardwareError
    <2>1. /\ history' = [history EXCEPT !.total = @ + 1]
          /\ UNCHANGED <<items, saved, snap, got, pc, then, up>>
      BY <1>1, HardwareErrorStep
    <2>2. /\ history'.sampled = history.sampled /\ history'.base = history.base
          /\ history'.died = history.died /\ history'.reset = history.reset
      BY <2>1 DEF Bounded, History
    <2> QED BY <2>1, <2>2 DEF Sampled, Where, Writing
  <1>2. CASE Die
    <2>1. history'.died
      BY <1>2, DieStep DEF Bounded, History
    <2> QED BY <2>1 DEF Sampled
  <1>3. CASE Reset
    <2>1. history'.reset
      BY <1>3, ResetStep DEF Bounded, History
    <2> QED BY <2>1 DEF Sampled
  <1>4. CASE Start
    <2>1. Where("main")' = "idle" /\ pc'["main"] = "idle"
      BY <1>4, StartStep DEF Threads
    <2> QED BY <2>1 DEF Sampled
  <1>5. ASSUME NEW t \in Pollers, BeginPoll(t) PROVE Sampled'
    <2>1. CASE t = "main"
      <3>1. Moved("main", "read")
        BY <1>5, <2>1, BeginPollStep DEF Goes
      <3> QED BY <3>1, SampledMoves, AtRest
    <2>2. CASE t = "monitor"
      <3>1. /\ UNCHANGED <<got, history>> /\ snap'["main"] = snap["main"] /\ Moved(t, "read") /\ ~Stops
        BY <1>5, BeginPollStep DEF Goes, Stops
      <3>2. pc'["main"] = pc["main"] /\ Where("main")' = Where("main")
        BY <2>2, <3>1 DEF Moved, Threads
      <3> QED BY <1>a, <3>1, <3>2, SampledElsewhere
    <2> QED BY <2>1, <2>2 DEF Pollers
  <1>6. ASSUME NEW t \in Pollers, Raise(t) PROVE Sampled'
    <2>1. CASE t = "main"
      <3>1. Moved("main", "leave") /\ items'.gaps # {}
        BY <1>6, <2>1, RaiseStep
      <3> QED BY <3>1, SampledMoves, AtRest
    <2>2. CASE t = "monitor"
      <3>1. /\ UNCHANGED <<got, history>> /\ snap'["main"] = snap["main"] /\ Moved(t, "leave") /\ ~Stops
        BY <1>6, RaiseStep DEF Goes, Stops
      <3>2. pc'["main"] = pc["main"] /\ Where("main")' = Where("main")
        BY <2>2, <3>1 DEF Moved, Threads
      <3> QED BY <1>a, <3>1, <3>2, SampledElsewhere
    <2> QED BY <2>1, <2>2 DEF Pollers
  <1>7. ASSUME NEW t \in Pollers, Read(t) PROVE Sampled'
    <2>1. /\ got'[t] = errors /\ \A u \in Threads \ {t} : got'[u] = got[u]
          /\ snap' = snap /\ errors \in Nat
      BY <1>7, ReadStep DEF TypeOK
    <2>2. CASE Compares(t)
      <3>1. /\ Moved(t, IF errors > Prev THEN "add" ELSE "advance") /\ history' = history
            /\ up /\ up'
        BY <2>2 DEF Compares, Goes
      <3>2. CASE t = "main"
        BY <3>1, <3>2, SampledMoves, AtRest
      <3>3. CASE t = "monitor"
        BY <1>a, <2>1, <3>1, <3>3, SampledElsewhere DEF Moved, Threads, Stops
      <3> QED BY <3>2, <3>3 DEF Pollers
    <2>3. CASE Baselines(t)
      <3>1. /\ Moved(t, IF source = "sel" THEN "saves" ELSE "leave") /\ session.cursor = Absent
            /\ up /\ up' /\ history' = [history EXCEPT !.base = errors]
        BY <2>3 DEF Baselines, Goes
      <3>2. /\ history'.base = errors /\ history'.sampled = history.sampled
            /\ history'.died = history.died /\ history'.reset = history.reset
        BY <3>1 DEF Bounded, History
      <3>3. CASE t = "main"
        <4>1. items'.count \in Nat
          BY <1>a DEF Findings
        <4>2. items'.count >= got'["main"] - history'.base
          BY <2>1, <3>2, <3>3, <4>1
        <4> QED BY <3>1, <3>3, <4>2, SampledMoves, AtRest
      <3>4. CASE t = "monitor"
        <4>1. ~history'.died /\ ~history'.reset =>
                 ~history.died /\ ~history.reset /\ history.base <= history'.base
          BY <2>1, <3>1, <3>2 DEF NotLess
        <4>2. /\ snap'["main"] = snap["main"] /\ got'["main"] = got["main"]
              /\ pc'["main"] = pc["main"] /\ Where("main")' = Where("main") /\ ~Stops
          BY <2>1, <3>1, <3>4 DEF Moved, Threads, Stops
        <4> QED BY <1>a, <2>1, <3>2, <4>1, <4>2, SampledElsewhere
      <3> QED BY <3>3, <3>4 DEF Pollers
    <2> QED BY <1>7, <2>2, <2>3, ReadStep
  <1>8. ASSUME NEW t \in Pollers, Add(t) PROVE Sampled'
    <2>1. CASE t = "main"
      <3>1. Moved("main", "check")
        BY <1>8, <2>1, AddStep
      <3> QED BY <3>1, SampledMoves, AtRest
    <2>2. CASE t = "monitor"
      <3>1. /\ UNCHANGED <<got, history>> /\ snap'["main"] = snap["main"] /\ Moved(t, "check") /\ ~Stops
        BY <1>8, AddStep DEF Goes, Stops
      <3>2. pc'["main"] = pc["main"] /\ Where("main")' = Where("main")
        BY <2>2, <3>1 DEF Moved, Threads
      <3> QED BY <1>a, <3>1, <3>2, SampledElsewhere
    <2> QED BY <2>1, <2>2 DEF Pollers
  <1>9. ASSUME NEW t \in Pollers, Check(t) PROVE Sampled'
    <2>1. CASE t = "main"
      <3>1. Moved("main", "advance")
        BY <1>9, <2>1, CheckChecks, PollersAreThreads
      <3> QED BY <3>1, SampledMoves, AtRest
    <2>2. CASE t = "monitor"
      <3>1. /\ UNCHANGED <<got, history>> /\ snap'["main"] = snap["main"] /\ Moved(t, "advance") /\ ~Stops
        BY <1>9, <2>2, CheckChecks, PollersAreThreads DEF Stops, Check
      <3>2. pc'["main"] = pc["main"] /\ Where("main")' = Where("main")
        BY <2>2, <3>1 DEF Moved, Threads
      <3> QED BY <1>a, <3>1, <3>2, SampledElsewhere
    <2> QED BY <2>1, <2>2 DEF Pollers
  <1>10. ASSUME NEW t \in Pollers, Advance(t) PROVE Sampled'
    <2>1. CASE t = "main"
      <3> DEFINE b == IF Seen("main") < got["main"] THEN "add"
                      ELSE IF source = "sel" /\ Seen("main") > Prev THEN "saves" ELSE "leave"
      <3>1. /\ Moved("main", b) /\ Where("main") = "advance" /\ UNCHANGED <<items, got, history>>
            /\ Seen("main") \in Nat /\ Seen("main") <= got["main"] /\ got["main"] \in Nat
        BY <1>10, <2>1, AdvanceStep DEF Goes, TypeOK, Threads
      <3>2. ASSUME ~history.died, ~history.reset, b # "add" PROVE items.count >= got["main"] - history.base
        <4>1. Where("monitor") \notin Polling
          BY <2>1, <3>1, OnePolls DEF Polling, Pollers
        <4>2. Counted = Seen("main")
          BY <3>1, <4>1 DEF Counted, Polling
        <4>3. Seen("main") = got["main"]
          BY <3>1, <3>2
        <4> QED BY <3>2, <4>2, <4>3 DEF NotLess
      <3>3. b \in Resting /\ b \in {"add", "saves", "leave"}
        BY AtRest
      <3> HIDE DEF b
      <3> QED BY <3>1, <3>2, <3>3, SampledMoves
    <2>2. CASE t = "monitor"
      <3>1. /\ UNCHANGED <<got, history>> /\ snap'["main"] = snap["main"] /\ Moved(t, IF Seen(t) < got[t] THEN "add"
                        ELSE IF source = "sel" /\ Seen(t) > Prev THEN "saves" ELSE "leave") /\ ~Stops
        BY <1>10, AdvanceStep DEF Goes, Stops
      <3>2. pc'["main"] = pc["main"] /\ Where("main")' = Where("main")
        BY <2>2, <3>1 DEF Moved, Threads
      <3> QED BY <1>a, <3>1, <3>2, SampledElsewhere
    <2> QED BY <2>1, <2>2 DEF Pollers
  <1>11. ASSUME NEW t \in Pollers, SaveCursor(t) PROVE Sampled'
    <2>1. CASE t = "main"
      <3>1. Moved("main", "leave") /\ Where("main") = "saves" /\ UNCHANGED <<items, got, history>>
        BY <1>11, <2>1, SaveCursorStep DEF Goes
      <3> QED BY <3>1, SampledMoves, AtRest DEF Sampled
    <2>2. CASE t = "monitor"
      <3>1. /\ UNCHANGED <<got, history>> /\ snap'["main"] = snap["main"] /\ Moved(t, "leave") /\ ~Stops
        BY <1>11, SaveCursorStep DEF Goes, Stops
      <3>2. pc'["main"] = pc["main"] /\ Where("main")' = Where("main")
        BY <2>2, <3>1 DEF Moved, Threads
      <3> QED BY <1>a, <3>1, <3>2, SampledElsewhere
    <2> QED BY <2>1, <2>2 DEF Pollers
  <1>12. ASSUME NEW t \in Pollers, Leave(t) PROVE Sampled'
    <2>1. CASE t = "main"
      <3>1. /\ Moved("main", "stop") /\ Where("main") = "leave" /\ items' = items
            /\ history' = [history EXCEPT !.sampled = got["main"]]
        BY <1>12, <2>1, LeaveStep DEF Goes
      <3>2. /\ history'.sampled = got["main"] /\ history'.base = history.base
            /\ history'.died = history.died /\ history'.reset = history.reset
        BY <3>1 DEF Bounded, History
      <3> QED BY <3>1, <3>2, SampledMoves, AtRest DEF Sampled
    <2>2. CASE t = "monitor"
      <3>1. /\ history' = history /\ got'["main"] = got["main"] /\ snap'["main"] = snap["main"]
            /\ pc'["main"] = pc["main"] /\ Where("main")' = Where("main") /\ ~Stops
        BY <1>12, <2>2, LeaveStep DEF Goes, Moved, Threads, Stops
      <3> QED BY <1>a, <3>1, SampledElsewhere
    <2> QED BY <2>1, <2>2 DEF Pollers
  <1>13. CASE KmsgOpens
    <2>1. /\ snap'["main"] = snap["main"] /\ got' = got
          /\ pc'["main"] = pc["main"] /\ Where("main")' = Where("main") /\ ~Stops
          /\ history' = [history EXCEPT !.unseen = @ \cup (1..(Oldest - 1) \ logged)]
      BY <1>13, KmsgOpensStep DEF Goes, Moved, Threads, Stops
    <2>2. /\ history'.sampled = history.sampled /\ history'.base = history.base
          /\ history'.died = history.died /\ history'.reset = history.reset
      BY <2>1 DEF Bounded, History
    <2> QED BY <1>a, <2>1, <2>2, SampledElsewhere
  <1>14. CASE KmsgUnavailable
    <2>1. /\ UNCHANGED <<got, history>> /\ snap'["main"] = snap["main"]
          /\ pc'["main"] = pc["main"] /\ Where("main")' = Where("main") /\ ~Stops
      BY <1>14, KmsgUnavailableStep DEF Goes, Moved, Threads, Stops
    <2> QED BY <1>a, <2>1, SampledElsewhere
  <1>15. CASE KmsgReads
    <2>1. /\ history' = history /\ snap'["main"] = snap["main"] /\ ~Stops
      BY <1>15, KmsgReadsStep DEF Stops
    <2>2. /\ got'["main"] = got["main"] /\ pc'["main"] = pc["main"] /\ Where("main")' = Where("main")
      BY <1>15, KmsgReadsStep DEF Skips, Takes, Goes, Moved, Threads, Where
    <2> QED BY <1>a, <2>1, <2>2, SampledElsewhere
  <1>16. CASE KmsgOverrun
    <2>1. /\ UNCHANGED <<got, history>> /\ snap'["main"] = snap["main"]
          /\ pc'["main"] = pc["main"] /\ Where("main")' = Where("main") /\ ~Stops
      BY <1>16, KmsgOverrunStep DEF Goes, Moved, Threads, Stops
    <2> QED BY <1>a, <2>1, SampledElsewhere
  <1>17. CASE KmsgProcesses
    <2>1. /\ UNCHANGED <<got, history>> /\ snap'["main"] = snap["main"]
          /\ pc'["main"] = pc["main"] /\ Where("main")' = Where("main") /\ ~Stops
      BY <1>17, KmsgProcessesStep DEF Goes, Moved, Threads, Stops
    <2> QED BY <1>a, <2>1, SampledElsewhere
  <1>18. CASE Check("kmsg")
    <2>1. /\ UNCHANGED <<got, history>> /\ snap'["main"] = snap["main"]
          /\ pc'["main"] = pc["main"] /\ Where("main")' = Where("main") /\ ~Stops
      BY <1>18, CheckChecks DEF Goes, Moved, Threads, Stops, Check
    <2> QED BY <1>a, <2>1, SampledElsewhere
  <1>19. CASE KmsgLogs
    <2>1. /\ UNCHANGED <<got, history>> /\ snap'["main"] = snap["main"]
          /\ pc'["main"] = pc["main"] /\ Where("main")' = Where("main") /\ ~Stops
      BY <1>19, KmsgLogsStep DEF Goes, Moved, Threads, Stops
    <2> QED BY <1>a, <2>1, SampledElsewhere
  <1>20. CASE KmsgAcknowledges
    <2>1. /\ UNCHANGED <<got, history>> /\ snap'["main"] = snap["main"]
          /\ pc'["main"] = pc["main"] /\ Where("main")' = Where("main") /\ ~Stops
      BY <1>20, KmsgAcknowledgesStep DEF Goes, Moved, Threads, Stops
    <2> QED BY <1>a, <2>1, SampledElsewhere
  <1>21. ASSUME NEW t \in Threads, Snapshot(t) PROVE Sampled'
    <2>1. CASE t = "main"
      <3>1. /\ Moved("main", Where("main")) /\ pc["main"] = "flush" /\ UNCHANGED <<items, got, history>>
            /\ Where("main") = then["main"]
        BY <1>21, <2>1, SnapshotStep DEF Snaps
      <3>2. Where("main") # "done" /\ Where("main") \in Resting
        BY <3>1, PlacedRests DEF Placed, Spots, Threads
      <3> DEFINE b == Where("main")
      <3>3. /\ Moved("main", b) /\ b \in Resting /\ b # "done"
            /\ ~history'.died /\ ~history'.reset =>
                  /\ b \in {"saves", "leave"} /\ items'.gaps = {} =>
                        items'.count >= got'["main"] - history'.base
                  /\ b \in {"stop", "join"} /\ items'.gaps = {} =>
                        items'.count >= history'.sampled - history'.base
        BY <3>1, <3>2 DEF Sampled
      <3> HIDE DEF b
      <3> QED BY <3>3, SampledMoves
    <2>2. CASE t # "main"
      <3>1. /\ UNCHANGED <<got, history>> /\ snap'["main"] = snap["main"]
            /\ pc'["main"] = pc["main"] /\ Where("main")' = Where("main") /\ ~Stops
        BY <1>21, <2>2, SnapshotStep DEF Snaps, Moved, Threads, Stops
      <3> QED BY <1>a, <3>1, SampledElsewhere
    <2> QED BY <2>1, <2>2
  <1>22. ASSUME NEW t \in Threads, Write(t) PROVE Sampled'
    <2>1. CASE t = "main"
      <3>1. /\ Where("main")' = Where("main") /\ pc["main"] = "write" /\ UNCHANGED <<items, got, history>>
            /\ pc'["main"] = Where("main") /\ ~Writing("main")'
        BY <1>22, <2>1, WriteStep DEF Moved, Writing, Resting
      <3>2. /\ saved'.count = IF saved.count > snap["main"].count THEN saved.count ELSE snap["main"].count
            /\ saved'.gaps = saved.gaps \cup snap["main"].gaps
        BY <1>22, <2>1, WriteStep
      <3>3. saved'.count >= snap["main"].count
        BY <3>2 DEF TypeOK, Findings, Threads
      <3>4. ASSUME ~history.died, ~history.reset, pc'["main"] = "done", saved'.gaps = {}
            PROVE  saved'.count >= history.sampled - history.base
        <4>1. snap["main"].count >= history.sampled - history.base
          BY <3>1, <3>2, <3>4 DEF Sampled, Writing
        <4>2. /\ saved'.count \in Nat /\ snap["main"].count \in Nat
              /\ history.sampled \in Nat /\ history.base \in Nat
          BY <1>a DEF TypeOK, Findings, Threads, Bounded, History
        <4> QED BY <3>3, <4>1, <4>2
      <3> QED BY <3>1, <3>4 DEF Sampled
    <2>2. CASE t # "main"
      <3>1. /\ UNCHANGED <<got, history>> /\ snap'["main"] = snap["main"]
            /\ pc'["main"] = pc["main"] /\ Where("main")' = Where("main") /\ ~Stops
        BY <1>22, <2>2, WriteStep DEF Moved, Threads, Stops
      <3> QED BY <1>a, <3>1, SampledElsewhere
    <2> QED BY <2>1, <2>2
  <1>23. ASSUME NEW t \in {"monitor", "kmsg"}, ThreadEnds(t) PROVE Sampled'
    <2>1. /\ UNCHANGED <<got, history>> /\ snap'["main"] = snap["main"]
          /\ pc'["main"] = pc["main"] /\ Where("main")' = Where("main") /\ ~Stops
      BY <1>23, ThreadEndsStep DEF Goes, Moved, Threads, Stops
    <2> QED BY <1>a, <2>1, SampledElsewhere
  <1>24. CASE Save
    <2>1. UNCHANGED <<got, history, snap, pc, then, up>> /\ up
      BY <1>24, SaveStep
    <2>2. Where("main")' = Where("main") /\ ~Stops
      BY <2>1 DEF Where, Stops
    <2> QED BY <1>a, <2>1, <2>2, SampledElsewhere
  <1>25. CASE HeartbeatFlush
    <2>1. /\ UNCHANGED <<got, history>> /\ snap'["main"] = snap["main"]
          /\ pc'["main"] = pc["main"] /\ Where("main")' = Where("main") /\ ~Stops
      BY <1>25, HeartbeatFlushStep DEF Goes, Moved, Threads, Stops, Snaps
    <2> QED BY <1>a, <2>1, SampledElsewhere
  <1>26. CASE FinalSamples
    <2>1. /\ Moved("main", IF source \in Polled THEN "sample" ELSE "stop") /\ UNCHANGED <<items, history>>
      BY <1>26, FinalSamplesStep DEF Goes
    <2>2. CASE source \in Polled
      BY <2>1, <2>2, SampledMoves, AtRest
    <2>3. CASE source \notin Polled
      <3>1. history.sampled = 0 /\ history.base \in Nat /\ items.count \in Nat
        BY <2>3 DEF Placed, Bystanders, Bounded, History, TypeOK, Findings
      <3>2. items.count >= history.sampled - history.base
        BY <3>1
      <3> QED BY <2>1, <2>3, <3>2, SampledMoves, AtRest
    <2> QED BY <2>2, <2>3
  <1>27. CASE StopMonitors
    <2>1. Moved("main", "join") /\ Where("main") = "stop" /\ UNCHANGED <<items, history>>
      BY <1>27, StopMonitorsStep DEF Goes
    <2> QED BY <2>1, SampledMoves, AtRest DEF Sampled
  <1>28. CASE LastFlush
    <2>1. /\ Moved("main", "done") /\ Where("main") = "join" /\ pc'["main"] = "write"
          /\ snap'["main"] = items
          /\ history' = [history EXCEPT !.quiet = /\ pc["monitor"] = "ended" /\ pc["kmsg"] = "ended"
                                                /\ pc["heartbeat"] = "idle"]
      BY <1>28, LastFlushStep DEF Snaps
    <2>2. /\ history'.sampled = history.sampled /\ history'.base = history.base
          /\ history'.died = history.died /\ history'.reset = history.reset
      BY <2>1 DEF Bounded, History
    <2> QED BY <2>1, <2>2, SampledMoves, AtRest DEF Sampled
  <1>29. CASE UNCHANGED vars
    BY <1>29 DEF Sampled, Where, Writing, vars
  <1> QED BY <1>1, <1>2, <1>3, <1>4, <1>5, <1>6, <1>7, <1>8, <1>9, <1>10, <1>11, <1>12, <1>13,
             <1>14, <1>15, <1>16, <1>17, <1>18, <1>19, <1>20, <1>21, <1>22, <1>23, <1>24, <1>25,
             <1>26, <1>27, <1>28, <1>29
         DEF Next, Environment, Poll, Kmsg, Finalize, Over

-----------------------------------------------------------------------------
(* After the last flush *)

LEMMA QuietMoves ==
    ASSUME Quiet, NEW t \in Threads, NEW b, Moved(t, b), history'.quiet = history.quiet,
           t = "main" => b # "done",
           t \in {"monitor", "kmsg"} => pc[t] # "ended",
           t = "heartbeat" => pc[t] # "idle" \/ dirty
    PROVE  Quiet'
  <1>1. CASE t = "main"
    BY <1>1 DEF Moved, Quiet
  <1>2. CASE t # "main"
    <2>1. Where("main")' = Where("main")
      BY <1>2 DEF Moved, Threads
    <2> QED BY <1>2, <2>1 DEF Quiet, Threads
  <1> QED BY <1>1, <1>2

LEMMA QuietKept ==
    ASSUME TypeOK, Placed, Bounded, Ahead, Quiet, [Next]_vars
    PROVE  Quiet'
  <1>1. CASE HardwareError
    <2>1. /\ history' = [history EXCEPT !.total = @ + 1]
          /\ UNCHANGED <<items, saved, dirty, snap, pc, then>>
      BY <1>1, HardwareErrorStep
    <2>2. history'.quiet = history.quiet
      BY <2>1 DEF Bounded, History
    <2> QED BY <2>1, <2>2 DEF Quiet, Where
  <1>2. CASE Die
    BY <1>2, DieStep DEF Stops, Quiet, Threads
  <1>3. CASE Reset
    BY <1>3, ResetStep DEF Stops, Quiet, Threads
  <1>4. CASE Start
    BY <1>4, StartStep, AtRest DEF Quiet
  <1>5. ASSUME NEW t \in Pollers, BeginPoll(t) PROVE Quiet'
    <2>1. /\ Moved(t, "read") /\ t \in Threads /\ pc[t] \notin {"ended", "done"}
          /\ history'.quiet = history.quiet
      BY <1>5, BeginPollStep, PollersAreThreads DEF Goes, Threads
    <2> QED BY <2>1, QuietMoves DEF Pollers
  <1>6. ASSUME NEW t \in Pollers, Raise(t) PROVE Quiet'
    <2>1. /\ Moved(t, "leave") /\ t \in Threads /\ pc[t] \notin {"ended", "done"}
          /\ history'.quiet = history.quiet
      BY <1>6, RaiseStep, PollersAreThreads DEF Goes, Threads
    <2> QED BY <2>1, QuietMoves DEF Pollers
  <1>7. ASSUME NEW t \in Pollers, Read(t) PROVE Quiet'
    <2>1. /\ pc[t] = "read" /\ t \in Threads /\ history'.quiet = history.quiet
          /\ \E b \in {"add", "advance", "saves", "leave"} : Moved(t, b)
      BY <1>7, ReadStep, PollersAreThreads DEF Compares, Baselines, Goes, Bounded, History
    <2> QED BY <2>1, QuietMoves DEF Pollers
  <1>8. ASSUME NEW t \in Pollers, Add(t) PROVE Quiet'
    <2>1. /\ Moved(t, "check") /\ t \in Threads /\ pc[t] \notin {"ended", "done"}
          /\ history'.quiet = history.quiet
      BY <1>8, AddStep, PollersAreThreads DEF Goes, Threads
    <2> QED BY <2>1, QuietMoves DEF Pollers
  <1>9. ASSUME NEW t \in Pollers, Check(t) PROVE Quiet'
    <2>1. /\ Moved(t, "advance") /\ t \in Threads /\ pc[t] = "check" /\ history' = history
      BY <1>9, CheckChecks, PollersAreThreads DEF Check, At, Pollers
    <2> QED BY <2>1, QuietMoves DEF Pollers
  <1>10. ASSUME NEW t \in Pollers, Advance(t) PROVE Quiet'
    <2>1. /\ pc[t] = "advance" /\ t \in Threads /\ history' = history
          /\ \E b \in {"add", "saves", "leave"} : Moved(t, b)
      BY <1>10, AdvanceStep, PollersAreThreads DEF Goes
    <2> QED BY <2>1, QuietMoves DEF Pollers
  <1>11. ASSUME NEW t \in Pollers, SaveCursor(t) PROVE Quiet'
    <2>1. /\ Moved(t, "leave") /\ t \in Threads /\ pc[t] \notin {"ended", "done"}
          /\ history'.quiet = history.quiet
      BY <1>11, SaveCursorStep, PollersAreThreads DEF Goes, Threads
    <2> QED BY <2>1, QuietMoves DEF Pollers
  <1>12. ASSUME NEW t \in Pollers, Leave(t) PROVE Quiet'
    <2>1. /\ Moved(t, IF t = "main" THEN "stop" ELSE "idle") /\ t \in Threads /\ pc[t] \notin {"ended", "done"}
          /\ history'.quiet = history.quiet
      BY <1>12, LeaveStep, PollersAreThreads DEF Goes, Threads, Bounded, History
    <2> QED BY <2>1, QuietMoves DEF Pollers
  <1>13. CASE KmsgOpens
    <2>1. /\ Moved("kmsg", "idle") /\ "kmsg" \in Threads /\ pc["kmsg"] \notin {"ended", "done"}
          /\ history'.quiet = history.quiet
      BY <1>13, KmsgOpensStep, PollersAreThreads DEF Goes, Threads, Bounded, History
    <2> QED BY <2>1, QuietMoves
  <1>14. CASE KmsgUnavailable
    <2>1. /\ Moved("kmsg", "ended") /\ "kmsg" \in Threads /\ pc["kmsg"] \notin {"ended", "done"}
          /\ history'.quiet = history.quiet
      BY <1>14, KmsgUnavailableStep, PollersAreThreads DEF Goes, Threads
    <2> QED BY <2>1, QuietMoves
  <1>15. CASE KmsgReads
    <2>1. UNCHANGED <<items, saved, dirty, snap, history>> /\ pc["kmsg"] = "idle"
      BY <1>15, KmsgReadsStep
    <2>2. CASE Skips
      BY <2>1, <2>2 DEF Skips, Quiet, Where
    <2>3. CASE Takes
      BY <2>1, <2>3, QuietMoves, AtRest DEF Takes, Goes
    <2> QED BY <1>15, <2>2, <2>3, KmsgReadsStep
  <1>16. CASE KmsgOverrun
    <2>1. /\ Moved("kmsg", "idle") /\ "kmsg" \in Threads /\ pc["kmsg"] \notin {"ended", "done"}
          /\ history'.quiet = history.quiet
      BY <1>16, KmsgOverrunStep, PollersAreThreads DEF Goes, Threads
    <2> QED BY <2>1, QuietMoves
  <1>17. CASE KmsgProcesses
    <2>1. /\ Moved("kmsg", IF source \in Polled THEN "idle" ELSE "check") /\ "kmsg" \in Threads
          /\ pc["kmsg"] = "process" /\ history' = history
      BY <1>17, KmsgProcessesStep DEF Threads
    <2> QED BY <2>1, QuietMoves
  <1>18. CASE Check("kmsg")
    <2>1. /\ Moved("kmsg", "idle") /\ "kmsg" \in Threads /\ pc["kmsg"] = "check" /\ history' = history
      BY <1>18, CheckChecks DEF Check, At, Threads
    <2> QED BY <2>1, QuietMoves
  <1>19. CASE KmsgLogs
    <2>1. /\ Moved("kmsg", "acknowledge") /\ "kmsg" \in Threads /\ pc["kmsg"] \notin {"ended", "done"}
          /\ history'.quiet = history.quiet
      BY <1>19, KmsgLogsStep, PollersAreThreads DEF Goes, Threads
    <2> QED BY <2>1, QuietMoves
  <1>20. CASE KmsgAcknowledges
    <2>1. /\ Moved("kmsg", "idle") /\ "kmsg" \in Threads /\ pc["kmsg"] \notin {"ended", "done"}
          /\ history'.quiet = history.quiet
      BY <1>20, KmsgAcknowledgesStep, PollersAreThreads DEF Goes, Threads
    <2> QED BY <2>1, QuietMoves
  <1>21. ASSUME NEW t \in Threads, Snapshot(t) PROVE Quiet'
    <2>1. /\ Moved(t, Where(t)) /\ pc[t] = "flush" /\ history' = history /\ Where(t) = then[t]
      BY <1>21, SnapshotStep
    <2>2. t = "main" => Where(t) # "done"
      BY <2>1 DEF Placed, Spots
    <2> QED BY <2>1, <2>2, QuietMoves
  <1>22. ASSUME NEW t \in Threads, Write(t) PROVE Quiet'
    <2>1. /\ Moved(t, Where(t)) /\ pc[t] = "write" /\ history' = history
          /\ pc'[t] = Where(t) /\ UNCHANGED <<items, dirty>>
      BY <1>22, WriteStep
    <2>2. CASE t = "main"
      <3>1. /\ Where("main")' = Where("main") /\ pc'["main"] # "write"
            /\ \A u \in Threads \ {"main"} : pc'[u] = pc[u]
        BY <2>1, <2>2, PlacedRests DEF Moved, Resting, Threads
      <3>2. snap["main"] = items => saved' = items
        <4> SUFFICES ASSUME snap["main"] = items PROVE saved' = items
          OBVIOUS
        <4>1. /\ saved' \in Findings /\ items \in Findings /\ saved \in Findings
              /\ saved'.count = IF saved.count > items.count THEN saved.count ELSE items.count
              /\ saved'.rank = IF saved.rank > items.rank THEN saved.rank ELSE items.rank
              /\ saved'.gaps = saved.gaps \cup items.gaps
          BY <1>22, <2>2, WriteStep DEF TypeOK
        <4>2. saved'.count = items.count /\ saved'.rank = items.rank /\ saved'.gaps = items.gaps
          BY <4>1 DEF Ahead, Behind, Findings
        <4> QED BY <4>1, <4>2 DEF Findings
      <3> QED BY <2>1, <2>2, <3>1, <3>2 DEF Quiet, Threads
    <2>3. CASE t # "main"
      BY <2>1, <2>3, QuietMoves
    <2> QED BY <2>2, <2>3
  <1>23. ASSUME NEW t \in {"monitor", "kmsg"}, ThreadEnds(t) PROVE Quiet'
    <2>1. /\ Moved(t, "ended") /\ t \in Threads /\ pc[t] \notin {"ended", "done"}
          /\ history'.quiet = history.quiet
      BY <1>23, ThreadEndsStep, PollersAreThreads DEF Goes, Threads
    <2> QED BY <2>1, QuietMoves
  <1>24. CASE Save
    BY <1>24, SaveStep DEF Quiet, Where
  <1>25. CASE HeartbeatFlush
    <2>1. /\ dirty /\ Moved("heartbeat", Where("heartbeat")) /\ "heartbeat" \in Threads
          /\ history' = history
      BY <1>25, HeartbeatFlushStep DEF Threads
    <2> QED BY <2>1, QuietMoves
  <1>26. CASE FinalSamples
    <2>1. /\ Moved("main", IF source \in Polled THEN "sample" ELSE "stop") /\ "main" \in Threads /\ pc["main"] \notin {"ended", "done"}
          /\ history'.quiet = history.quiet
      BY <1>26, FinalSamplesStep, PollersAreThreads DEF Goes, Threads
    <2> QED BY <2>1, QuietMoves
  <1>27. CASE StopMonitors
    <2>1. /\ Moved("main", "join") /\ "main" \in Threads /\ pc["main"] \notin {"ended", "done"}
          /\ history'.quiet = history.quiet
      BY <1>27, StopMonitorsStep, PollersAreThreads DEF Goes, Threads
    <2> QED BY <2>1, QuietMoves
  <1>28. CASE LastFlush
    <2>1. /\ Moved("main", "done") /\ snap'["main"] = items /\ items' = items /\ dirty' = FALSE
          /\ pc'["main"] = "write"
          /\ history' = [history EXCEPT !.quiet = /\ pc["monitor"] = "ended" /\ pc["kmsg"] = "ended"
                                                /\ pc["heartbeat"] = "idle"]
      BY <1>28, LastFlushStep DEF Snaps
    <2>2. history'.quiet = (/\ pc["monitor"] = "ended" /\ pc["kmsg"] = "ended"
                            /\ pc["heartbeat"] = "idle")
      BY <2>1 DEF Bounded, History
    <2>3. \A u \in Threads \ {"main"} : pc'[u] = pc[u]
      BY <2>1 DEF Moved
    <2> QED BY <2>1, <2>2, <2>3 DEF Quiet, Threads
  <1>29. CASE UNCHANGED vars
    BY <1>29 DEF Quiet, Where, vars
  <1> QED BY <1>1, <1>2, <1>3, <1>4, <1>5, <1>6, <1>7, <1>8, <1>9, <1>10, <1>11, <1>12, <1>13,
             <1>14, <1>15, <1>16, <1>17, <1>18, <1>19, <1>20, <1>21, <1>22, <1>23, <1>24, <1>25,
             <1>26, <1>27, <1>28, <1>29
         DEF Next, Environment, Poll, Kmsg, Finalize, Over


-----------------------------------------------------------------------------
(* The threshold *)

LEMMA StaysJudged ==
    ASSUME UNCHANGED source, SameStory, items.gaps \subseteq items'.gaps, Judged'
    PROVE  Judged
  BY DEF Judged, SameStory, Extra

\* The count stays what it is, or does not reach the threshold.
LEMMA EscalatesMoves ==
    ASSUME Escalates, NEW t \in Threads, NEW b, Moved(t, b), UNCHANGED <<source, errors>>,
           Judged' => Judged /\ (Fails => Fails'),
           session'.cursor = session.cursor,
           \A u \in Pollers : Where(u) = "advance" => got'[u] = got[u],
           Where(t) # "check",
           t \in Pollers => b # "advance" \/ Where(t) = "advance",
           t = "main" /\ source \in Polled /\ Where(t) \in {"idle", "sample", "read", "add"} =>
               b \in {"idle", "sample", "read", "add", "check"}
    PROVE  Escalates'
  <1> SUFFICES ASSUME Judged'
               PROVE  /\ Fails' \/ Compared'
                      /\ \A u \in Pollers : Where(u)' = "advance" => Fails' \/ got'[u] = Prev'
    BY DEF Escalates
  <1>1. Where(t)' = b /\ \A u \in Threads \ {t} : Where(u)' = Where(u)
    BY DEF Moved
  <1>2. Judged /\ (Fails => Fails') /\ Prev' = Prev
    BY DEF Prev
  <1>3. (\E u \in Threads : Where(u) = "check") => \E u \in Threads : Where(u)' = "check"
    BY <1>1
  <1>4. ASSUME source \in Polled, Prev < errors, Where("main") \in {"idle", "sample", "read", "add"}
        PROVE  Compared'
    <2>1. Where("main")' \in {"idle", "sample", "read", "add", "check"}
      BY <1>1, <1>4 DEF Threads
    <2> QED BY <1>2, <1>4, <2>1 DEF Compared, Threads
  <1>5. Compared => Compared'
    BY <1>3, <1>4 DEF Compared
  <1>6. \A u \in Pollers : Where(u)' = "advance" => Where(u) = "advance"
    BY <1>1, PollersAreThreads
  <1> QED BY <1>2, <1>5, <1>6 DEF Escalates

\* The count has just been compared.
LEMMA FailsEscalates ==
    ASSUME Judged' => Fails'
    PROVE  Escalates'
  BY DEF Escalates

LEMMA CheckEscalates ==
    ASSUME TypeOK, NEW t \in Threads, Check(t)
    PROVE  Escalates'
  <1>1. source' = source /\ items'.count = items.count
    BY CheckChecks DEF Check
  <1>2. source \in Thresholded => Fails'
    <2>1. CASE Reached /\ items'.rank = 2
      BY <2>1 DEF Fails
    <2>2. CASE ~Reached /\ items' = items
      BY <2>2, CountersAssumption DEF Fails, Reached, TypeOK, Findings
    <2> QED BY <2>1, <2>2, CheckChecks
  <1> QED BY <1>1, <1>2, FailsEscalates DEF Judged


\* A thread begins or ends to write.
LEMMA EscalatesStays ==
    ASSUME Escalates, NEW t \in Threads, Moved(t, Where(t)),
           UNCHANGED <<source, errors, session, items, got, history>>
    PROVE  Escalates'
  <1>1. \A u \in Threads : Where(u)' = Where(u)
    BY DEF Moved
  <1>2. (Judged' => Judged) /\ (Fails => Fails') /\ Prev' = Prev
    BY DEF Judged, Fails, Extra, Prev
  <1>3. Compared => Compared'
    BY <1>1, <1>2 DEF Compared, Threads
  <1> QED BY <1>1, <1>2, <1>3, PollersAreThreads DEF Escalates

LEMMA EscalatesKept ==
    ASSUME TypeOK, Placed, Bounded, Ahead, Arrives, BaselineFirst, Escalates, [Next]_vars
    PROVE  Escalates'
  <1>1. CASE HardwareError
    <2>1. /\ history' = [history EXCEPT !.total = @ + 1] /\ errors' = errors + 1 /\ errors \in Nat
          /\ UNCHANGED <<source, session, items, got, pc, then>>
      BY <1>1, HardwareErrorStep DEF TypeOK
    <2>2. SameStory
      BY <2>1 DEF Bounded, History, SameStory
    <2>3. (Judged' => Judged) /\ Prev \in Nat /\ Prev' = Prev
      BY <2>1, <2>2, StaysJudged, CountsAreNat DEF Prev
    <2>4. Compared => Compared'
      BY <2>1, <2>3 DEF Compared, Where
    <2> QED BY <2>1, <2>3, <2>4 DEF Escalates, Fails, Where
  <1>2. CASE Die
    <2>1. /\ Stops /\ Prev' \in Nat /\ Prev' <= Prev /\ errors' = errors
          /\ \A t \in Threads : Where(t)' = "idle"
          /\ history' = [history EXCEPT !.died = TRUE, !.torn = @ \/ Flushing]
          /\ ~history'.torn => ~history.torn /\ ~Flushing
      BY <1>2, DieStep, StopsKeepLess DEF Stops
    <2>2. history'.died /\ history'.reset = history.reset /\ source' = source /\ items' = saved
      BY <2>1 DEF Bounded, History, Stops
    <2>3. ASSUME Judged', ~Fails' PROVE Compared'
      <3>1. /\ ~Flushing /\ ~history.torn /\ ~history.reset /\ saved.gaps = {} /\ Threshold > Extra
            /\ source \in Thresholded /\ source # "mce"
        BY <2>1, <2>2, <2>3 DEF Judged, Extra
      <3>2. items.gaps = {} /\ (items.rank = 2 => saved.rank = 2)
        BY <3>1, AllWritten
      <3>3. Judged /\ source \in Polled
        BY <3>1, <3>2 DEF Judged, Thresholded, Polled
      <3>4. ~Fails
        BY <2>2, <2>3, <3>2, CountersAssumption DEF Fails, Ahead, Behind, TypeOK, Findings
      <3>5. Compared
        BY <3>3, <3>4 DEF Escalates
      <3>6. Prev \in Nat /\ errors \in Nat
        BY CountsAreNat
      <3>7. Prev < errors
        <4>1. ASSUME NEW t \in Threads, Where(t) = "check" PROVE Prev < errors
          <5>1. t \in Pollers
            BY <3>3, <4>1 DEF Threads, Pollers, Placed, Spots, Bystanders
          <5>2. got[t] > Prev /\ got[t] <= errors /\ got[t] \in Nat
            BY <4>1, <5>1 DEF Bounded, Advancing, TypeOK
          <5> QED BY <3>6, <5>2
        <4> QED BY <3>5, <4>1 DEF Compared
      <3>8. Prev' < errors'
        BY <2>1, <3>6, <3>7
      <3> QED BY <2>1, <2>2, <3>3, <3>8 DEF Compared, Threads
    <2> QED BY <2>1, <2>3, PollersAreThreads DEF Escalates
  <1>3. CASE Reset
    <2>1. history'.reset
      BY <1>3, ResetStep DEF Bounded, History
    <2> QED BY <2>1 DEF Escalates, Judged
  <1>4. CASE Start
    <2>1. /\ UNCHANGED <<source, errors, session, items, history>>
          /\ \A t \in Threads : Where(t) = "idle" /\ Where(t)' \in {"idle", "open", "ended"}
          /\ Where("main")' = "idle"
      BY <1>4, StartStep, AtRest
    <2>2. (Judged' => Judged) /\ (Fails => Fails') /\ Prev' = Prev
      BY <2>1 DEF Judged, Fails, Extra, Prev
    <2>3. Compared => Compared'
      BY <2>1, <2>2 DEF Compared
    <2> QED BY <2>1, <2>2, <2>3, PollersAreThreads DEF Escalates
  <1>5. ASSUME NEW t \in Pollers, BeginPoll(t) PROVE Escalates'
    <2>1. /\ Moved(t, "read") /\ t \in Threads /\ Where(t) # "check"
          /\ UNCHANGED <<source, errors, session, items, got, history>>
      BY <1>5, BeginPollStep, PollersAreThreads DEF Goes
    <2>2. Judged' => Judged /\ (Fails => Fails')
      BY <2>1 DEF Judged, Fails, Extra
    <2> QED BY <2>1, <2>2, EscalatesMoves
  <1>6. ASSUME NEW t \in Pollers, Raise(t) PROVE Escalates'
    <2>1. items'.gaps # {}
      BY <1>6, RaiseStep
    <2> QED BY <2>1, FailsEscalates DEF Judged
  <1>7. ASSUME NEW t \in Pollers, Read(t) PROVE Escalates'
    <2>1. /\ got'[t] = errors /\ \A u \in Threads \ {t} : got'[u] = got[u]
          /\ UNCHANGED <<source, errors, items>> /\ t \in Threads
          /\ errors \in Nat /\ Prev \in Nat /\ Prev <= errors
      BY <1>7, ReadStep, PollersAreThreads, CountsAreNat
    <2>2. Where(t) = "read" /\ \A u \in Pollers \ {t} : Where(u) \notin Polling
      BY <1>7, ReadStep, OnePolls DEF Compares, Baselines, Goes, Polling
    <2>3. CASE Compares(t)
      <3>1. /\ Moved(t, IF errors > Prev THEN "add" ELSE "advance") /\ UNCHANGED <<session, history>>
        BY <2>3 DEF Compares, Goes
      <3>2. (Judged' => Judged /\ (Fails => Fails')) /\ Prev' = Prev
        BY <2>1, <3>1 DEF Judged, Fails, Extra, Prev
      <3>3. CASE errors > Prev
        <4>1. \A u \in Pollers : Where(u) = "advance" => got'[u] = got[u]
          BY <2>2 DEF Polling
        <4> QED BY <2>1, <2>2, <3>1, <3>2, <3>3, <4>1, EscalatesMoves
      <3>4. CASE ~(errors > Prev)
        <4>1. errors = Prev
          BY <2>1, <3>4
        <4>2. ASSUME Judged' PROVE Fails' \/ Compared'
          <5>1. Fails \/ \E u \in Threads : Where(u) = "check"
            BY <2>1, <3>2, <4>1, <4>2 DEF Escalates, Compared
          <5>2. (\E u \in Threads : Where(u) = "check") => Compared'
            BY <2>2, <3>1 DEF Moved, Compared
          <5> QED BY <3>2, <4>2, <5>1, <5>2
        <4>3. \A u \in Pollers : Where(u)' = "advance" => got'[u] = Prev'
          <5>1. \A u \in Pollers \ {t} : Where(u)' # "advance"
            BY <2>2, <3>1, PollersAreThreads DEF Moved, Polling
          <5> QED BY <2>1, <3>2, <4>1, <5>1
        <4> QED BY <4>2, <4>3 DEF Escalates
      <3> QED BY <3>3, <3>4
    <2>4. CASE Baselines(t)
      <3>1. source \in Baselined /\ session.cursor = Absent
        BY <2>4 DEF Baselines
      <3>2. stored.cursor = Absent
        BY <3>1 DEF Bounded, TypeOK, Absent
      <3>3. source = "sel" => items.count = 0
        BY <3>2 DEF BaselineFirst, TypeOK, Findings
      <3>4. source \in Thresholded => source = "sel"
        BY <3>1 DEF Baselined, Thresholded
      <3>5. source \in Thresholded => Fails'
        BY <2>1, <3>3, <3>4, CountersAssumption DEF Fails
      <3> QED BY <2>1, <3>5, FailsEscalates DEF Judged
    <2> QED BY <1>7, <2>3, <2>4, ReadStep
  <1>8. ASSUME NEW t \in Pollers, Add(t) PROVE Escalates'
    <2>1. Moved(t, "check") /\ t \in Threads /\ Where(t) = "add"
      BY <1>8, AddStep, PollersAreThreads
    <2>2. Where(t)' = "check" /\ \A u \in Pollers \ {t} : Where(u)' \notin Polling
      BY <2>1, OnePolls, PollersAreThreads DEF Moved, Polling
    <2> QED BY <2>1, <2>2 DEF Escalates, Compared, Polling
  <1>9. ASSUME NEW t \in Pollers, Check(t) PROVE Escalates'
    BY <1>9, CheckEscalates, PollersAreThreads
  <1>10. ASSUME NEW t \in Pollers, Advance(t) PROVE Escalates'
    <2>1. /\ session'.cursor = Seen(t) /\ UNCHANGED <<source, errors, items, got, history>>
          /\ Goes(t, "advance", IF Seen(t) < got[t] THEN "add"
                                ELSE IF source = "sel" /\ Seen(t) > Prev THEN "saves" ELSE "leave")
          /\ t \in Threads /\ Prev \in Nat /\ got[t] \in Nat
      BY <1>10, AdvanceStep, PollersAreThreads, CountsAreNat DEF TypeOK
    <2>2. Judged' => Judged /\ (Fails => Fails')
      BY <2>1 DEF Judged, Fails, Extra
    <2>3. ASSUME Judged', ~Fails' PROVE Escalates'
      <3>1. Where(t) = "advance" /\ got[t] = Prev
        BY <2>1, <2>2, <2>3 DEF Escalates, Goes
      <3>2. Seen(t) = Prev
        BY <2>1, <3>1 DEF Seen
      <3>3. Moved(t, "leave")
        BY <2>1, <3>1, <3>2 DEF Goes
      <3>4. session'.cursor = Prev /\ Prev' = Prev
        BY <2>1, <3>2 DEF Prev, Absent
      <3>5. Where(t)' = "leave" /\ \A u \in Threads \ {t} : Where(u)' = Where(u)
        BY <3>3 DEF Moved
      <3>6. Compared'
        <4>1. Compared
          BY <2>2, <2>3 DEF Escalates
        <4>2. (\E u \in Threads : Where(u) = "check") => \E u \in Threads : Where(u)' = "check"
          BY <3>1, <3>5
        <4>3. Where("main") \in {"idle", "sample", "read", "add"} => Where("main")' = Where("main")
          BY <3>1, <3>5 DEF Threads
        <4> QED BY <2>1, <3>4, <4>1, <4>2, <4>3 DEF Compared
      <3>7. \A u \in Pollers : Where(u)' # "advance"
        BY <3>1, <3>5, OnePolls, PollersAreThreads DEF Polling
      <3> QED BY <3>6, <3>7 DEF Escalates
    <2> QED BY <2>3, FailsEscalates
  <1>11. ASSUME NEW t \in Pollers, SaveCursor(t) PROVE Escalates'
    <2>1. /\ Moved(t, "leave") /\ t \in Threads /\ Where(t) = "saves"
          /\ UNCHANGED <<source, errors, session, items, got, history>>
      BY <1>11, SaveCursorStep, PollersAreThreads DEF Goes, Threads
    <2>2. Judged' => Judged /\ (Fails => Fails')
      BY <2>1 DEF Judged, Fails, Extra
    <2> QED BY <2>1, <2>2, EscalatesMoves
  <1>12. ASSUME NEW t \in Pollers, Leave(t) PROVE Escalates'
    <2>1. /\ Goes(t, "leave", IF t = "main" THEN "stop" ELSE "idle")
          /\ \A u \in Threads \ {t} : got'[u] = got[u]
          /\ UNCHANGED <<source, errors, session, items>> /\ t \in Threads
      BY <1>12, LeaveStep, PollersAreThreads
    <2>2. SameStory
      BY <1>12, LeaveStep DEF Bounded, History, SameStory
    <2>3. Judged' => Judged /\ (Fails => Fails')
      BY <2>1, <2>2, StaysJudged DEF Fails
    <2>4. Moved(t, IF t = "main" THEN "stop" ELSE "idle") /\ Where(t) = "leave"
      BY <2>1 DEF Goes
    <2>5. \A u \in Pollers : Where(u) = "advance" => got'[u] = got[u]
      BY <2>1, <2>4, PollersAreThreads
    <2> QED BY <2>1, <2>3, <2>4, <2>5, EscalatesMoves
  <1>13. CASE KmsgOpens
    <2>1. /\ Moved("kmsg", "idle") /\ "kmsg" \in Threads /\ Where("kmsg") = "open"
          /\ UNCHANGED <<source, errors, session, items, got>>
      BY <1>13, KmsgOpensStep DEF Goes, Threads
    <2>2. SameStory
      BY <1>13, KmsgOpensStep DEF Bounded, History, SameStory
    <2>3. Judged' => Judged /\ (Fails => Fails')
      BY <2>1, <2>2, StaysJudged DEF Fails
    <2> QED BY <2>1, <2>3, EscalatesMoves DEF Pollers
  <1>14. CASE KmsgUnavailable
    <2>1. items'.gaps # {}
      BY <1>14, KmsgUnavailableStep
    <2> QED BY <2>1, FailsEscalates DEF Judged
  <1>15. CASE KmsgReads
    <2>1. UNCHANGED <<source, errors, session, items, history>> /\ Where("kmsg") = "idle"
      BY <1>15, KmsgReadsStep
    <2>2. CASE Skips
      BY <2>1, <2>2 DEF Skips, Escalates, Judged, Fails, Extra, Compared, Prev, Where
    <2>3. CASE Takes
      <3>1. /\ Moved("kmsg", "process") /\ "kmsg" \in Threads
            /\ \A u \in Pollers : got'[u] = got[u]
        BY <2>3 DEF Takes, Goes, Threads, Pollers
      <3>2. Judged' => Judged /\ (Fails => Fails')
        BY <2>1 DEF Judged, Fails, Extra
      <3> QED BY <2>1, <3>1, <3>2, EscalatesMoves DEF Pollers
    <2> QED BY <1>15, <2>2, <2>3, KmsgReadsStep
  <1>16. CASE KmsgOverrun
    <2>1. items'.gaps # {}
      BY <1>16, KmsgOverrunStep
    <2> QED BY <2>1, FailsEscalates DEF Judged
  <1>17. CASE KmsgProcesses
    <2>1. /\ Moved("kmsg", IF source \in Polled THEN "idle" ELSE "check") /\ "kmsg" \in Threads
          /\ items'.count = IF source \notin Polled THEN items.count + 1
                            ELSE IF items.count = 0 THEN 1 ELSE items.count
          /\ items'.rank = IF items.rank = 0 THEN 1 ELSE items.rank
          /\ items'.gaps = items.gaps /\ Where("kmsg") = "process" /\ up
          /\ UNCHANGED <<source, errors, session, got, history>>
      BY <1>17, KmsgProcessesStep DEF Threads
    <2>2. CASE source \in Polled
      <3>1. SameStory
        BY <2>1 DEF SameStory
      <3>2. Judged' => Judged
        BY <2>1, <3>1, StaysJudged
      <3>3. source \in KernelTold
        BY <2>1, SourceOfThread DEF Placed
      <3>4. Judged => Threshold > 1
        BY <2>2, <3>3 DEF Judged, Extra
      <3>5. Threshold > 1 /\ Fails => Fails'
        BY <2>1, <2>2, CountersAssumption DEF Fails
      <3> QED BY <2>1, <2>2, <3>2, <3>4, <3>5, EscalatesMoves DEF Pollers
    <2>3. CASE source \notin Polled
      <3>1. Where("kmsg")' = "check" /\ \A u \in Pollers : Where(u)' = Where(u)
        BY <2>1, <2>3 DEF Moved, Threads, Pollers
      <3>2. \A u \in Pollers : Where(u) \notin Polling
        BY <2>1, <2>3, SourceOfThread DEF Placed
      <3> QED BY <2>1, <3>1, <3>2 DEF Escalates, Compared, Polling
    <2> QED BY <2>2, <2>3
  <1>18. CASE Check("kmsg")
    BY <1>18, CheckEscalates DEF Threads
  <1>19. CASE KmsgLogs
    <2>1. /\ Moved("kmsg", "acknowledge") /\ "kmsg" \in Threads /\ Where("kmsg") = "idle"
          /\ UNCHANGED <<source, errors, session, items, got, history>>
      BY <1>19, KmsgLogsStep, PollersAreThreads DEF Goes, Threads
    <2>2. Judged' => Judged /\ (Fails => Fails')
      BY <2>1 DEF Judged, Fails, Extra
    <2> QED BY <2>1, <2>2, EscalatesMoves DEF Pollers
  <1>20. CASE KmsgAcknowledges
    <2>1. /\ Moved("kmsg", "idle") /\ "kmsg" \in Threads /\ Where("kmsg") = "acknowledge"
          /\ UNCHANGED <<source, errors, items, got, history>> /\ session'.cursor = session.cursor
      BY <1>20, KmsgAcknowledgesStep DEF Goes, Threads
    <2>2. Judged' => Judged /\ (Fails => Fails')
      BY <2>1 DEF Judged, Fails, Extra
    <2> QED BY <2>1, <2>2, EscalatesMoves DEF Pollers
  <1>21. ASSUME NEW t \in Threads, Snapshot(t) PROVE Escalates'
    <2>1. /\ Moved(t, Where(t)) /\ t \in Threads
          /\ UNCHANGED <<source, errors, session, items, got, history>>
      BY <1>21, SnapshotStep DEF Snaps, Threads
    <2> QED BY <2>1, EscalatesStays
  <1>22. ASSUME NEW t \in Threads, Write(t) PROVE Escalates'
    <2>1. /\ Moved(t, Where(t)) /\ t \in Threads
          /\ UNCHANGED <<source, errors, session, items, got, history>>
      BY <1>22, WriteStep DEF Snaps, Threads
    <2> QED BY <2>1, EscalatesStays
  <1>23. ASSUME NEW t \in {"monitor", "kmsg"}, ThreadEnds(t) PROVE Escalates'
    <2>1. /\ Moved(t, "ended") /\ t \in Threads /\ Where(t) = "idle"
          /\ UNCHANGED <<source, errors, session, items, got, history>>
      BY <1>23, ThreadEndsStep, PollersAreThreads DEF Goes, Threads
    <2>2. Judged' => Judged /\ (Fails => Fails')
      BY <2>1 DEF Judged, Fails, Extra
    <2> QED BY <2>1, <2>2, EscalatesMoves
  <1>24. CASE Save
    <2>1. UNCHANGED <<source, errors, session, items, got, history, pc, then>>
      BY <1>24, SaveStep
    <2> QED BY <2>1 DEF Escalates, Judged, Fails, Extra, Compared, Prev, Where
  <1>25. CASE HeartbeatFlush
    <2>1. /\ Moved("heartbeat", Where("heartbeat")) /\ "heartbeat" \in Threads
          /\ UNCHANGED <<source, errors, session, items, got, history>>
      BY <1>25, HeartbeatFlushStep DEF Snaps, Threads
    <2> QED BY <2>1, EscalatesStays
  <1>26. CASE FinalSamples
    <2>1. /\ Moved("main", IF source \in Polled THEN "sample" ELSE "stop") /\ "main" \in Threads /\ Where("main") = "idle"
          /\ UNCHANGED <<source, errors, session, items, got, history>>
      BY <1>26, FinalSamplesStep, PollersAreThreads DEF Goes, Threads
    <2>2. Judged' => Judged /\ (Fails => Fails')
      BY <2>1 DEF Judged, Fails, Extra
    <2> QED BY <2>1, <2>2, EscalatesMoves
  <1>27. CASE StopMonitors
    <2>1. /\ Moved("main", "join") /\ "main" \in Threads /\ Where("main") = "stop"
          /\ UNCHANGED <<source, errors, session, items, got, history>>
      BY <1>27, StopMonitorsStep, PollersAreThreads DEF Goes, Threads
    <2>2. Judged' => Judged /\ (Fails => Fails')
      BY <2>1 DEF Judged, Fails, Extra
    <2> QED BY <2>1, <2>2, EscalatesMoves
  <1>28. CASE LastFlush
    <2>1. /\ Moved("main", "done") /\ "main" \in Threads /\ Where("main") = "join"
          /\ UNCHANGED <<source, errors, session, items, got>>
      BY <1>28, LastFlushStep DEF Snaps, Threads
    <2>2. SameStory
      BY <1>28, LastFlushStep DEF Bounded, History, SameStory
    <2>3. Judged' => Judged /\ (Fails => Fails')
      BY <2>1, <2>2, StaysJudged DEF Fails
    <2> QED BY <2>1, <2>3, EscalatesMoves
  <1>29. CASE UNCHANGED vars
    BY <1>29 DEF Escalates, Judged, Fails, Extra, Compared, Prev, Where, vars
  <1> QED BY <1>1, <1>2, <1>3, <1>4, <1>5, <1>6, <1>7, <1>8, <1>9, <1>10, <1>11, <1>12, <1>13,
             <1>14, <1>15, <1>16, <1>17, <1>18, <1>19, <1>20, <1>21, <1>22, <1>23, <1>24, <1>25,
             <1>26, <1>27, <1>28, <1>29
         DEF Next, Environment, Poll, Kmsg, Finalize, Over


-----------------------------------------------------------------------------
(* The kernel log *)

\* What is accounted for stays so, and a batch that is written is accounted for.
LEMMA LoggingMoves ==
    ASSUME Logging, UNCHANGED <<up, pos>>, got'["kmsg"] = got["kmsg"],
           session'.seq = session.seq, history'.torn = history.torn,
           history.unseen \subseteq history'.unseen, items.gaps \subseteq items'.gaps,
           \/ UNCHANGED <<logged, pending>>
           \/ logged' = logged \cup pending /\ pending' = {},
           NEW b, Where("kmsg")' = b,
           b \in {"open", "ended"} \/ Where("kmsg") \notin {"open", "ended"},
           b = "acknowledge" => pending' = {} \/ Where("kmsg") = "acknowledge",
           b = "process" => Where("kmsg") = "process"
    PROVE  Logging'
  <1>1. \A n : Accounted(n) => Accounted(n)'
    BY DEF Accounted
  <1>2. \A n : Accounted(n) \/ n \in pending => Accounted(n)' \/ n \in pending'
    BY <1>1 DEF Accounted
  <1>3. Reading' => Reading
    BY DEF Reading
  <1>4. Where("kmsg") = "acknowledge" => pending' = {}
    BY DEF Logging
  <1> QED BY <1>1, <1>2, <1>3, <1>4 DEF Logging

\* Another thread moves.
LEMMA LoggingElsewhere ==
    ASSUME Logging, NEW t \in Threads \ {"kmsg"}, NEW b, Moved(t, b),
           UNCHANGED <<up, pos, logged, pending>>, got'["kmsg"] = got["kmsg"],
           session'.seq = session.seq, history'.torn = history.torn,
           history.unseen \subseteq history'.unseen, items.gaps \subseteq items'.gaps
    PROVE  Logging'
  <1>1. Where("kmsg")' = Where("kmsg")
    BY DEF Moved, Threads
  <1> DEFINE c == Where("kmsg")
  <1>2. Where("kmsg")' = c /\ (c \in {"open", "ended"} \/ Where("kmsg") \notin {"open", "ended"})
    BY <1>1
  <1>3. (c = "acknowledge" => Where("kmsg") = "acknowledge") /\ (c = "process" => Where("kmsg") = "process")
    OBVIOUS
  <1> HIDE DEF c
  <1> QED BY <1>2, <1>3, LoggingMoves

\* A gap accounts for everything.
LEMMA GapLogs ==
    ASSUME items'.gaps # {}, Where("kmsg")' \notin {"acknowledge", "process"}
    PROVE  Logging'
  BY DEF Logging, Accounted

LEMMA LoggingKept ==
    ASSUME TypeOK, Placed, Bounded, Arrives, Logging, [Next]_vars
    PROVE  Logging'
  <1>1. CASE HardwareError
    <2>1. /\ history' = [history EXCEPT !.total = @ + 1]
          /\ UNCHANGED <<up, pos, logged, pending, got, session, items, pc, then>>
      BY <1>1, HardwareErrorStep
    <2>2. history'.torn = history.torn /\ history'.unseen = history.unseen
      BY <2>1 DEF Bounded, History
    <2> QED BY <2>1, <2>2 DEF Logging, Accounted, Reading, Where
  <1>2. CASE Die
    <2>1. /\ Stops /\ Where("kmsg")' = "idle" /\ session'.seq <= session.seq /\ session'.seq \in Nat
          /\ logged' = logged /\ (~history'.torn => ~history.torn /\ ~Flushing)
          /\ history' = [history EXCEPT !.died = TRUE, !.torn = @ \/ Flushing]
      BY <1>2, DieStep, StopsKeepLess
    <2>2. history'.unseen = history.unseen /\ items' = saved /\ up' = FALSE /\ session.seq \in Nat
      BY <2>1 DEF Bounded, History, Stops, Cursors
    <2>3. ASSUME ~history'.torn, NEW n \in 1..session'.seq PROVE Accounted(n)'
      <3>1. Accounted(n)
        BY <2>1, <2>2, <2>3 DEF Logging
      <3>2. items.gaps # {} => saved.gaps # {}
        BY <2>1, <2>3, AllWritten
      <3> QED BY <2>1, <2>2, <3>1, <3>2 DEF Accounted
    <2> QED BY <2>1, <2>2, <2>3 DEF Logging, Reading
  <1>3. CASE Reset
    <2>1. /\ Stops /\ Where("kmsg")' = "idle" /\ session'.seq <= session.seq /\ session'.seq \in Nat
          /\ session' = stored' /\ (source = "sel" \/ stored' = NoCursors)
      BY <1>3, ResetStep, StopsKeepLess
    <2>2. session'.seq = 0
      <3>1. source = "sel" => session.seq = 0
        BY DEF Placed, Bystanders, KernelTold
      <3> QED BY <2>1, <3>1 DEF NoCursors
    <2> QED BY <2>1, <2>2 DEF Stops, Logging, Reading
  <1>4. CASE Start
    <2>1. /\ Where("kmsg")' \in {"open", "ended"} /\ got'["kmsg"] = session.seq
          /\ UNCHANGED <<session, items, logged, pending, history>>
      BY <1>4, StartStep DEF Threads
    <2>2. \A n : Accounted(n)' <=> Accounted(n)
      BY <2>1 DEF Accounted
    <2> QED BY <2>1, <2>2 DEF Logging, Reading
  <1>5. ASSUME NEW t \in Pollers, BeginPoll(t) PROVE Logging'
    <2>1. /\ Moved(t, "read") /\ t \in Threads \ {"kmsg"}
          /\ UNCHANGED <<up, pos, logged, pending, got, session, history>>
          /\ items.gaps \subseteq items'.gaps
      BY <1>5, BeginPollStep DEF Goes, Pollers, Threads
    <2> QED BY <2>1, LoggingElsewhere
  <1>6. ASSUME NEW t \in Pollers, Raise(t) PROVE Logging'
    <2>1. /\ Moved(t, "leave") /\ t \in Threads \ {"kmsg"}
          /\ UNCHANGED <<up, pos, logged, pending, got, session, history>>
          /\ items.gaps \subseteq items'.gaps
      BY <1>6, RaiseStep DEF Goes, Pollers, Threads
    <2> QED BY <2>1, LoggingElsewhere
  <1>7. ASSUME NEW t \in Pollers, Read(t) PROVE Logging'
    <2>1. /\ \A u \in Threads \ {t} : got'[u] = got[u]
          /\ UNCHANGED <<up, pos, logged, pending, items>> /\ t \in Threads \ {"kmsg"} /\ "kmsg" \in Threads
      BY <1>7, ReadStep DEF Pollers, Threads
    <2>2. /\ \E b : Moved(t, b)
          /\ session'.seq = session.seq /\ history'.torn = history.torn
          /\ history'.unseen = history.unseen
      BY <1>7, ReadStep DEF Compares, Baselines, Goes, Bounded, History
    <2> QED BY <2>1, <2>2, LoggingElsewhere
  <1>8. ASSUME NEW t \in Pollers, Add(t) PROVE Logging'
    <2>1. /\ Moved(t, "check") /\ t \in Threads \ {"kmsg"}
          /\ UNCHANGED <<up, pos, logged, pending, got, session, history>>
          /\ items.gaps \subseteq items'.gaps
      BY <1>8, AddStep DEF Goes, Pollers, Threads
    <2> QED BY <2>1, LoggingElsewhere
  <1>9. ASSUME NEW t \in Pollers, Check(t) PROVE Logging'
    <2>1. /\ Moved(t, "advance") /\ t \in Threads \ {"kmsg"} /\ items'.gaps = items.gaps
      BY <1>9, CheckChecks, PollersAreThreads DEF Pollers, Threads
    <2>2. UNCHANGED <<up, pos, logged, pending, got, session, history>>
      BY <1>9 DEF Check, kernel
    <2> QED BY <2>1, <2>2, LoggingElsewhere
  <1>10. ASSUME NEW t \in Pollers, Advance(t) PROVE Logging'
    <2>1. /\ UNCHANGED <<up, pos, logged, pending, got, items, history>> /\ session'.seq = session.seq
          /\ t \in Threads \ {"kmsg"} /\ \E b : Moved(t, b)
      BY <1>10, AdvanceStep DEF Goes, Pollers, Threads
    <2> QED BY <2>1, LoggingElsewhere
  <1>11. ASSUME NEW t \in Pollers, SaveCursor(t) PROVE Logging'
    <2>1. /\ Moved(t, "leave") /\ t \in Threads \ {"kmsg"}
          /\ UNCHANGED <<up, pos, logged, pending, got, session, history>>
          /\ items.gaps \subseteq items'.gaps
      BY <1>11, SaveCursorStep DEF Goes, Pollers, Threads
    <2> QED BY <2>1, LoggingElsewhere
  <1>12. ASSUME NEW t \in Pollers, Leave(t) PROVE Logging'
    <2>1. /\ Goes(t, "leave", IF t = "main" THEN "stop" ELSE "idle")
          /\ \A u \in Threads \ {t} : got'[u] = got[u] /\ t \in Threads \ {"kmsg"} /\ "kmsg" \in Threads
          /\ UNCHANGED <<up, pos, logged, pending, session, items>>
      BY <1>12, LeaveStep DEF Pollers, Threads
    <2>2. history'.torn = history.torn /\ history'.unseen = history.unseen
      BY <1>12, LeaveStep DEF Bounded, History
    <2>3. Moved(t, IF t = "main" THEN "stop" ELSE "idle") /\ t \in Threads \ {"kmsg"} /\ got'["kmsg"] = got["kmsg"]
      BY <2>1 DEF Goes, Threads, Pollers
    <2> QED BY <2>1, <2>2, <2>3, LoggingElsewhere
  <1>13. CASE KmsgOpens
    <2>1. /\ Goes("kmsg", "open", "idle") /\ pos' = Oldest
          /\ history' = [history EXCEPT !.unseen = @ \cup (1..(Oldest - 1) \ logged)]
          /\ UNCHANGED <<session, items, up, got, pending, logged>>
      BY <1>13, KmsgOpensStep
    <2>2. /\ history'.torn = history.torn
          /\ history'.unseen = history.unseen \cup (1..(Oldest - 1) \ logged)
      BY <2>1 DEF Bounded, History
    <2>3. Where("kmsg")' = "idle"
      BY <2>1 DEF Goes, Moved
    <2>4. \A n : Accounted(n) => Accounted(n)'
      BY <2>1, <2>2 DEF Accounted
    <2>5. \A n \in 1..(pos' - 1) : Accounted(n)'
      BY <2>1, <2>2 DEF Accounted
    <2> QED BY <2>1, <2>2, <2>3, <2>4, <2>5 DEF Logging
  <1>14. CASE KmsgUnavailable
    <2>1. items'.gaps # {} /\ Where("kmsg")' = "ended"
      BY <1>14, KmsgUnavailableStep DEF Moved
    <2> QED BY <2>1, GapLogs
  <1>15. CASE KmsgReads
    <2>1. /\ Where("kmsg") = "idle" /\ up /\ up' /\ pos' = pos + 1 /\ pos \in Nat
          /\ UNCHANGED <<session, items, logged, history>>
      BY <1>15, KmsgReadsStep
    <2>2. Reading
      BY <2>1 DEF Reading
    <2>3. \A n : Accounted(n)' <=> Accounted(n)
      BY <2>1 DEF Accounted
    <2>4. got["kmsg"] \in Nat
      BY CountsAreNat
    <2>5. CASE Skips
      <3>1. /\ UNCHANGED <<got, pending>> /\ Where("kmsg")' = "idle" /\ pos <= got["kmsg"]
        BY <2>1, <2>5 DEF Skips, Where
      <3>2. \A n \in 1..(pos' - 1) : n \in 1..got["kmsg"]
        BY <2>1, <2>4, <3>1
      <3> QED BY <2>1, <2>3, <3>1, <3>2 DEF Logging
    <2>6. CASE Takes
      <3>1. /\ got'["kmsg"] = pos /\ pending' = pending \cup {pos} /\ Where("kmsg")' = "process"
        BY <2>6 DEF Takes, Goes, Moved
      <3>2. ASSUME ~history.torn, NEW n \in 1..pos PROVE Accounted(n)' \/ n \in pending'
        <4>1. CASE n = pos
          BY <3>1, <4>1
        <4>2. CASE n # pos
          <5>1. n \in 1..(pos - 1)
            BY <2>1, <4>2
          <5> QED BY <2>2, <2>3, <3>1, <3>2, <5>1 DEF Logging
        <4> QED BY <4>1, <4>2
      <3>3. pos' - 1 = pos
        BY <2>1
      <3> QED BY <2>1, <2>3, <3>1, <3>2, <3>3 DEF Logging
    <2> QED BY <1>15, <2>5, <2>6, KmsgReadsStep
  <1>16. CASE KmsgOverrun
    <2>1. items'.gaps # {} /\ Where("kmsg")' = "idle"
      BY <1>16, KmsgOverrunStep DEF Moved
    <2> QED BY <2>1, GapLogs
  <1>17. CASE KmsgProcesses
    <2>1. /\ Where("kmsg")' \in {"idle", "check"} /\ Where("kmsg") = "process"
          /\ UNCHANGED <<up, pos, got, session, history>> /\ items.gaps \subseteq items'.gaps
          /\ \/ UNCHANGED <<logged, pending>>
             \/ logged' = logged \cup pending /\ pending' = {}
      BY <1>17, KmsgProcessesStep DEF Goes, Moved, Threads
    <2> QED BY <2>1, LoggingMoves
  <1>18. CASE Check("kmsg")
    <2>1. Where("kmsg")' = "idle" /\ Where("kmsg") = "check" /\ items'.gaps = items.gaps
      BY <1>18, CheckChecks DEF Moved, Threads
    <2>2. UNCHANGED <<up, pos, logged, pending, got, session, history>>
      BY <1>18 DEF Check, kernel
    <2> QED BY <2>1, <2>2, LoggingMoves
  <1>19. CASE KmsgLogs
    <2>1. /\ Where("kmsg")' \in {"acknowledge"} /\ Where("kmsg") = "idle"
          /\ UNCHANGED <<up, pos, got, session, history>> /\ items.gaps \subseteq items'.gaps
          /\ \/ UNCHANGED <<logged, pending>>
             \/ logged' = logged \cup pending /\ pending' = {}
          /\ pending' = {}
      BY <1>19, KmsgLogsStep DEF Goes, Moved, Threads
    <2> QED BY <2>1, LoggingMoves
  <1>20. CASE KmsgAcknowledges
    <2>1. /\ Where("kmsg") = "acknowledge" /\ Where("kmsg")' = "idle" /\ session'.seq = got["kmsg"]
          /\ up /\ UNCHANGED <<items, up, got, pos, pending, logged, history>>
      BY <1>20, KmsgAcknowledgesStep DEF Goes, Moved
    <2>2. pending = {}
      BY <2>1 DEF Logging
    <2>3. \A n : Accounted(n)' <=> Accounted(n)
      BY <2>1 DEF Accounted
    <2> QED BY <2>1, <2>2, <2>3 DEF Logging, Reading
  <1>21. ASSUME NEW t \in Threads, Snapshot(t) PROVE Logging'
    <2>1. /\ \A u \in Threads : Where(u)' = Where(u)
          /\ UNCHANGED <<up, pos, logged, pending, got, session, items, history>>
      BY <1>21, SnapshotStep DEF Snaps, Moved
    <2>2. Where("kmsg")' = Where("kmsg")
      BY <2>1 DEF Threads
    <2> QED BY <2>1, <2>2 DEF Logging, Accounted, Reading
  <1>22. ASSUME NEW t \in Threads, Write(t) PROVE Logging'
    <2>1. /\ \A u \in Threads : Where(u)' = Where(u)
          /\ up /\ UNCHANGED <<pos, logged, pending, got, session, items, history>>
      BY <1>22, WriteStep DEF Moved
    <2>2. Where("kmsg")' = Where("kmsg")
      BY <2>1 DEF Threads
    <2> QED BY <2>1, <2>2 DEF Logging, Accounted, Reading
  <1>23. ASSUME NEW t \in {"monitor", "kmsg"}, ThreadEnds(t) PROVE Logging'
    <2>1. /\ Goes(t, "idle", "ended") /\ UNCHANGED <<up, pos, got, session, items, history>>
          /\ \/ t = "kmsg" /\ logged' = logged \cup pending /\ pending' = {}
             \/ t = "monitor" /\ UNCHANGED <<logged, pending>>
      BY <1>23, ThreadEndsStep
    <2>2. CASE t = "kmsg"
      <3>1. Where("kmsg")' = "ended"
        BY <2>1, <2>2 DEF Goes, Moved
      <3> QED BY <2>1, <2>2, <3>1, LoggingMoves
    <2>3. CASE t = "monitor"
      BY <2>1, <2>3, LoggingElsewhere DEF Goes, Threads
    <2> QED BY <2>2, <2>3
  <1>24. CASE Save
    <2>1. UNCHANGED <<up, pos, logged, pending, got, session, items, history, pc, then>>
      BY <1>24, SaveStep
    <2> QED BY <2>1 DEF Logging, Accounted, Reading, Where
  <1>25. CASE HeartbeatFlush
    <2>1. /\ \A u \in Threads : Where(u)' = Where(u)
          /\ UNCHANGED <<up, pos, logged, pending, got, session, items, history>>
      BY <1>25, HeartbeatFlushStep DEF Snaps, Moved
    <2>2. Where("kmsg")' = Where("kmsg")
      BY <2>1 DEF Threads
    <2> QED BY <2>1, <2>2 DEF Logging, Accounted, Reading
  <1>26. CASE FinalSamples
    <2>1. /\ Moved("main", IF source \in Polled THEN "sample" ELSE "stop") /\ "main" \in Threads \ {"kmsg"}
          /\ UNCHANGED <<up, pos, logged, pending, got, session, history>>
          /\ items.gaps \subseteq items'.gaps
      BY <1>26, FinalSamplesStep DEF Goes, Pollers, Threads
    <2> QED BY <2>1, LoggingElsewhere
  <1>27. CASE StopMonitors
    <2>1. /\ Moved("main", "join") /\ "main" \in Threads \ {"kmsg"}
          /\ UNCHANGED <<up, pos, logged, pending, got, session, history>>
          /\ items.gaps \subseteq items'.gaps
      BY <1>27, StopMonitorsStep DEF Goes, Pollers, Threads
    <2> QED BY <2>1, LoggingElsewhere
  <1>28. CASE LastFlush
    <2>1. /\ Moved("main", "done") /\ "main" \in Threads \ {"kmsg"}
          /\ UNCHANGED <<up, pos, logged, pending, got, session, items>>
      BY <1>28, LastFlushStep DEF Snaps, Threads
    <2>2. history'.torn = history.torn /\ history'.unseen = history.unseen
      BY <1>28, LastFlushStep DEF Bounded, History
    <2> QED BY <2>1, <2>2, LoggingElsewhere
  <1>29. CASE UNCHANGED vars
    BY <1>29 DEF Logging, Accounted, Reading, Where, vars
  <1> QED BY <1>1, <1>2, <1>3, <1>4, <1>5, <1>6, <1>7, <1>8, <1>9, <1>10, <1>11, <1>12, <1>13,
             <1>14, <1>15, <1>16, <1>17, <1>18, <1>19, <1>20, <1>21, <1>22, <1>23, <1>24, <1>25,
             <1>26, <1>27, <1>28, <1>29
         DEF Next, Environment, Poll, Kmsg, Finalize, Over

-----------------------------------------------------------------------------
(* Theorems *)

LEMMA InitIsBounded ==
    ASSUME Init
    PROVE  TypeOK /\ Bounded
<1>1. /\ source \in Sources /\ errors = 0 /\ session = NoCursors /\ stored = NoCursors
      /\ items = None /\ saved = None /\ dirty = FALSE /\ up = FALSE
      /\ Idle /\ logged = {} /\ left = Bounds[source]
  BY DEF Init
<1>2. Bounds[source] \in Left
  BY <1>1, CountersAssumption DEF Left
<1>3. None \in Findings /\ NoCursors \in Cursors
  BY DEF None, Findings, NoCursors, Cursors, Absent
<1>4. /\ pc \in [Threads -> Points] /\ then \in [Threads -> Points]
      /\ got \in [Threads -> Nat] /\ snap \in [Threads -> Findings]
      /\ lock = "free" /\ pos = 0 /\ pending = {}
      /\ \A t \in Threads : pc[t] = "idle" /\ then[t] = "idle" /\ got[t] = 0
  BY <1>1, <1>3 DEF Idle, Points
<1>5. TypeOK
  <2>1. /\ errors \in 0..Bounds[source].errors
        /\ \A c \in {session, stored} : c.cursor \in Absent..errors /\ c.seq \in 0..errors
    BY <1>1, <1>2 DEF Left, NoCursors, Absent
  <2>2. /\ pos \in 0..(errors + 1) /\ lock \in {"free"} \cup Pollers
        /\ pending \in SUBSET (1..errors) /\ logged \in SUBSET (1..errors)
    BY <1>1, <1>4
  <2>3. dirty \in BOOLEAN /\ up \in BOOLEAN
    BY <1>1
  <2> QED BY <1>1, <1>3, <1>4, <2>1, <2>2, <2>3 DEF TypeOK
<1>6. Advancing
  BY <1>4, PollersAreThreads DEF Advancing, Where
<1>7. history \in History /\ history.total = 0
  BY DEF Init, History
<1>8. /\ errors + left.errors <= Bounds[source].errors /\ errors <= history.total
      /\ stored.cursor <= session.cursor /\ stored.seq <= session.seq
      /\ \A t \in Threads : got[t] <= errors
  BY <1>1, <1>2, <1>4, <1>7 DEF Left, NoCursors, Absent
<1>9. Bounded
  BY <1>1, <1>2, <1>3, <1>6, <1>7, <1>8 DEF Bounded
<1> QED BY <1>5, <1>9

LEMMA InitIsSound ==
    ASSUME Init
    PROVE  CInv
<1>1. TypeOK /\ Bounded
  BY InitIsBounded
<1>2. /\ errors = 0 /\ session = NoCursors /\ stored = NoCursors
      /\ items = None /\ saved = None /\ dirty = FALSE /\ up = FALSE /\ Idle
      /\ history = [total |-> 0, earlier |-> 0, base |-> 0, sampled |-> 0,
                    unseen |-> {}, died |-> FALSE, torn |-> FALSE, reset |-> FALSE, quiet |-> FALSE]
  BY DEF Init
<1>3. /\ \A t \in Threads : /\ pc[t] = "idle" /\ then[t] = "idle" /\ got[t] = 0
                            /\ snap[t] = None /\ Where(t) = "idle"
      /\ Where("monitor") = "idle" /\ Where("main") = "idle" /\ Where("kmsg") = "idle"
      /\ Where("heartbeat") = "idle" /\ pc["main"] = "idle" /\ then["heartbeat"] = "idle"
      /\ got["kmsg"] = 0 /\ got["main"] = 0
  BY <1>2 DEF Idle, Where, Threads
<1>4. Placed
  BY <1>2, <1>3, PollersAreThreads
     DEF Placed, Spots, Bystanders, MonitorSpots, MainSpots, KmsgSpots, Polling, NoCursors
<1>5. Ahead
  BY <1>2, <1>3 DEF Ahead, Behind, None
<1>6. Arrives
  BY <1>2 DEF Arrives, None
<1>7. Prev = 0 /\ Counted = 0 /\ Processed = 0 /\ Extra \in Nat
  BY <1>2, <1>3 DEF Prev, NoCursors, Counted, Processed, Extra
<1>8. NotMore /\ NotLess /\ Evident
  BY <1>2, <1>3, <1>7 DEF NotMore, NotLess, Evident, None, NoCursors
<1>9. Sampled
  BY <1>3 DEF Sampled
<1>10. BaselineFirst
  BY <1>2, <1>3, PollersAreThreads DEF BaselineFirst, None, NoCursors
<1>11. Escalates
  BY <1>2, <1>3, PollersAreThreads, CountersAssumption DEF Escalates, Fails, None
<1>12. Quiet /\ Logging
  BY <1>2, <1>3 DEF Quiet, Logging, Reading, NoCursors
<1> QED BY <1>1, <1>4, <1>5, <1>6, <1>8, <1>9, <1>10, <1>11, <1>12 DEF CInv

\* The invariant of a source and of all that handles it.
THEOREM Invariant == Spec => []CInv
<1>1. ASSUME CInv, [Next]_vars PROVE CInv'
  <2>1. TypeOK' /\ Placed' /\ Bounded'
    BY <1>1, TypesKept, PlacedKept, BoundedKept DEF CInv
  <2>2. Ahead' /\ Arrives'
    BY <1>1, StepsOnFindings, AheadKept, ArrivesKept DEF CInv
  <2>3. NotMore' /\ NotLess' /\ Evident'
    BY <1>1, NotMoreKept, NotLessKept, EvidentKept DEF CInv
  <2>4. Sampled' /\ BaselineFirst'
    BY <1>1, SampledKept, BaselineFirstKept DEF CInv
  <2>5. Escalates' /\ Quiet' /\ Logging'
    BY <1>1, EscalatesKept, QuietKept, LoggingKept DEF CInv
  <2> QED BY <2>1, <2>2, <2>3, <2>4, <2>5 DEF CInv
<1> QED BY <1>1, InitIsSound, PTL DEF Spec

\* Types; and no cursor, in memory or on the stick, gets ahead of its source:
\* the cursors of a boot go with its counters.
THEOREM TypeCorrect == Spec => []TypeOK
<1>1. CInv => TypeOK
  BY DEF CInv
<1> QED BY <1>1, Invariant, PTL

\* poll_lock and the cursors kept per boot: no error is counted twice, by the
\* monitor and the final sample, by the monitor and the kernel log, or before and
\* after a reset, however many there are.
THEOREM OnceCounted == Spec => []CountedOnce
<1>1. ASSUME CInv, ~history.died, source = "sel" => ~history.reset
      PROVE  items.count <= history.total + Extra
  <2>1. TypeOK /\ Placed /\ Bounded /\ NotMore
    BY <1>1 DEF CInv
  <2>2. /\ Counted \in Nat /\ Counted <= errors /\ Processed \in Int /\ Processed <= errors
        /\ errors \in Nat
    BY <2>1, CountsAreNat DEF Processed
  <2>3. items.count \in Nat /\ history.total \in Nat /\ Extra \in Nat
    BY <2>1 DEF TypeOK, Findings, Bounded, History, Extra
  <2>4. \/ items.count <= (history.total - errors) + Extra + Counted
        \/ items.count <= (history.total - errors) + Extra + Processed
    BY <1>1, <2>1 DEF NotMore
  <2> QED BY <2>2, <2>3, <2>4
<1>2. CInv => CountedOnce
  BY <1>1 DEF CountedOnce
<1> QED BY <1>2, Invariant, PTL

\* finalize's mon.sample: with no restart, the report counts every error that the
\* final sample saw, unless it says that a poll was lost.
THEOREM CountsTheLast == Spec => []FinalCountIsComplete
<1>1. CInv => FinalCountIsComplete
  BY DEF CInv, Sampled, FinalCountIsComplete
<1> QED BY <1>1, Invariant, PTL

\* findings.add writes what is new or FAIL before the poll moves its cursor: a
\* cursor on the stick has its finding there, and all counts of an uncorrectable
\* error, across any number of deaths and resets outside a flush.
THEOREM HaveEvidence == Spec => []CursorsHaveEvidence
<1>1. ASSUME CInv, ~history.torn, ~Flushing, source \notin Baselined
      PROVE  LET cursor == IF stored.cursor = Absent THEN 0 ELSE stored.cursor
                 passed == history.earlier + cursor + stored.seq
             IN  /\ passed > 0 => saved.count > 0
                 /\ source = "ue" => saved.count >= passed
  <2> DEFINE cursor == IF stored.cursor = Absent THEN 0 ELSE stored.cursor
             passed == history.earlier + cursor + stored.seq
  <2>1. TypeOK /\ Placed /\ Bounded /\ Arrives /\ NotLess /\ Evident
    BY <1>1 DEF CInv
  <2>2. /\ cursor \in Nat /\ cursor <= Prev /\ Prev <= Counted /\ Counted \in Nat /\ Prev \in Nat
        /\ stored.seq \in Nat /\ stored.seq <= session.seq /\ session.seq \in Nat
        /\ history.earlier \in Nat /\ items.count \in Nat /\ saved.count \in Nat
    BY <2>1, CountsAreNat DEF TypeOK, Findings, Prev, Absent, Bounded, Cursors, History
  <2>3. (items.count > 0 => saved.count > 0) /\ (source = "ue" => saved.count >= items.count)
    BY <1>1, <2>1, AllWritten
  <2>4. passed > 0 => saved.count > 0
    <3>1. ASSUME saved.count = 0 PROVE passed = 0
      <4>1. items.count = 0
        BY <2>2, <2>3, <3>1
      <4>2. history.earlier = 0 /\ Counted = 0 /\ session.seq = 0
        BY <1>1, <2>1, <4>1 DEF Evident
      <4> HIDE DEF cursor
      <4> QED BY <2>2, <4>2
    <3> HIDE DEF cursor, passed
    <3> QED BY <2>2, <3>1
  <2>5. source = "ue" => saved.count >= passed
    <3> SUFFICES ASSUME source = "ue" PROVE saved.count >= passed
      OBVIOUS
    <3>1. session.seq = 0
      BY <2>1 DEF Placed, Bystanders, KernelTold
    <3>2. items.count >= history.earlier + Counted
      BY <1>1, <2>1 DEF NotLess
    <3> HIDE DEF cursor
    <3> QED BY <2>2, <2>3, <3>1, <3>2
  <2> QED BY <2>4, <2>5
<1>2. CInv => CursorsHaveEvidence
  BY <1>1 DEF CursorsHaveEvidence
<1> QED BY <1>2, Invariant, PTL

\* escalate: when the run ends after all monitors have, a count at the threshold
\* is a FAIL.  A threshold of 1 is left out where a monitor and the kernel log
\* both tell of an error: there a message that comes after the final sample
\* creates the finding, with a count of 1, and nobody compares it.
THEOREM ThresholdIsFailed == Spec => [](Threshold > Extra => ThresholdFails)
<1>1. ASSUME CInv, Threshold > Extra,
             pc["main"] = "done", history.quiet, ~history.reset, ~history.torn, saved.gaps = {},
             source \in Thresholded \ (IF history.died THEN {"mce"} ELSE {}),
             saved.count >= Threshold
      PROVE  saved.rank = 2
  <2>1. Placed /\ Escalates /\ Quiet
    BY <1>1 DEF CInv
  <2>2. Where("main") = "done"
    BY <1>1 DEF Where
  <2>3. pc["monitor"] = "ended" /\ pc["kmsg"] = "ended" /\ pc["heartbeat"] = "idle" /\ saved = items
    BY <1>1, <2>1, <2>2 DEF Quiet
  <2>4. ~Compared
    BY <2>2, <2>3 DEF Compared, Where, Threads
  <2>5. Judged
    BY <1>1, <2>3 DEF Judged
  <2>6. Fails
    BY <2>1, <2>4, <2>5 DEF Escalates
  <2> QED BY <1>1, <2>3, <2>6 DEF Fails
<1>2. CInv => (Threshold > Extra => ThresholdFails)
  BY <1>1 DEF ThresholdFails
<1> QED BY <1>2, Invariant, PTL

\* KmsgMonitor moves last_seq after the batch was synced: every record that it has
\* passed on the stick is in kernel.log, was gone when the device was opened, or
\* a finding says so.
THEOREM LogHasThePassed == Spec => []PassedIsLogged
<1>1. ASSUME CInv, ~history.torn, ~Flushing, NEW n \in 1..stored.seq
      PROVE  n \in logged \/ n \in history.unseen \/ saved.gaps # {}
  <2>1. Logging /\ Bounded /\ Arrives
    BY <1>1 DEF CInv
  <2>2. n \in 1..session.seq
    BY <2>1 DEF Bounded, Cursors
  <2>3. Accounted(n)
    BY <1>1, <2>1, <2>2 DEF Logging
  <2> QED BY <1>1, <2>1, <2>3, AllWritten DEF Accounted
<1>2. CInv => PassedIsLogged
  BY <1>1 DEF PassedIsLogged
<1> QED BY <1>2, Invariant, PTL
=============================================================================
