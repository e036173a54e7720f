------------------------ MODULE StickSessionsProofs ------------------------
(***************************************************************************)
(* One stick in any number of machines, however often they reset: whose    *)
(* session a start takes up, and that none of a machine is left behind.    *)
(***************************************************************************)
EXTENDS StickSessions, FiniteSetTheorems, TLAPS

-----------------------------------------------------------------------------
(* The place *)

\* A session is open.
Opened == {"save", "point", "run", "unlink", "served"}

\* The directories of a root have names in a row around the first one.
InARow(K) ==
    K = {} \/ \E lo, hi \in Names : lo <= MaxSessions /\ MaxSessions <= hi /\ K = lo..hi

Placed ==
    /\ pc # "off" => host \in Machines
    /\ pc \in Opened =>
          /\ cur \in Names /\ id \in Identity(host)
          /\ dirs[root][cur].status # "absent" /\ dirs[root][cur].id = id
    /\ \A r \in Roots : InARow(Known(r))
    /\ left \in [boots : Nat, deaths : Nat, faults : Nat]

-----------------------------------------------------------------------------
(* Where sessions are kept *)

Lost == slipped \/ spoilt \/ (~room /\ ~fat /\ part = "absent")

\* A medium that can be written is never given a data partition.
Stored ==
    /\ slipped \in BOOLEAN /\ spoilt \in BOOLEAN
    /\ fat => ~room /\ part = "absent"
    /\ mounted => part = "ready"
    /\ pc = "format" => part = "raw" /\ ~spoilt
    /\ spoilt => part = "raw" /\ ~room
    /\ part = "raw" => ~room /\ (spoilt \/ pc = "format")
    /\ part = "ready" => ~room
    /\ pc \in {"medium", "create"} /\ part = "ready" => slipped
    /\ pc = "create" /\ fat => slipped
    /\ pc \in Opened \cup {"open"} =>
          /\ root = "data" => part = "ready"
          /\ root = "medium" => fat
          /\ root = "ram" => Lost
    /\ Known("data") # {} => part = "ready"
    /\ Known("medium") # {} => fat

-----------------------------------------------------------------------------
(* Whose sessions they are *)

Owned ==
    /\ closed \subseteq Stick \X Names
    /\ \A r \in Stick, n \in Names : <<r, n>> \in closed => dirs[r][n].status = "over"
    /\ pc \in {"save", "point", "run"} => <<root, cur>> \notin closed
    /\ ran \in [Stick -> [Names -> SUBSET Machines]]
    /\ \A r \in Stick, n \in Names : \A m \in ran[r][n] :
           dirs[r][n].status # "absent" /\ dirs[r][n].id \in Identity(m)
    /\ pc \in Opened /\ root \in Stick => host \in ran[root][cur]

-----------------------------------------------------------------------------
(* Which session is found *)

\* Of n and a session a that a search has missed, the search does not take a:
\* n sorts after it, or so many sort after n that it is missed as well.
Hides(r, n, a) ==
    n > a \/ Cardinality({k \in Known(r) : k > n}) >= SearchLimit

Remembered(r, i) == {n \in Unfinished(r, i) : <<r, n>> \notin forgotten}

\* Of a machine_id a search can still miss one unfinished session at most, ...
OneRemembered ==
    \A r \in Stick, i \in Ids : \A a, b \in Remembered(r, i) : a = b

\* ... and takes none of those it has missed before it.
MissedAreHidden ==
    \A r \in Stick, i \in Ids : \A n \in Remembered(r, i), a \in Unfinished(r, i) :
        <<r, a>> \in forgotten => Hides(r, n, a)

\* A session is missed without its pointer, and among too many.
MissedAmongMany ==
    \A r \in Stick, n \in Names : <<r, n>> \in forgotten =>
        /\ dirs[r][n].status # "absent"
        /\ pointer[r][dirs[r][n].id] # n
        /\ Cardinality(Known(r)) > SearchLimit

NewIsNotMissed ==
    pc \in {"save", "point"} /\ root \in Stick => <<root, cur>> \notin forgotten

\* Next to the open session there are only missed ones.
OthersAreMissed ==
    pc \in {"save", "point", "run"} /\ root \in Stick =>
        \A n \in Unfinished(root, id) \ {cur} :
            /\ <<root, n>> \in forgotten
            /\ <<root, cur>> \in forgotten \/ Hides(root, cur, n)

Reachable ==
    OneRemembered /\ MissedAreHidden /\ MissedAmongMany /\ NewIsNotMissed /\ OthersAreMissed

StickInv == TypeOK /\ Placed /\ Stored /\ Owned /\ Reachable

-----------------------------------------------------------------------------
(* Names *)

\* Of the names there are finitely many, and more of them count for more.
LEMMA Counting ==
    /\ \A S \in SUBSET Names : IsFiniteSet(S) /\ Cardinality(S) \in Nat
    /\ \A S, T \in SUBSET Names : S \subseteq T => Cardinality(S) <= Cardinality(T)
    /\ \A S, T \in SUBSET Names : S \subseteq T /\ S # T => Cardinality(S) < Cardinality(T)
<1>1. Names \subseteq Int /\ IsFiniteSet(Names)
  BY StickAssumption, FS_Interval DEF Names
<1>2. \A S \in SUBSET Names : IsFiniteSet(S) /\ Cardinality(S) \in Nat
  BY <1>1, FS_Subset, FS_CardinalityType
<1>3. \A S, T \in SUBSET Names : S \subseteq T =>
          Cardinality(S) <= Cardinality(T) /\ (Cardinality(S) = Cardinality(T) => S = T)
  BY <1>2, FS_Subset
<1>4. QED
  BY <1>2, <1>3

\* Every set of names that is not empty has a last one.
LEMMA LastName ==
    ASSUME NEW S \in SUBSET Names, S # {}
    PROVE  \E n \in S : \A k \in S : k <= n
<1> DEFINE After(n) == {k \in S : k > n}
           Afters == {After(n) : n \in S}
<1>1. IsWellFoundedOn(StrictSubsetOrdering(Names), FiniteSubsetsOf(Names))
  BY FS_StrictSubsetOrderingWellFounded
<1>2. Afters \subseteq FiniteSubsetsOf(Names) /\ Afters # {}
  BY Counting DEF FiniteSubsetsOf
<1>3. PICK A \in Afters : \A B \in Afters : <<B, A>> \notin StrictSubsetOrdering(Names)
  <2> HIDE DEF Afters
  <2>1. QED
    BY <1>1, <1>2, WFMin
<1>4. PICK n \in S : A = After(n)
  OBVIOUS
<1>5. ASSUME NEW m \in S, m > n PROVE FALSE
  <2>1. After(m) \in Afters /\ After(m) \in SUBSET Names /\ After(n) \in SUBSET Names
    OBVIOUS
  <2>2. After(m) \subseteq After(n) /\ m \in After(n) /\ m \notin After(m)
    <3>1. S \subseteq Int
      BY StickAssumption DEF Names
    <3>2. m \in Int /\ n \in Int /\ m > n
      BY <1>5, <3>1
    <3>3. ~(m > m) /\ \A k \in S : k > m => k > n
      BY <3>1, <3>2
    <3>4. QED
      BY <3>2, <3>3
  <2>3. <<After(m), After(n)>> \in StrictSubsetOrdering(Names)
    <3> HIDE DEF After
    <3>1. QED
      BY <2>1, <2>2 DEF StrictSubsetOrdering
  <2>4. QED
    BY <1>3, <1>4, <2>1, <2>3
<1>6. QED
  BY <1>5, StickAssumption DEF Names

\* What Max and Min choose.
LEMMA MaxIs ==
    ASSUME NEW S \in SUBSET Names, S # {}
    PROVE  Max(S) \in S /\ \A k \in S : k <= Max(S)
<1>1. \E n \in S : \A k \in S : n >= k
  BY LastName, StickAssumption DEF Names
<1>2. QED
  BY <1>1, StickAssumption DEF Max, Names

\* A new name follows or precedes all others, and the names stay in a row.
LEMMA NewInARow ==
    ASSUME NEW K \in SUBSET Names, InARow(K), K # {}, Cardinality(K) < MaxSessions,
           NEW n \in {Max(K) + 1, Min(K) - 1}
    PROVE  /\ n \in Names \ K /\ InARow(K \cup {n})
           /\ (\A k \in K : k < n) \/ (\A k \in K : n < k)
<1>1. PICK lo, hi \in Names : lo <= MaxSessions /\ MaxSessions <= hi /\ K = lo..hi
  BY DEF InARow
<1>2. lo \in Int /\ hi \in Int /\ lo <= hi /\ 1 <= lo /\ hi <= 2 * MaxSessions
      /\ MaxSessions \in Nat
  BY <1>1, StickAssumption DEF Names
<1>3. hi - lo + 1 < MaxSessions
  BY <1>1, <1>2, FS_Interval
<1>4. Max(K) = hi
  <2>1. hi \in K /\ \A k \in K : k <= hi
    BY <1>1, <1>2
  <2>2. QED
    BY <1>1, <1>2, <2>1, MaxIs
<1>5. Min(K) = lo
  <2>1. \A x \in K : (\A y \in K : x =< y) <=> x = lo
    BY <1>1, <1>2
  <2>2. lo \in K
    BY <1>1, <1>2
  <2>3. QED
    BY <2>1, <2>2 DEF Min
<1>6. CASE n = Max(K) + 1
  <2>1. n = hi + 1 /\ n \in Names
    BY <1>1, <1>2, <1>3, <1>4, <1>6 DEF Names
  <2>2. K \cup {n} = lo..n /\ n \notin K /\ \A k \in K : k < n
    BY <1>1, <1>2, <2>1
  <2>3. MaxSessions <= n
    BY <1>1, <1>2, <2>1
  <2>4. QED
    BY <1>1, <2>1, <2>2, <2>3 DEF InARow
<1>7. CASE n = Min(K) - 1
  <2>1. n = lo - 1 /\ n \in Names
    BY <1>1, <1>2, <1>3, <1>5, <1>7 DEF Names
  <2>2. K \cup {n} = n..hi /\ n \notin K /\ \A k \in K : n < k
    BY <1>1, <1>2, <2>1
  <2>3. n <= MaxSessions
    BY <1>1, <1>2, <2>1
  <2>4. QED
    BY <1>1, <2>1, <2>2, <2>3 DEF InARow
<1>8. QED
  BY <1>6, <1>7

\* What NewNames offers.
LEMMA NewNameIs ==
    ASSUME NEW r \in Roots, InARow(Known(r)), NEW n \in NewNames(r)
    PROVE  /\ n \in Names \ Known(r) /\ InARow(Known(r) \cup {n})
           /\ (\A k \in Known(r) : k < n) \/ (\A k \in Known(r) : n < k)
<1>1. CASE Known(r) = {}
  <2>1. n = MaxSessions /\ n \in Names
    BY <1>1, StickAssumption DEF NewNames, Names
  <2>2. Known(r) \cup {n} = n..n
    BY <1>1, <2>1, StickAssumption
  <2>3. n <= MaxSessions /\ MaxSessions <= n
    BY <2>1, StickAssumption
  <2>4. QED
    BY <1>1, <2>1, <2>2, <2>3 DEF InARow
<1>2. CASE Known(r) # {}
  <2>1. Known(r) \in SUBSET Names
    BY DEF Known
  <2>2. Cardinality(Known(r)) < MaxSessions /\ n \in {Max(Known(r)) + 1, Min(Known(r)) - 1}
    BY <1>2, Zenon DEF NewNames
  <2>3. QED
    BY <1>2, <2>1, <2>2, NewInARow
<1>3. QED
  BY <1>1, <1>2

-----------------------------------------------------------------------------
(* What the steps write *)

LEMMA Identities ==
    /\ \A m \in Machines : Identity(m) \subseteq Ids /\ m \in Ids
    /\ NoMac \in Ids
    /\ NoName \notin Names
    /\ \A s \in {"empty", "running", "over"}, i \in Ids :
           /\ [status |-> s, id |-> i] \in Dir
           /\ [status |-> s, id |-> i].status = s /\ [status |-> s, id |-> i].id = i
    /\ NoDir \in Dir /\ NoDir.status = "absent"
  BY StickAssumption DEF Identity, Ids, Dir, NoDir, NoName, Names

\* One directory is written.
LEMMA Writing ==
    ASSUME TypeOK, NEW r \in Roots, NEW n \in Names, NEW d \in Dir,
           dirs' = [dirs EXCEPT ![r][n] = d]
    PROVE  /\ dirs' \in [Roots -> [Names -> Dir]]
           /\ \A s \in Roots, k \in Names :
                  dirs'[s][k] = IF s = r /\ k = n THEN d ELSE dirs[s][k]
  BY DEF TypeOK

\* A save changes the status of the open session and nothing else.
LEMMA Saving ==
    ASSUME TypeOK, Placed, pc \in Opened, mem' \in {"running", "over"}, Save
    PROVE  /\ dirs' \in [Roots -> [Names -> Dir]]
           /\ left' \in [boots : Nat, deaths : Nat, faults : Nat]
           /\ \A r \in Roots, n \in Names :
                  /\ dirs'[r][n].id = dirs[r][n].id
                  /\ dirs'[r][n].status = "absent" <=> dirs[r][n].status = "absent"
                  /\ \/ dirs'[r][n] = dirs[r][n]
                     \/ r = root /\ n = cur /\ dirs'[r][n].status = mem'
<1>1. root \in Roots /\ cur \in Names /\ id \in Ids
      /\ dirs[root][cur].status # "absent" /\ dirs[root][cur].id = id
  BY DEF TypeOK, Placed
<1>2. CASE dirs' = [dirs EXCEPT ![root][cur] = [status |-> mem', id |-> id]] /\ UNCHANGED left
  <2> DEFINE d == [status |-> mem', id |-> id]
  <2>1. d \in Dir /\ d.status = mem' /\ d.id = id
    BY <1>1, Identities
  <2> HIDE DEF d
  <2>2. /\ dirs' \in [Roots -> [Names -> Dir]]
        /\ \A s \in Roots, k \in Names :
               dirs'[s][k] = IF s = root /\ k = cur THEN d ELSE dirs[s][k]
    <3>1. dirs' = [dirs EXCEPT ![root][cur] = d]
      BY <1>2 DEF d
    <3>2. QED
      BY <1>1, <2>1, <3>1, Writing
  <2>3. left' \in [boots : Nat, deaths : Nat, faults : Nat]
    BY <1>2 DEF Placed
  <2>4. QED
    BY <1>1, <2>1, <2>2, <2>3
<1>3. CASE Fault /\ UNCHANGED dirs
  <2>1. left' \in [boots : Nat, deaths : Nat, faults : Nat]
    BY <1>3 DEF Placed, Fault
  <2>2. QED
    BY <1>3, <2>1 DEF TypeOK
<1>4. QED
  BY <1>2, <1>3 DEF Save

\* The names of a root depend on which of its directories there are.
LEMMA KnownSame ==
    ASSUME NEW r, \A n \in Names :
               dirs'[r][n].status = "absent" <=> dirs[r][n].status = "absent"
    PROVE  Known(r)' = Known(r)
  BY DEF Known

\* What a search finds: an unfinished session with this machine_id.
LEMMA FindingIs ==
    ASSUME NEW r, NEW i, Found(r, i) # NoName
    PROVE  Found(r, i) \in Unfinished(r, i) \cap Candidates(r, i)
<1> DEFINE running == Unfinished(r, i) \cap Candidates(r, i)
<1>1. CASE pointer[r][i] \in running
  BY <1>1 DEF Found
<1>2. CASE pointer[r][i] \notin running
  <2>1. running # {} /\ running \in SUBSET Names /\ Found(r, i) = Max(running)
    BY <1>2 DEF Found, Unfinished
  <2>2. QED
    BY <2>1, MaxIs
<1>3. QED
  BY <1>1, <1>2

\* The two ways to open a session.
LEMMA Opening ==
    ASSUME TypeOK, Placed, Open
    PROVE  /\ id' \in Identity(host) /\ id' \in Ids /\ host' = host /\ host \in Machines
           /\ root' = root /\ mem' = "running" /\ cur' \in Names
           /\ UNCHANGED <<stick, pointer, left, slipped, spoilt, closed>>
           /\ ran' = IF root = "ram" THEN ran ELSE [ran EXCEPT ![root][cur'] = @ \cup {host}]
           /\ \/ /\ cur' = Found(root, id') /\ UNCHANGED dirs /\ pc' = "run"
                 /\ cur' \in Unfinished(root, id') \cap Candidates(root, id')
              \/ /\ Found(root, id') = NoName /\ cur' \in NewNames(root) /\ pc' = "save"
                 /\ cur' \notin Known(root) /\ InARow(Known(root) \cup {cur'})
                 /\ (\A k \in Known(root) : k < cur') \/ (\A k \in Known(root) : cur' < k)
                 /\ dirs' \in [Roots -> [Names -> Dir]]
                 /\ \A s \in Roots, k \in Names :
                        dirs'[s][k] = IF s = root /\ k = cur'
                                      THEN [status |-> "empty", id |-> id'] ELSE dirs[s][k]
<1>1. root \in Roots /\ host \in Machines /\ InARow(Known(root))
  BY DEF TypeOK, Placed, Open
<1>2. id' \in Identity(host) /\ id' \in Ids
  BY <1>1, Identities DEF Open
<1>3. CASE /\ Found(root, id') # NoName
           /\ cur' = Found(root, id') /\ Runs(Found(root, id')) /\ pc' = "run"
           /\ UNCHANGED dirs
  <2>1. cur' \in Unfinished(root, id') \cap Candidates(root, id')
    BY <1>3, FindingIs
  <2>2. QED
    BY <1>1, <1>2, <1>3, <2>1 DEF Open, Runs, Unfinished
<1>4. CASE /\ Found(root, id') = NoName
           /\ \E n \in NewNames(root) :
                 /\ cur' = n /\ Runs(n)
                 /\ dirs' = [dirs EXCEPT ![root][n] = [status |-> "empty", id |-> id']]
           /\ pc' = "save"
  <2>1. cur' \in NewNames(root)
        /\ ran' = (IF root = "ram" THEN ran ELSE [ran EXCEPT ![root][cur'] = @ \cup {host}])
        /\ dirs' = [dirs EXCEPT ![root][cur'] = [status |-> "empty", id |-> id']]
    BY <1>4 DEF Runs
  <2>2. cur' \in Names /\ cur' \notin Known(root) /\ InARow(Known(root) \cup {cur'})
        /\ ((\A k \in Known(root) : k < cur') \/ (\A k \in Known(root) : cur' < k))
    BY <1>1, <2>1, NewNameIs
  <2> DEFINE d == [status |-> "empty", id |-> id']
  <2>3. d \in Dir
    BY <1>2, Identities
  <2>4. /\ dirs' \in [Roots -> [Names -> Dir]]
        /\ \A s \in Roots, k \in Names :
               dirs'[s][k] = IF s = root /\ k = cur' THEN d ELSE dirs[s][k]
    <3>1. dirs' = [dirs EXCEPT ![root][cur'] = d]
      BY <2>1
    <3> HIDE DEF d
    <3>2. QED
      BY <1>1, <2>2, <2>3, <3>1, Writing
  <2>5. QED
    BY <1>1, <1>2, <1>4, <2>1, <2>2, <2>4 DEF Open
<1>5. QED
  BY <1>3, <1>4 DEF Open

-----------------------------------------------------------------------------
(* The state keeps its shape *)

LEMMA TypeStep ==
    ASSUME TypeOK, Placed, Next
    PROVE  TypeOK'
<1>1. ASSUME NEW m \in Machines, Boot(m) PROVE TypeOK'
  BY <1>1 DEF TypeOK, Boot, stick, session, history
<1>2. ASSUME NEW r \in Stick, NEW i \in Ids, LosePointer(r, i) PROVE TypeOK'
  BY <1>2 DEF TypeOK, LosePointer, stick, session, history, Roots
<1>3. CASE Reset
  <2>1. [n \in Names |-> NoDir] \in [Names -> Dir]
        /\ [i \in Ids |-> NoName] \in [Ids -> Names \cup {NoName}]
    BY Identities
  <2>2. dirs' \in [Roots -> [Names -> Dir]]
        /\ pointer' \in [Roots -> [Ids -> Names \cup {NoName}]]
    BY <1>3, <2>1 DEF TypeOK, Reset
  <2>3. QED
    BY <1>3, <2>2, Identities DEF TypeOK, Reset, Leave, stick, Roots
<1>4. CASE Die
  BY <1>4, Identities DEF TypeOK, Die, Leave, stick, Roots
<1>5. CASE UseData \/ UseMedium \/ Format \/ FormatFails \/ UseRam
  <2>1. UNCHANGED <<dirs, pointer, host, id, cur, mem>> /\ pc' = "open"
        /\ root' \in Roots /\ part' \in {part, "ready"}
        /\ room' = room /\ fat' = fat /\ mounted' \in {mounted, TRUE}
    BY <1>5 DEF UseData, UseMedium, Format, FormatFails, UseRam, Settle, stick, session,
                Roots, Stick
  <2>2. QED
    BY <2>1 DEF TypeOK
<1>6. CASE PassData \/ PassMedium \/ AddPartition
  BY <1>6 DEF TypeOK, PassData, PassMedium, AddPartition, stick, session, history
<1>7. CASE Open
  <2>1. dirs' \in [Roots -> [Names -> Dir]]
    BY <1>7, Opening DEF TypeOK
  <2>2. /\ UNCHANGED <<room, fat, part, pointer, host, mounted, root>>
        /\ id' \in Ids /\ pc' \in {"run", "save"} /\ cur' \in Names /\ mem' = "running"
    BY <1>7, Opening DEF Open, stick
  <2>3. QED
    BY <2>1, <2>2 DEF TypeOK
<1>8. CASE FirstSave \/ Update
  <2>1. Save /\ pc \in Opened /\ mem' = mem /\ mem \in {"running", "over"}
    BY <1>8 DEF FirstSave, Update, Opened, session, TypeOK
  <2>2. dirs' \in [Roots -> [Names -> Dir]]
    BY <2>1, Saving
  <2>3. QED
    BY <1>8, <2>2 DEF TypeOK, FirstSave, Update, stick, session, history
<1>9. CASE Finish
  <2>1. dirs' \in [Roots -> [Names -> Dir]]
    BY <1>9, Saving DEF Finish, Opened
  <2>2. QED
    BY <1>9, <2>1 DEF TypeOK, Finish, stick
<1>10. CASE WritePointer
  <2>1. pointer' \in [Roots -> [Ids -> Names \cup {NoName}]]
    BY <1>10 DEF TypeOK, WritePointer
  <2>2. QED
    BY <1>10, <2>1 DEF TypeOK, WritePointer, stick, session
<1>11. CASE PointerFails
  BY <1>11, Identities DEF TypeOK, PointerFails, Leave, stick, Roots
<1>12. CASE Unlink
  <2>1. pointer' \in [Roots -> [Ids -> Names \cup {NoName}]]
    <3>1. pointer' = [pointer EXCEPT ![root][id] = NoName] \/ UNCHANGED pointer
      BY <1>12 DEF Unlink
    <3>2. QED
      BY <3>1 DEF TypeOK
  <2>2. QED
    BY <1>12, <2>1 DEF TypeOK, Unlink, stick, session
<1>13. QED
  BY <1>1, <1>2, <1>3, <1>4, <1>5, <1>6, <1>7, <1>8, <1>9, <1>10, <1>11, <1>12 DEF Next

\* The steps that write no directory, open no session and end none.
Quiet ==
    /\ UNCHANGED <<dirs, forgotten, closed, ran>>
    /\ pc' \notin Opened
       \/ /\ pc \in Opened /\ UNCHANGED <<root, cur, id, host>>
          /\ pc' \in {"save", "point"} => pc' = pc
          /\ pc' = "run" => pc \in {"point", "run"}

LEMMA QuietSteps ==
    ASSUME TypeOK, Next
    PROVE  Quiet \/ Reset \/ Open \/ FirstSave \/ Update \/ Finish
<1>1. ASSUME NEW m \in Machines, Boot(m) PROVE Quiet
  BY <1>1 DEF Boot, Quiet, Opened, history
<1>2. ASSUME NEW r \in Stick, NEW i \in Ids, LosePointer(r, i) PROVE Quiet
  BY <1>2 DEF LosePointer, Quiet, Opened, history
<1>3. CASE Die \/ PointerFails
  BY <1>3 DEF Die, PointerFails, Leave, Quiet, Opened
<1>4. CASE UseData \/ UseMedium \/ Format \/ FormatFails \/ UseRam
  BY <1>4 DEF UseData, UseMedium, Format, FormatFails, UseRam, Settle, Quiet, Opened
<1>5. CASE PassData \/ PassMedium \/ AddPartition
  BY <1>5 DEF PassData, PassMedium, AddPartition, Quiet, Opened, history
<1>6. CASE WritePointer \/ Unlink
  BY <1>6 DEF WritePointer, Unlink, Quiet, Opened, history, session
<1>7. QED
  BY <1>1, <1>2, <1>3, <1>4, <1>5, <1>6 DEF Next

\* The names of a root, after a step.
LEMMA KnownAfter ==
    ASSUME TypeOK, Placed, Next, NEW r \in Roots
    PROVE  \/ Known(r)' = Known(r)
           \/ Reset /\ r = "ram" /\ Known(r)' = {}
           \/ Open /\ r = root /\ Known(r)' = Known(r) \cup {cur'} /\ cur' \in NewNames(r)
<1>1. CASE Quiet
  BY <1>1 DEF Quiet, Known
<1>2. CASE Reset
  <2>1. r # "ram" => dirs'[r] = dirs[r]
    BY <1>2 DEF Reset, TypeOK
  <2>2. r = "ram" => dirs'[r] = [n \in Names |-> NoDir]
    BY <1>2 DEF Reset, TypeOK
  <2>3. QED
    BY <1>2, <2>1, <2>2, Identities DEF Known
<1>3. CASE Open
  <2>1. CASE UNCHANGED dirs
    BY <2>1 DEF Known
  <2>2. CASE /\ cur' \in NewNames(root)
             /\ \A s \in Roots, k \in Names :
                    dirs'[s][k] = IF s = root /\ k = cur'
                                  THEN [status |-> "empty", id |-> id'] ELSE dirs[s][k]
    <3>1. cur' \in Names
      BY <1>3, Opening
    <3>2. QED
      BY <1>3, <2>2, <3>1 DEF Known
  <2>3. QED
    BY <1>3, <2>1, <2>2, Opening
<1>4. CASE FirstSave \/ Update \/ Finish
  <2>1. Save /\ pc \in Opened /\ mem' \in {"running", "over"}
    BY <1>4 DEF FirstSave, Update, Finish, Opened, session, TypeOK
  <2>2. QED
    BY <2>1, Saving, KnownSame
<1>5. QED
  BY <1>1, <1>2, <1>3, <1>4, QuietSteps

-----------------------------------------------------------------------------
(* Every session is in its place *)

LEMMA HostStep ==
    ASSUME Placed, Next
    PROVE  (pc # "off" => host \in Machines)'
<1>1. ASSUME NEW m \in Machines, Boot(m) PROVE (pc # "off" => host \in Machines)'
  BY <1>1 DEF Boot
<1>2. ASSUME NEW r \in Stick, NEW i \in Ids, LosePointer(r, i)
      PROVE  (pc # "off" => host \in Machines)'
  BY <1>2 DEF LosePointer
<1>3. CASE Reset
  BY <1>3 DEF Reset
<1>4. CASE /\ Next /\ ~Reset /\ \A m \in Machines : ~Boot(m)
           /\ \A r \in Stick, i \in Ids : ~LosePointer(r, i)
  <2>1. pc # "off" /\ host' = host
    BY <1>4 DEF Next, Die, UseData, PassData, UseMedium, PassMedium, AddPartition, Format,
                FormatFails, UseRam, Settle, Open, FirstSave, WritePointer, PointerFails,
                Update, Finish, Unlink
  <2>2. QED
    BY <2>1 DEF Placed
<1>5. QED
  BY <1>1, <1>2, <1>3, <1>4

LEMMA LeftStep ==
    ASSUME TypeOK, Placed, Next
    PROVE  left' \in [boots : Nat, deaths : Nat, faults : Nat]
<1>1. ASSUME Fault PROVE left' \in [boots : Nat, deaths : Nat, faults : Nat]
  BY <1>1 DEF Placed, Fault
<1>2. ASSUME UNCHANGED left PROVE left' \in [boots : Nat, deaths : Nat, faults : Nat]
  BY <1>2 DEF Placed
<1>3. ASSUME NEW m \in Machines, Boot(m)
      PROVE  left' \in [boots : Nat, deaths : Nat, faults : Nat]
  BY <1>3 DEF Placed, Boot
<1>4. CASE Die
  BY <1>4 DEF Placed, Die
<1>5. CASE FirstSave \/ Update \/ Finish
  <2>1. Fault \/ UNCHANGED left
    BY <1>5 DEF FirstSave, Update, Finish, Save
  <2>2. QED
    BY <1>1, <1>2, <2>1
<1>6. ASSUME NEW r \in Stick, NEW i \in Ids, LosePointer(r, i)
      PROVE  left' \in [boots : Nat, deaths : Nat, faults : Nat]
  BY <1>1, <1>6 DEF LosePointer
<1>7. CASE Reset \/ UseData \/ PassData \/ UseMedium \/ PassMedium \/ AddPartition
           \/ Format \/ FormatFails \/ UseRam \/ Open \/ WritePointer \/ PointerFails
           \/ Unlink
  <2>1. Fault \/ UNCHANGED left
    BY <1>7 DEF Reset, UseData, PassData, UseMedium, PassMedium, AddPartition, Format,
                FormatFails, UseRam, Open, WritePointer, PointerFails, Unlink
  <2>2. QED
    BY <1>1, <1>2, <2>1
<1>8. QED
  BY <1>3, <1>4, <1>5, <1>6, <1>7 DEF Next

LEMMA PlacedStep ==
    ASSUME TypeOK, Placed, Next
    PROVE  Placed'
<1>1. \A r \in Roots : InARow(Known(r)')
  <2> SUFFICES ASSUME NEW r \in Roots PROVE InARow(Known(r)')
    OBVIOUS
  <2>1. InARow(Known(r)) /\ InARow({})
    BY DEF Placed, InARow
  <2>2. CASE Open /\ r = root /\ Known(r)' = Known(r) \cup {cur'} /\ cur' \in NewNames(r)
    BY <2>1, <2>2, NewNameIs
  <2>3. QED
    BY <2>1, <2>2, KnownAfter
<1>2. (pc \in Opened =>
          /\ cur \in Names /\ id \in Identity(host)
          /\ dirs[root][cur].status # "absent" /\ dirs[root][cur].id = id)'
  <2>1. CASE Quiet
    BY <2>1 DEF Quiet, Placed
  <2>2. CASE Reset
    BY <2>2 DEF Reset, Opened
  <2>3. CASE Open
    <3>1. root \in Roots /\ cur' \in Names /\ root' = root /\ id' \in Identity(host)
          /\ host' = host
      BY <2>3, Opening DEF TypeOK
    <3>2. CASE cur' \in Unfinished(root, id') /\ UNCHANGED dirs
      <4>1. dirs[root][cur'] = [status |-> "running", id |-> id']
        BY <3>2 DEF Unfinished
      <4>2. QED
        BY <3>1, <3>2, <4>1
    <3>3. CASE \A s \in Roots, k \in Names :
                  dirs'[s][k] = IF s = root /\ k = cur'
                                THEN [status |-> "empty", id |-> id'] ELSE dirs[s][k]
      <4>1. dirs'[root'][cur'] = [status |-> "empty", id |-> id']
        BY <3>1, <3>3
      <4>2. QED
        BY <3>1, <4>1
    <3>4. QED
      BY <2>3, <3>2, <3>3, Opening
  <2>4. CASE FirstSave \/ Update \/ Finish
    <3>1. /\ Save /\ pc \in Opened /\ mem' \in {"running", "over"}
          /\ UNCHANGED <<root, cur, id, host>>
      BY <2>4 DEF FirstSave, Update, Finish, Opened, session, TypeOK
    <3>2. QED
      BY <3>1, Saving DEF Placed, TypeOK
  <2>5. QED
    BY <2>1, <2>2, <2>3, <2>4, QuietSteps
<1>3. QED
  BY <1>1, <1>2, HostStep, LeftStep DEF Placed

-----------------------------------------------------------------------------
(* Sessions are where the stick has room for them *)

\* No session appears where it is not kept.
LEMMA KnownWhere ==
    ASSUME TypeOK, Placed, Next, NEW r \in Roots, Known(r)' # {}
    PROVE  Known(r) # {} \/ (pc = "open" /\ r = root)
<1>1. Open => pc = "open"
  BY DEF Open
<1>2. \/ Known(r)' = Known(r)
      \/ Known(r)' = {}
      \/ Open /\ r = root
  BY KnownAfter
<1>3. QED
  BY <1>1, <1>2

LEMMA StoredStep ==
    ASSUME TypeOK, Placed, Stored, Next
    PROVE  Stored'
<1>1. (Known("data") # {})' => Known("data") # {} \/ (pc = "open" /\ root = "data")
  BY KnownWhere DEF Roots, Stick
<1>2. (Known("medium") # {})' => Known("medium") # {} \/ (pc = "open" /\ root = "medium")
  BY KnownWhere DEF Roots, Stick
<1>3. (Known("data") # {})' => part = "ready"
  BY <1>1 DEF Stored
<1>4. (Known("medium") # {})' => fat
  BY <1>2 DEF Stored
<1> DEFINE Kept ==
        /\ slipped \in BOOLEAN /\ spoilt \in BOOLEAN
        /\ fat => ~room /\ part = "absent"
        /\ mounted => part = "ready"
        /\ pc = "format" => part = "raw" /\ ~spoilt
        /\ spoilt => part = "raw" /\ ~room
        /\ part = "raw" => ~room /\ (spoilt \/ pc = "format")
        /\ part = "ready" => ~room
        /\ pc \in {"medium", "create"} /\ part = "ready" => slipped
        /\ pc = "create" /\ fat => slipped
        /\ pc \in Opened \cup {"open"} =>
              /\ root = "data" => part = "ready"
              /\ root = "medium" => fat
              /\ root = "ram" => Lost
<1>5. Kept /\ part \in {"absent", "raw", "ready"}
  BY DEF Stored, TypeOK
<1>6. Kept' /\ (part = "ready" => part' = "ready") /\ fat' = fat
  <2>1. ASSUME NEW m \in Machines, Boot(m)
        PROVE  Kept' /\ part' = part /\ fat' = fat
    BY <1>5, <2>1 DEF Boot, stick, history, Opened, Lost
  <2>2. ASSUME NEW r \in Stick, NEW i \in Ids, LosePointer(r, i)
        PROVE  Kept' /\ part' = part /\ fat' = fat
    BY <1>5, <2>2 DEF LosePointer, stick, history, Opened, Lost
  <2>3. CASE Reset \/ Die \/ PointerFails
    <3>1. CASE Reset
      BY <1>5, <3>1 DEF Reset, Leave, stick, Opened, Lost
    <3>2. CASE Die
      BY <1>5, <3>2 DEF Die, Leave, stick, Opened, Lost
    <3>3. CASE PointerFails
      BY <1>5, <3>3 DEF PointerFails, Leave, stick, Opened, Lost
    <3>4. QED
      BY <2>3, <3>1, <3>2, <3>3
  <2>4. CASE UseData \/ UseMedium
    BY <1>5, <2>4 DEF UseData, UseMedium, Settle, stick, Opened, Lost
  <2>5. CASE Format \/ FormatFails
    <3>1. CASE Format
      BY <1>5, <3>1 DEF Format, Settle, Opened, Lost
    <3>2. CASE FormatFails
      <4>1. /\ part = "raw" /\ ~room /\ ~mounted /\ ~fat /\ ~spoilt
            /\ pc' = "open" /\ root' = "ram" /\ UNCHANGED <<room, fat, mounted>>
        BY <1>5, <3>2 DEF FormatFails, Settle
      <4>2. \/ spoilt' = TRUE /\ part' = part /\ slipped' = slipped
            \/ part' = "ready" /\ slipped' = TRUE /\ spoilt' = spoilt
        BY <3>2 DEF FormatFails
      <4>3. CASE spoilt' = TRUE /\ part' = part /\ slipped' = slipped
        BY <1>5, <4>1, <4>3 DEF Opened, Lost
      <4>4. CASE part' = "ready" /\ slipped' = TRUE /\ spoilt' = spoilt
        BY <1>5, <4>1, <4>4 DEF Opened, Lost
      <4>5. QED
        BY <4>2, <4>3, <4>4
    <3>3. QED
      BY <2>5, <3>1, <3>2
  <2>6. CASE UseRam
    BY <1>5, <2>6 DEF UseRam, Settle, stick, Opened, Lost
  <2>7. CASE PassData \/ PassMedium \/ AddPartition
    <3>1. CASE PassData
      BY <1>5, <3>1 DEF PassData, stick, history, Opened, Lost
    <3>2. CASE PassMedium
      BY <1>5, <3>2 DEF PassMedium, stick, history, Opened, Lost
    <3>3. CASE AddPartition
      BY <1>5, <3>3 DEF AddPartition, stick, history, Opened, Lost
    <3>4. QED
      BY <2>7, <3>1, <3>2, <3>3
  <2>8. CASE Open \/ FirstSave \/ Update \/ Finish \/ WritePointer \/ Unlink
    BY <1>5, <2>8 DEF Open, FirstSave, Update, Finish, WritePointer, Unlink, stick, history,
                      session, Opened, Lost
  <2>9. QED
    BY <2>1, <2>2, <2>3, <2>4, <2>5, <2>6, <2>7, <2>8 DEF Next
<1>7. QED
  BY <1>3, <1>4, <1>6 DEF Stored

-----------------------------------------------------------------------------
(* Whose sessions they are *)

LEMMA Sticks == Stick \subseteq Roots /\ "ram" \notin Stick /\ Roots \ {"ram"} = Stick
  BY DEF Stick, Roots

LEMMA OwnedStep ==
    ASSUME TypeOK, Placed, Owned, Next
    PROVE  Owned'
<1>1. CASE Quiet
  BY <1>1 DEF Quiet, Owned, Opened
<1>2. CASE Reset
  <2>1. /\ \A r \in Stick : dirs'[r] = dirs[r]
        /\ pc' \notin Opened /\ UNCHANGED <<closed, ran>>
    BY <1>2, Sticks DEF Reset, Leave, TypeOK, Opened
  <2>2. QED
    BY <2>1 DEF Owned, Opened
<1>3. CASE Open
  <2>1. /\ id' \in Identity(host) /\ host' = host /\ host \in Machines /\ root' = root
        /\ cur' \in Names /\ UNCHANGED closed /\ root \in Roots
        /\ ran' = IF root = "ram" THEN ran ELSE [ran EXCEPT ![root][cur'] = @ \cup {host}]
    BY <1>3, Opening DEF TypeOK
  <2>2. /\ ran' \in [Stick -> [Names -> SUBSET Machines]]
        /\ \A r \in Stick, n \in Names :
               ran'[r][n] = IF r = root /\ n = cur' THEN ran[r][n] \cup {host} ELSE ran[r][n]
    <3>1. CASE root = "ram"
      BY <2>1, <3>1, Sticks DEF Owned
    <3>2. CASE root # "ram"
      BY <2>1, <3>2, Sticks DEF Owned
    <3>3. QED
      BY <3>1, <3>2
  <2>3. CASE cur' \in Unfinished(root, id') /\ UNCHANGED dirs
    <3>1. dirs[root][cur'].status = "running" /\ dirs[root][cur'].id = id'
      BY <2>3 DEF Unfinished
    <3>2. <<root, cur'>> \notin closed
      BY <2>1, <3>1 DEF Owned
    <3>3. \A r \in Stick, n \in Names : \A m \in ran'[r][n] :
              dirs'[r][n].status # "absent" /\ dirs'[r][n].id \in Identity(m)
      BY <2>1, <2>2, <2>3, <3>1 DEF Owned
    <3>4. (pc \in Opened /\ root \in Stick => host \in ran[root][cur])'
      BY <2>1, <2>2
    <3>5. \A r \in Stick, n \in Names : <<r, n>> \in closed' => dirs'[r][n].status = "over"
      BY <2>1, <2>3 DEF Owned
    <3>6. (pc \in {"save", "point", "run"} => <<root, cur>> \notin closed)'
      BY <2>1, <3>2
    <3>7. QED
      BY <2>1, <2>2, <3>3, <3>4, <3>5, <3>6 DEF Owned
  <2>4. CASE /\ cur' \notin Known(root)
             /\ \A s \in Roots, k \in Names :
                    dirs'[s][k] = IF s = root /\ k = cur'
                                  THEN [status |-> "empty", id |-> id'] ELSE dirs[s][k]
    <3>1. dirs[root][cur'].status = "absent"
      BY <2>1, <2>4 DEF Known
    <3>2. <<root, cur'>> \notin closed /\ (root \in Stick => ran[root][cur'] = {})
      BY <2>1, <3>1 DEF Owned
    <3> DEFINE d == [status |-> "empty", id |-> id']
    <3>3. d.status = "empty" /\ d.id = id'
      OBVIOUS
    <3>4. \A r \in Stick, n \in Names :
              dirs'[r][n] = IF r = root /\ n = cur' THEN d ELSE dirs[r][n]
      BY <2>4, Sticks
    <3> HIDE DEF d
    <3>5. \A r \in Stick, n \in Names : <<r, n>> \in closed => dirs'[r][n].status = "over"
      BY <3>2, <3>4 DEF Owned
    <3>6. \A r \in Stick, n \in Names : \A m \in ran'[r][n] :
              dirs'[r][n].status # "absent" /\ dirs'[r][n].id \in Identity(m)
      BY <2>1, <2>2, <3>2, <3>3, <3>4 DEF Owned
    <3>7. QED
      BY <2>1, <2>2, <3>2, <3>5, <3>6 DEF Owned
  <2>5. QED
    BY <1>3, <2>3, <2>4, Opening
<1>4. CASE FirstSave \/ Update \/ Finish
  <2>1. /\ Save /\ pc \in {"save", "run"} /\ mem' \in {"running", "over"}
        /\ UNCHANGED <<root, cur, id, host, ran>>
        /\ \/ UNCHANGED closed
           \/ /\ pc' = "unlink" /\ root # "ram" /\ closed' = closed \cup {<<root, cur>>}
              /\ dirs'[root][cur].status = "over"
        /\ pc' \in {"point", "run", "unlink"}
    BY <1>4 DEF FirstSave, Update, Finish, session, TypeOK, history
  <2>2. /\ root \in Roots /\ cur \in Names /\ <<root, cur>> \notin closed
        /\ pc \in Opened
    BY <2>1 DEF TypeOK, Placed, Opened, Owned
  <2>3. \A r \in Stick, n \in Names :
           /\ dirs'[r][n].id = dirs[r][n].id
           /\ dirs'[r][n].status = "absent" <=> dirs[r][n].status = "absent"
           /\ dirs'[r][n] = dirs[r][n] \/ (r = root /\ n = cur)
    BY <2>1, <2>2, Sticks, Saving
  <2>4. \A r \in Stick, n \in Names : <<r, n>> \in closed' => dirs'[r][n].status = "over"
    BY <2>1, <2>2, <2>3 DEF Owned
  <2>5. closed' \subseteq Stick \X Names
    BY <2>1, <2>2, Sticks DEF Owned
  <2>6. (pc \in {"save", "point", "run"} => <<root, cur>> \notin closed)'
    BY <2>1, <2>2
  <2>7. \A r \in Stick, n \in Names : \A m \in ran'[r][n] :
            dirs'[r][n].status # "absent" /\ dirs'[r][n].id \in Identity(m)
    BY <2>1, <2>3 DEF Owned
  <2>8. (pc \in Opened /\ root \in Stick => host \in ran[root][cur])'
    BY <2>1, <2>2 DEF Owned
  <2>9. QED
    BY <2>1, <2>4, <2>5, <2>6, <2>7, <2>8 DEF Owned
<1>5. QED
  BY <1>1, <1>2, <1>3, <1>4, QuietSteps

-----------------------------------------------------------------------------
(* What a search reaches *)

LEMMA Subsets ==
    ASSUME NEW r, NEW i, NEW n
    PROVE  /\ Known(r) \in SUBSET Names /\ Unfinished(r, i) \subseteq Known(r)
           /\ Before(r, i, n) \in SUBSET (Known(r) \ {n})
           /\ {k \in Known(r) : k > n} \in SUBSET Names
           /\ Before(r, i, n) \in SUBSET Names
  BY DEF Known, Unfinished, Before

\* A session that the search misses is not the one of the pointer, and there
\* are more sessions than the search opens.
LEMMA Missing ==
    ASSUME NEW r, NEW i, NEW n \in Unfinished(r, i),
           Cardinality(Before(r, i, n)) >= SearchLimit
    PROVE  pointer[r][i] # n /\ Cardinality(Known(r)) > SearchLimit
<1>1. SearchLimit \in Nat /\ SearchLimit > 0
  BY StickAssumption
<1>2. Before(r, i, n) \in SUBSET Names /\ Known(r) \in SUBSET Names /\ n \in Known(r)
      /\ Before(r, i, n) \subseteq Known(r) /\ n \notin Before(r, i, n)
  BY Subsets
<1>3. Cardinality(Before(r, i, n)) < Cardinality(Known(r))
      /\ Cardinality(Before(r, i, n)) \in Nat /\ Cardinality(Known(r)) \in Nat
  BY <1>2, Counting
<1>4. ASSUME pointer[r][i] = n PROVE FALSE
  <2>1. Before(r, i, n) = {}
    BY <1>4 DEF Before
  <2>2. Cardinality(Before(r, i, n)) = 0
    BY <2>1, FS_EmptySet
  <2>3. QED
    BY <1>1, <2>2
<1>5. QED
  BY <1>1, <1>3, <1>4

\* A session within reach that is not found: another one is that of the
\* pointer, or sorts after it.
LEMMA FoundFirst ==
    ASSUME NEW r, NEW i, NEW n \in Unfinished(r, i), Found(r, i) # NoName, Found(r, i) # n,
           pointer[r][i] # Found(r, i), Cardinality(Before(r, i, n)) < SearchLimit
    PROVE  Found(r, i) > n /\ ~(Cardinality({k \in Known(r) : k > n}) >= SearchLimit)
<1> DEFINE running == Unfinished(r, i) \cap Candidates(r, i)
           c == Found(r, i)
<1>1. n \in Known(r) /\ n \in Names
  BY Subsets
<1>2. n \in running
  BY <1>1 DEF Candidates
<1>3. pointer[r][i] \notin running /\ c = Max(running)
  BY <1>2 DEF Found
<1>4. running \in SUBSET Names
  BY Subsets
<1>5. c \in Names /\ n <= c
  <2> HIDE DEF running, c
  <2>1. QED
    BY <1>2, <1>3, <1>4, MaxIs
<1>6. c > n
  <2> HIDE DEF c
  <2>1. c \in Nat /\ n \in Nat
    BY <1>1, <1>5, StickAssumption DEF Names
  <2>2. c # n
    BY DEF c
  <2>3. QED
    BY <1>5, <2>1, <2>2
<1>7. {k \in Known(r) : k > n} \subseteq Before(r, i, n)
  <2>1. n # pointer[r][i]
    BY <1>2, <1>3
  <2>2. \A k \in Known(r) : k > n => k # n
    <3>1. Known(r) \subseteq Nat /\ n \in Nat
      BY <1>1, Subsets, StickAssumption DEF Names
    <3>2. QED
      BY <3>1
  <2>3. QED
    BY <2>1, <2>2 DEF Before
<1>8. Cardinality({k \in Known(r) : k > n}) <= Cardinality(Before(r, i, n))
      /\ Cardinality({k \in Known(r) : k > n}) \in Nat /\ Cardinality(Before(r, i, n)) \in Nat
  BY <1>7, Subsets, Counting
<1>9. QED
  BY <1>6, <1>8, StickAssumption

\* When nothing is found the search has missed every unfinished session.
LEMMA NothingFound ==
    ASSUME NEW r, NEW i, Found(r, i) = NoName, NEW n \in Unfinished(r, i)
    PROVE  Cardinality(Before(r, i, n)) >= SearchLimit
<1> DEFINE running == Unfinished(r, i) \cap Candidates(r, i)
<1>1. running \in SUBSET Names /\ n \in Known(r) /\ NoName \notin Names
  BY Subsets, Identities
<1>2. running = {}
  <2>1. CASE pointer[r][i] \in running
    BY <1>1, <2>1 DEF Found
  <2>2. CASE pointer[r][i] \notin running /\ running # {}
    <3>1. Max(running) = NoName
      BY <2>2 DEF Found
    <3>2. QED
      BY <1>1, <2>2, <3>1, MaxIs
  <2>3. QED
    BY <2>1, <2>2
<1>3. ~(Cardinality(Before(r, i, n)) < SearchLimit)
  BY <1>1, <1>2 DEF Candidates
<1>4. Cardinality(Before(r, i, n)) \in Nat
  BY Subsets, Counting
<1>5. QED
  BY <1>3, <1>4, StickAssumption

\* More sessions hide no less.
LEMMA HidesMore ==
    ASSUME NEW r, NEW n, NEW a, Known(r) \subseteq Known(r)', Hides(r, n, a)
    PROVE  Hides(r, n, a)'
<1>1. CASE n > a
  BY <1>1 DEF Hides
<1>2. CASE Cardinality({k \in Known(r) : k > n}) >= SearchLimit
  <2>1. /\ {k \in Known(r) : k > n} \in SUBSET Names
        /\ {k \in Known(r)' : k > n} \in SUBSET Names
        /\ {k \in Known(r) : k > n} \subseteq {k \in Known(r)' : k > n}
    BY DEF Known
  <2>2. /\ Cardinality({k \in Known(r) : k > n}) <= Cardinality({k \in Known(r)' : k > n})
        /\ Cardinality({k \in Known(r) : k > n}) \in Nat
        /\ Cardinality({k \in Known(r)' : k > n}) \in Nat
    BY <2>1, Counting
  <2>3. Cardinality({k \in Known(r)' : k > n}) >= SearchLimit
    BY <1>2, <2>2, StickAssumption
  <2>4. QED
    BY <2>3 DEF Hides
<1>3. QED
  BY <1>1, <1>2 DEF Hides

-----------------------------------------------------------------------------
(* Steps that write no session of the stick *)

LEMMA SameRoot ==
    ASSUME NEW r, dirs'[r] = dirs[r], forgotten' = forgotten
    PROVE  /\ Known(r)' = Known(r)
           /\ \A i : Unfinished(r, i)' = Unfinished(r, i)
           /\ \A i : Remembered(r, i)' = Remembered(r, i)
           /\ \A n, a : Hides(r, n, a)' <=> Hides(r, n, a)
<1>1. Known(r)' = Known(r)
  BY DEF Known
<1>2. \A i : Unfinished(r, i)' = Unfinished(r, i)
  BY DEF Unfinished
<1>3. \A i : Remembered(r, i)' = Remembered(r, i)
  BY <1>2 DEF Remembered
<1>4. \A n, a : Hides(r, n, a)' <=> Hides(r, n, a)
  BY <1>1 DEF Hides
<1>5. QED
  BY <1>1, <1>2, <1>3, <1>4

\* A pointer is removed, or comes to name the open session.
LEMMA Pointing ==
    ASSUME TypeOK, Placed, Next, NEW r \in Stick, NEW i \in Ids
    PROVE  \/ pointer'[r][i] = pointer[r][i]
           \/ pointer'[r][i] = NoName
           \/ WritePointer /\ r = root /\ i = id /\ pointer'[r][i] = cur
<1>1. r \in Roots /\ r # "ram"
  BY Sticks
<1>2. ASSUME NEW s \in Stick, NEW j \in Ids, LosePointer(s, j)
      PROVE  pointer'[r][i] \in {pointer[r][i], NoName}
  BY <1>1, <1>2 DEF LosePointer, TypeOK
<1>3. CASE Reset
  BY <1>1, <1>3 DEF Reset, TypeOK
<1>4. CASE WritePointer
  BY <1>1, <1>4 DEF WritePointer, TypeOK
<1>5. CASE Unlink
  <2>1. pointer' = [pointer EXCEPT ![root][id] = NoName] \/ UNCHANGED pointer
    BY <1>5 DEF Unlink
  <2>2. QED
    BY <1>1, <2>1 DEF TypeOK
<1>6. CASE UNCHANGED pointer
  BY <1>6
<1>7. \/ \E s \in Stick, j \in Ids : LosePointer(s, j)
      \/ Reset \/ WritePointer \/ Unlink \/ UNCHANGED pointer
  BY DEF Next, Boot, Die, UseData, PassData, UseMedium, PassMedium, AddPartition, Format,
         FormatFails, UseRam, Settle, Open, FirstSave, PointerFails, Update, Finish
<1>8. QED
  BY <1>2, <1>3, <1>4, <1>5, <1>6, <1>7

\* A missed session does not get its pointer back.
LEMMA StayUnpointed ==
    ASSUME TypeOK, Placed, Reachable, Next, NEW r \in Stick, NEW n \in Names,
           <<r, n>> \in forgotten
    PROVE  pointer'[r][dirs[r][n].id] # n
<1>1. dirs[r][n].id \in Ids
  BY Sticks DEF TypeOK, Dir
<1>2. pointer[r][dirs[r][n].id] # n /\ n # NoName
  BY Identities DEF Reachable, MissedAmongMany
<1>3. WritePointer /\ r = root => n # cur
  BY DEF WritePointer, Reachable, NewIsNotMissed
<1>4. QED
  BY <1>1, <1>2, <1>3, Pointing

LEMMA StillStep ==
    ASSUME TypeOK, Placed, Reachable, Next, Quiet \/ Reset
    PROVE  Reachable'
<1>1. /\ forgotten' = forgotten /\ \A r \in Stick : dirs'[r] = dirs[r]
      /\ \/ pc' \notin Opened
         \/ /\ UNCHANGED <<root, cur, id>>
            /\ pc' \in {"save", "point"} => pc' = pc
            /\ pc' = "run" => pc \in {"point", "run"}
  <2>1. CASE Quiet
    BY <2>1 DEF Quiet
  <2>2. CASE Reset
    BY <2>2, Sticks DEF Reset, Leave, Opened, TypeOK
  <2>3. QED
    BY <2>1, <2>2
<1>2. \A r \in Stick :
         /\ Known(r)' = Known(r)
         /\ \A i : Unfinished(r, i)' = Unfinished(r, i)
         /\ \A i : Remembered(r, i)' = Remembered(r, i)
         /\ \A n, a : Hides(r, n, a)' <=> Hides(r, n, a)
  BY <1>1, SameRoot
<1>3. OneRemembered'
  BY <1>2 DEF Reachable, OneRemembered
<1>4. MissedAreHidden'
  BY <1>1, <1>2 DEF Reachable, MissedAreHidden
<1>5. MissedAmongMany'
  <2> SUFFICES ASSUME NEW r \in Stick, NEW n \in Names, <<r, n>> \in forgotten'
               PROVE  /\ dirs'[r][n].status # "absent"
                      /\ pointer'[r][dirs'[r][n].id] # n
                      /\ Cardinality(Known(r)') > SearchLimit
    BY DEF MissedAmongMany
  <2>1. pointer'[r][dirs[r][n].id] # n
    BY <1>1, StayUnpointed
  <2>2. QED
    BY <1>1, <1>2, <2>1 DEF Reachable, MissedAmongMany
<1>6. NewIsNotMissed'
  BY <1>1 DEF Reachable, NewIsNotMissed, Opened
<1>7. OthersAreMissed'
  <2>1. CASE pc' \notin {"save", "point", "run"} \/ root' \notin Stick
    BY <2>1 DEF OthersAreMissed
  <2>2. CASE pc' \in {"save", "point", "run"} /\ root' \in Stick
    <3>1. pc \in {"save", "point", "run"} /\ UNCHANGED <<root, cur, id>>
      BY <1>1, <2>2 DEF Opened
    <3>2. QED
      BY <1>1, <1>2, <2>2, <3>1 DEF Reachable, OthersAreMissed
  <2>3. QED
    BY <2>1, <2>2
<1>8. QED
  BY <1>3, <1>4, <1>5, <1>6, <1>7 DEF Reachable

-----------------------------------------------------------------------------
(* Saves *)

LEMMA SaveStep ==
    ASSUME TypeOK, Placed, Reachable, Next, FirstSave \/ Update \/ Finish
    PROVE  Reachable'
<1>1. /\ Save /\ pc \in {"save", "run"} /\ mem' \in {"running", "over"}
      /\ UNCHANGED <<root, cur, id, pointer, forgotten>>
      /\ pc' \in {"point", "run", "unlink"}
      /\ pc' = "point" => pc = "save"
  BY DEF FirstSave, Update, Finish, session, TypeOK, history
<1>2. /\ pc \in Opened /\ root \in Roots /\ cur \in Names /\ id \in Ids
      /\ dirs[root][cur].id = id
  BY <1>1 DEF TypeOK, Placed, Opened
<1>3. /\ dirs' \in [Roots -> [Names -> Dir]]
      /\ \A r \in Stick, n \in Names :
            /\ dirs'[r][n].id = dirs[r][n].id
            /\ dirs'[r][n].status = "absent" <=> dirs[r][n].status = "absent"
            /\ dirs'[r][n] = dirs[r][n] \/ (r = root /\ n = cur)
  BY <1>1, <1>2, Sticks, Saving
<1>4. \A r \in Stick : Known(r)' = Known(r)
  BY <1>3, KnownSame
<1>5. \A r \in Stick : \A n, a : Hides(r, n, a)' <=> Hides(r, n, a)
  BY <1>4 DEF Hides
<1>6. ASSUME NEW r \in Stick, NEW i \in Ids, NEW n \in Unfinished(r, i)'
      PROVE  n \in Unfinished(r, i) \/ (r = root /\ n = cur /\ i = id)
  <2>1. n \in Names /\ dirs'[r][n] = [status |-> "running", id |-> i]
    BY <1>6 DEF Unfinished
  <2>2. CASE dirs'[r][n] = dirs[r][n]
    BY <2>1, <2>2 DEF Unfinished
  <2>3. CASE r = root /\ n = cur
    BY <1>2, <1>3, <2>1, <2>3
  <2>4. QED
    BY <1>3, <2>1, <2>2, <2>3
<1>7. OthersAreMissed'
  <2> SUFFICES ASSUME NEW r \in Stick, NEW i \in Ids, r = root', i = id',
                      NEW n \in Unfinished(r, i)' \ {cur}
               PROVE  /\ <<r, n>> \in forgotten
                      /\ <<r, cur>> \in forgotten \/ Hides(r, cur, n)
    <3>1. root' \in Roots /\ id' \in Ids /\ cur' = cur /\ forgotten' = forgotten
      BY <1>1, <1>2
    <3>2. QED
      BY <1>5, <3>1 DEF OthersAreMissed
  <2>1. r = root /\ i = id /\ n \in Unfinished(root, id) \ {cur}
    BY <1>1, <1>6
  <2>2. QED
    BY <1>1, <2>1 DEF Reachable, OthersAreMissed
<1>8. ASSUME NEW r \in Stick, NEW i \in Ids, NEW n \in Unfinished(r, i)', NEW a \in Unfinished(r, i)',
             r = root, i = id, n = cur, a # cur
      PROVE  <<r, a>> \in forgotten /\ (<<r, n>> \in forgotten \/ Hides(r, n, a))
  <2>1. a \in Unfinished(root, id) \ {cur}
    BY <1>6, <1>8
  <2>2. QED
    BY <1>1, <1>8, <2>1 DEF Reachable, OthersAreMissed
<1>9. OneRemembered'
  <2> SUFFICES ASSUME NEW r \in Stick, NEW i \in Ids, NEW a \in Remembered(r, i)',
                      NEW b \in Remembered(r, i)'
               PROVE  a = b
    BY DEF OneRemembered
  <2>1. /\ a \in Unfinished(r, i)' /\ <<r, a>> \notin forgotten
        /\ b \in Unfinished(r, i)' /\ <<r, b>> \notin forgotten
    BY <1>1 DEF Remembered
  <2>2. CASE a \in Unfinished(r, i) /\ b \in Unfinished(r, i)
    BY <2>1, <2>2 DEF Reachable, OneRemembered, Remembered
  <2>3. CASE r = root /\ i = id /\ a = cur
    BY <1>8, <2>1, <2>3
  <2>4. CASE r = root /\ i = id /\ b = cur
    BY <1>8, <2>1, <2>4
  <2>5. QED
    BY <1>6, <2>1, <2>2, <2>3, <2>4
<1>10. MissedAreHidden'
  <2> SUFFICES ASSUME NEW r \in Stick, NEW i \in Ids, NEW n \in Remembered(r, i)',
                      NEW a \in Unfinished(r, i)', <<r, a>> \in forgotten
               PROVE  Hides(r, n, a)
    BY <1>1, <1>5 DEF MissedAreHidden
  <2>1. n \in Unfinished(r, i)' /\ <<r, n>> \notin forgotten
    BY <1>1 DEF Remembered
  <2>2. CASE n \in Unfinished(r, i) /\ a \in Unfinished(r, i)
    BY <2>1, <2>2 DEF Reachable, MissedAreHidden, Remembered
  <2>3. CASE r = root /\ i = id /\ n = cur
    BY <1>8, <2>1, <2>3
  <2>4. CASE r = root /\ i = id /\ a = cur /\ n # cur
    BY <1>8, <2>1, <2>4
  <2>5. QED
    BY <1>6, <2>1, <2>2, <2>3, <2>4
<1>11. MissedAmongMany'
  <2> SUFFICES ASSUME NEW r \in Stick, NEW n \in Names, <<r, n>> \in forgotten
               PROVE  /\ dirs'[r][n].status # "absent"
                      /\ pointer'[r][dirs'[r][n].id] # n
                      /\ Cardinality(Known(r)') > SearchLimit
    BY <1>1 DEF MissedAmongMany
  <2>1. pointer[r][dirs[r][n].id] # n /\ dirs[r][n].status # "absent"
        /\ Cardinality(Known(r)) > SearchLimit
    BY DEF Reachable, MissedAmongMany
  <2>2. QED
    BY <1>1, <1>3, <1>4, <2>1
<1>12. NewIsNotMissed'
  BY <1>1 DEF Reachable, NewIsNotMissed
<1>13. QED
  BY <1>7, <1>9, <1>10, <1>11, <1>12 DEF Reachable

-----------------------------------------------------------------------------
(* Opens *)

\* A newly missed session is one the search still reached before.
LEMMA NewlyMissed ==
    ASSUME TypeOK, Placed, Open, NEW r \in Roots, NEW n, <<r, n>> \in forgotten',
           <<r, n>> \notin forgotten
    PROVE  /\ r = root /\ n \in Remembered(r, id')
           /\ Cardinality(Before(r, id', n)) >= SearchLimit
  BY DEF Open, Misses, Remembered

\* An open adds to what was missed, and takes the machine_id of no directory.
LEMMA MissedStep ==
    ASSUME TypeOK, Placed, Reachable, Open, NEW r \in Stick, NEW n \in Names,
           <<r, n>> \in forgotten'
    PROVE  /\ n \in Known(r) /\ dirs[r][n].id \in Ids
           /\ pointer[r][dirs[r][n].id] # n
           /\ Cardinality(Known(r)) > SearchLimit
<1>1. dirs[r][n].id \in Ids
  BY Sticks DEF TypeOK, Dir
<1>2. CASE <<r, n>> \in forgotten
  BY <1>1, <1>2 DEF Reachable, MissedAmongMany, Known
<1>3. CASE <<r, n>> \notin forgotten
  <2>1. n \in Unfinished(r, id') /\ Cardinality(Before(r, id', n)) >= SearchLimit
    BY <1>3, Sticks, NewlyMissed DEF Remembered
  <2>2. n \in Known(r) /\ dirs[r][n].id = id'
    BY <2>1, Subsets DEF Unfinished
  <2>3. QED
    BY <1>1, <2>1, <2>2, Missing
<1>4. QED
  BY <1>2, <1>3

\* What an open does to the sessions there were.
LEMMA OldSessions ==
    ASSUME TypeOK, Placed, Open
    PROVE  /\ \A r \in Roots : Known(r) \subseteq Known(r)'
           /\ \A r \in Roots, n \in Names : n \in Known(r) => dirs'[r][n] = dirs[r][n]
           /\ \A r \in Roots, i \in Ids : Unfinished(r, i)' = Unfinished(r, i)
<1>1. CASE UNCHANGED dirs
  BY <1>1 DEF Known, Unfinished
<1>2. CASE /\ cur' \notin Known(root) /\ cur' \in Names
           /\ \A s \in Roots, k \in Names :
                  dirs'[s][k] = IF s = root /\ k = cur'
                                THEN [status |-> "empty", id |-> id'] ELSE dirs[s][k]
  <2>1. \A r \in Roots, n \in Names : n \in Known(r) => dirs'[r][n] = dirs[r][n]
    BY <1>2
  <2>2. \A r \in Roots, n \in Names :
            dirs'[r][n] = dirs[r][n]
            \/ (dirs'[r][n].status = "empty" /\ dirs[r][n].status = "absent")
    BY <1>2 DEF Known
  <2>3. \A i : [status |-> "running", id |-> i].status = "running"
    OBVIOUS
  <2>4. \A r \in Roots, i \in Ids : Unfinished(r, i)' = Unfinished(r, i)
    BY <2>2, <2>3 DEF Unfinished
  <2>5. \A r \in Roots : Known(r) \subseteq Known(r)'
    BY <2>1 DEF Known
  <2>6. QED
    BY <2>1, <2>4, <2>5
<1>3. QED
  BY <1>1, <1>2, Opening

LEMMA OpenStep ==
    ASSUME TypeOK, Placed, Reachable, Next, Open
    PROVE  Reachable'
<1>1. /\ id' \in Ids /\ root' = root /\ root \in Roots /\ cur' \in Names
      /\ UNCHANGED pointer /\ forgotten \subseteq forgotten'
  BY Opening DEF TypeOK, Open, Misses
<1>2. \A r \in Stick : r \in Roots
  BY Sticks
<1>3. ASSUME NEW r \in Stick, NEW i \in Ids
      PROVE  /\ Unfinished(r, i)' = Unfinished(r, i)
             /\ Remembered(r, i)' = {n \in Unfinished(r, i) : <<r, n>> \notin forgotten'}
             /\ Remembered(r, i)' \subseteq Remembered(r, i)
  <2>1. Unfinished(r, i)' = Unfinished(r, i)
    BY <1>2, <1>3, OldSessions
  <2>2. Remembered(r, i)' = {n \in Unfinished(r, i) : <<r, n>> \notin forgotten'}
    BY <2>1 DEF Remembered
  <2>3. Remembered(r, i)' \subseteq Remembered(r, i)
    BY <1>1, <2>2 DEF Remembered
  <2>4. QED
    BY <2>1, <2>2, <2>3
<1>4. OneRemembered'
  BY <1>3 DEF Reachable, OneRemembered
<1>5. ASSUME NEW r \in Stick, NEW i \in Ids, NEW n \in Remembered(r, i)',
             NEW a \in Unfinished(r, i), <<r, a>> \in forgotten'
      PROVE  Hides(r, n, a)
  <2>1. n \in Remembered(r, i) /\ <<r, n>> \notin forgotten'
    BY <1>3, <1>5
  <2>2. CASE <<r, a>> \in forgotten
    BY <2>1, <2>2 DEF Reachable, MissedAreHidden
  <2>3. CASE <<r, a>> \notin forgotten
    <3>1. a \in Remembered(r, i)
      BY <2>3 DEF Remembered
    <3>2. a = n
      BY <2>1, <3>1 DEF Reachable, OneRemembered
    <3>3. QED
      BY <1>5, <2>1, <3>2
  <2>4. QED
    BY <2>2, <2>3
<1>6. ASSUME NEW r \in Stick, NEW n, NEW a, Hides(r, n, a)
      PROVE  Hides(r, n, a)'
  <2>1. Known(r) \subseteq Known(r)'
    BY <1>2, OldSessions
  <2>2. QED
    BY <1>6, <2>1, HidesMore
<1>7. MissedAreHidden'
  <2> SUFFICES ASSUME NEW r \in Stick, NEW i \in Ids, NEW n \in Remembered(r, i)',
                      NEW a \in Unfinished(r, i)', <<r, a>> \in forgotten'
               PROVE  Hides(r, n, a)'
    BY DEF MissedAreHidden
  <2>1. a \in Unfinished(r, i)
    BY <1>3
  <2>2. Hides(r, n, a)
    BY <1>5, <2>1
  <2>3. QED
    BY <1>6, <2>2
<1>8. MissedAmongMany'
  <2> SUFFICES ASSUME NEW r \in Stick, NEW n \in Names, <<r, n>> \in forgotten'
               PROVE  /\ dirs'[r][n].status # "absent"
                      /\ pointer'[r][dirs'[r][n].id] # n
                      /\ Cardinality(Known(r)') > SearchLimit
    BY DEF MissedAmongMany
  <2>1. /\ n \in Known(r) /\ pointer[r][dirs[r][n].id] # n
        /\ Cardinality(Known(r)) > SearchLimit
    BY MissedStep
  <2>2. dirs'[r][n] = dirs[r][n] /\ Known(r) \subseteq Known(r)'
    BY <1>2, <2>1, OldSessions
  <2>3. dirs[r][n].status # "absent"
    BY <2>1 DEF Known
  <2>4. Cardinality(Known(r)') > SearchLimit
    <3>1. Known(r) \in SUBSET Names /\ Known(r)' \in SUBSET Names
      BY DEF Known
    <3>2. /\ Cardinality(Known(r)) <= Cardinality(Known(r)')
          /\ Cardinality(Known(r)) \in Nat /\ Cardinality(Known(r)') \in Nat
      BY <2>2, <3>1, Counting
    <3>3. QED
      BY <2>1, <3>2, StickAssumption
  <2>5. QED
    BY <1>1, <2>1, <2>2, <2>3, <2>4
<1>9. NewIsNotMissed'
  <2> SUFFICES ASSUME pc' = "save", root \in Stick, <<root, cur'>> \in forgotten'
               PROVE  FALSE
    BY <1>1 DEF NewIsNotMissed, Open
  <2>1. cur' \in Known(root)
    BY <1>1, MissedStep
  <2>2. cur' \notin Known(root)
    BY Opening
  <2>3. QED
    BY <2>1, <2>2
\* Another unfinished session of the machine has been missed ...
<1>10. ASSUME root \in Stick, NEW n \in Unfinished(root, id'), n # cur'
       PROVE  <<root, n>> \in forgotten'
  <2> SUFFICES ASSUME <<root, n>> \notin forgotten' PROVE FALSE
    OBVIOUS
  <2>1. n \in Names /\ ~(Cardinality(Before(root, id', n)) >= SearchLimit)
    BY <1>10 DEF Open, Misses, Unfinished
  <2>2. Cardinality(Before(root, id', n)) < SearchLimit
    <3>1. Cardinality(Before(root, id', n)) \in Nat
      BY Subsets, Counting
    <3>2. QED
      BY <2>1, <3>1, StickAssumption
  <2>3. cur' = Found(root, id') /\ Found(root, id') # NoName
        /\ cur' \in Unfinished(root, id')
    <3>1. Found(root, id') # NoName
      BY <2>1, NothingFound
    <3>2. QED
      BY <1>1, <3>1, Opening
  <2>4. n \in Remembered(root, id')
    BY <1>1, <1>10 DEF Remembered
  <2>5. <<root, cur'>> \in forgotten
    BY <1>1, <1>10, <2>3, <2>4 DEF Reachable, OneRemembered, Remembered
  <2>6. Hides(root, n, cur')
    BY <1>1, <1>10, <2>3, <2>4, <2>5 DEF Reachable, MissedAreHidden
  <2>7. pointer[root][id'] # cur'
    <3>1. dirs[root][cur'].id = id'
      BY <2>3 DEF Unfinished
    <3>2. QED
      BY <1>1, <1>10, <2>5, <3>1 DEF Reachable, MissedAmongMany
  <2>8. cur' > n /\ ~(Cardinality({k \in Known(root) : k > n}) >= SearchLimit)
    BY <1>10, <2>2, <2>3, <2>7, FoundFirst
  <2>9. n \in Nat /\ cur' \in Nat
    BY <1>1, <2>1, StickAssumption DEF Names
  <2>10. QED
    BY <2>6, <2>8, <2>9 DEF Hides
\* ... and will not be taken for the one that is open now.
<1>11. ASSUME NEW r \in Stick, NEW i \in Ids, NEW c \in Names, r = root, i = id', c = cur',
              NEW n \in Unfinished(r, i), n # c, <<r, c>> \notin forgotten'
       PROVE  Hides(r, c, n)'
  <2>1. <<r, n>> \in forgotten'
    BY <1>10, <1>11
  <2>2. CASE c \in Unfinished(r, i)
    <3>1. c \in Remembered(r, i)'
      BY <1>3, <1>11, <2>2
    <3>2. Hides(r, c, n)
      BY <1>5, <2>1, <3>1
    <3>3. QED
      BY <1>6, <3>2
  <2>3. CASE (\A k \in Known(r) : k < c) \/ (\A k \in Known(r) : c < k)
    <3>1. n \in Known(r) /\ n \in Names /\ Cardinality(Known(r)) > SearchLimit
      BY <2>1, MissedStep, Subsets
    <3>2. Known(r) \subseteq Nat /\ c \in Nat /\ n \in Nat
      BY <3>1, StickAssumption DEF Known, Names
    <3>3. CASE \A k \in Known(r) : k < c
      <4>1. c > n
        BY <3>1, <3>2, <3>3
      <4>2. Hides(r, c, n)
        BY <4>1 DEF Hides
      <4>3. QED
        BY <1>6, <4>2
    <3>4. CASE \A k \in Known(r) : c < k
      <4>1. {k \in Known(r) : k > c} = Known(r)
        BY <3>2, <3>4
      <4>2. Cardinality(Known(r)) \in Nat
        BY Subsets, Counting
      <4>3. Cardinality({k \in Known(r) : k > c}) >= SearchLimit
        BY <3>1, <4>1, <4>2, StickAssumption
      <4>4. Hides(r, c, n)
        BY <4>3 DEF Hides
      <4>5. QED
        BY <1>6, <4>4
    <3>5. QED
      BY <2>3, <3>3, <3>4
  <2>4. QED
    BY <1>11, <2>2, <2>3, Opening
<1>12. OthersAreMissed'
  <2> SUFFICES ASSUME NEW r \in Stick, NEW i \in Ids, NEW c \in Names,
                      r = root', i = id', c = cur', NEW n \in Unfinished(r, i)' \ {c}
               PROVE  <<r, n>> \in forgotten' /\ (<<r, c>> \in forgotten' \/ Hides(r, c, n)')
    <3>1. id' \in Ids /\ cur' \in Names
      BY <1>1
    <3>2. QED
      BY <3>1 DEF OthersAreMissed
  <2>1. r = root /\ n \in Unfinished(r, i) /\ n # c
    BY <1>1, <1>3
  <2>2. <<r, n>> \in forgotten'
    BY <1>10, <2>1
  <2>3. QED
    BY <1>11, <2>1, <2>2
<1>13. QED
  BY <1>4, <1>7, <1>8, <1>9, <1>12 DEF Reachable

-----------------------------------------------------------------------------
(* Theorems *)

LEMMA InitInv == Init => StickInv
<1> SUFFICES ASSUME Init PROVE StickInv
  OBVIOUS
<1>1. \A r \in Roots, n \in Names : dirs[r][n] = NoDir
  BY DEF Init
<1>2. \A r \in Roots : Known(r) = {} /\ \A i : Unfinished(r, i) = {}
  <2>1. \A i : NoDir # [status |-> "running", id |-> i]
    BY DEF NoDir
  <2>2. QED
    BY <1>1, <2>1, Identities DEF Known, Unfinished
<1>3. TypeOK
  <2>1. /\ dirs \in [Roots -> [Names -> Dir]]
        /\ pointer \in [Roots -> [Ids -> Names \cup {NoName}]]
    BY Identities DEF Init
  <2>2. QED
    BY <2>1, Identities DEF Init, TypeOK, Roots
<1>4. Placed
  <2>1. left \in [boots : Nat, deaths : Nat, faults : Nat]
    BY StickAssumption DEF Init
  <2>2. QED
    BY <1>2, <2>1 DEF Init, Placed, InARow, Opened
<1>5. Stored
  BY <1>2, Sticks DEF Init, Stored, Opened, Stick
<1>6. Owned
  BY DEF Init, Owned, Opened
<1>7. Reachable
  <2>1. \A r \in Stick, i \in Ids : Unfinished(r, i) = {} /\ Remembered(r, i) = {}
    BY <1>2, Sticks DEF Remembered
  <2>2. forgotten = {} /\ pc = "off"
    BY DEF Init
  <2>3. QED
    BY <2>1, <2>2 DEF Reachable, OneRemembered, MissedAreHidden, MissedAmongMany,
                      NewIsNotMissed, OthersAreMissed
<1>8. QED
  BY <1>3, <1>4, <1>5, <1>6, <1>7 DEF StickInv

LEMMA StepInv == StickInv /\ [Next]_vars => StickInv'
<1>1. ASSUME StickInv, Next PROVE StickInv'
  <2>1. TypeOK' /\ Placed' /\ Stored' /\ Owned'
    BY <1>1, TypeStep, PlacedStep, StoredStep, OwnedStep DEF StickInv
  <2>2. Reachable'
    BY <1>1, QuietSteps, StillStep, SaveStep, OpenStep DEF StickInv
  <2>3. QED
    BY <2>1, <2>2 DEF StickInv
<1>2. ASSUME StickInv, UNCHANGED vars PROVE StickInv'
  <2>1. /\ UNCHANGED <<room, fat, part, dirs, pointer, host, id, pc, mounted, root, cur, mem>>
        /\ UNCHANGED <<left, slipped, spoilt, forgotten, closed, ran>>
    BY <1>2 DEF vars, stick, session, history
  <2>2. TypeOK /\ Placed /\ Stored /\ Owned /\ Reachable
    BY <1>2 DEF StickInv
  <2>3. TypeOK' /\ Owned'
    BY <2>1, <2>2 DEF TypeOK, Owned
  <2>4. Placed' /\ Stored'
    BY <2>1, <2>2 DEF Placed, Stored, Known, Lost
  <2>5. Reachable'
    <3>1. \A r : /\ Known(r)' = Known(r)
                 /\ \A i : Unfinished(r, i)' = Unfinished(r, i)
                 /\ \A i : Remembered(r, i)' = Remembered(r, i)
                 /\ \A n, a : Hides(r, n, a)' <=> Hides(r, n, a)
      BY <2>1, SameRoot
    <3>2. OneRemembered' /\ MissedAreHidden'
      BY <2>1, <2>2, <3>1 DEF Reachable, OneRemembered, MissedAreHidden
    <3>3. MissedAmongMany' /\ NewIsNotMissed'
      BY <2>1, <2>2, <3>1 DEF Reachable, MissedAmongMany, NewIsNotMissed
    <3>4. OthersAreMissed'
      BY <2>1, <2>2 DEF Reachable, OthersAreMissed, Unfinished, Hides, Known
    <3>5. QED
      BY <3>2, <3>3, <3>4 DEF Reachable
  <2>6. QED
    BY <2>3, <2>4, <2>5 DEF StickInv
<1>3. QED
  BY <1>1, <1>2

\* setup_storage and Session.open keep the shape of the stick, and all of the
\* invariant, whatever machines the stick is in and however they reset.
THEOREM Invariant == Spec => []StickInv
  BY InitInv, StepInv, PTL DEF Spec

\* The attributes of Session and StorageInfo keep their shape; the names of the
\* sessions of a root stay in a row, so that each has the room it needs.
THEOREM TypeCorrect == Spec => []TypeOK
<1>1. StickInv => TypeOK
  BY DEF StickInv
<1>2. QED
  BY <1>1, Invariant, PTL

\* setup_storage keeps a run in RAM only on a stick without room, after a
\* failure on it, or after a partition was left without a file system.
THEOREM UsesRoom == Spec => []RoomIsUsed
<1>1. StickInv => RoomIsUsed
  BY DEF StickInv, Stored, RoomIsUsed, Lost, Opened
<1>2. QED
  BY <1>1, Invariant, PTL

\* _find_running takes up no session that was finished and saved so, and none
\* that an identified machine other than this one has run.
THEOREM OwnSession == Spec => []TakesUpItsOwn
<1>1. ASSUME StickInv, pc = "run", root \in Stick
      PROVE  /\ <<root, cur>> \notin closed
             /\ ran[root][cur] \cap Identified # {} => ran[root][cur] = {host}
  <2>1. TypeOK /\ Placed /\ Owned
    BY <1>1 DEF StickInv
  <2>2. /\ cur \in Names /\ host \in Machines /\ host \in ran[root][cur]
        /\ dirs[root][cur].id = id /\ id \in Identity(host) /\ <<root, cur>> \notin closed
        /\ ran[root][cur] \subseteq Machines
        /\ \A m \in ran[root][cur] : id \in Identity(m)
    BY <1>1, <2>1 DEF Placed, Owned, Opened
  <2>3. ASSUME NEW m \in ran[root][cur], m \in Identified
        PROVE  ran[root][cur] = {host}
    <3>1. id = m /\ m \in Machines /\ m # NoMac
      BY <2>2, <2>3, StickAssumption DEF Identity
    <3>2. ASSUME NEW k \in ran[root][cur] PROVE k = m
      BY <2>2, <3>1 DEF Identity
    <3>3. QED
      BY <2>2, <3>2
  <2>4. QED
    BY <2>2, <2>3
<1>2. StickInv => TakesUpItsOwn
  BY <1>1 DEF TakesUpItsOwn
<1>3. QED
  BY <1>2, Invariant, PTL

\* Session.open leaves no other unfinished session of an identified machine on
\* the stick, except one that the search can no longer reach and one that a
\* start with failing storage went past: the interrupted run is the one that
\* the next start takes up, however often its pointer is lost.
THEOREM LeavesNone == Spec => []NoneLeftBehind
<1>1. ASSUME StickInv, pc = "run", host \in Identified, NEW r \in Stick,
             NEW n \in Unfinished(r, host)
      PROVE  \/ r = root /\ n = cur
             \/ <<r, n>> \in forgotten
             \/ r # root /\ slipped
  <2>1. TypeOK /\ Placed /\ Stored /\ Reachable
    BY <1>1 DEF StickInv
  <2>2. CASE r = root
    <3>1. id = host
      BY <1>1, <2>1 DEF Placed, Opened, Identity
    <3>2. QED
      BY <1>1, <2>1, <2>2, <3>1 DEF Reachable, OthersAreMissed
  <2>3. CASE r # root
    <3>1. Known(r) # {} /\ root \in Roots
      BY <1>1, <2>1, Subsets DEF TypeOK
    <3>2. /\ root = "data" => part = "ready"
          /\ root = "medium" => fat
          /\ root = "ram" => Lost
          /\ r = "data" => part = "ready"
          /\ r = "medium" => fat
          /\ fat => part = "absent"
          /\ spoilt => part = "raw"
      BY <1>1, <2>1, <3>1 DEF Stored, Opened
    <3>3. QED
      BY <2>3, <3>1, <3>2 DEF Roots, Stick, Lost
  <2>4. QED
    BY <2>2, <2>3
<1>2. StickInv => NoneLeftBehind
  BY <1>1 DEF NoneLeftBehind
<1>3. QED
  BY <1>2, Invariant, PTL
=============================================================================
