-------------------------- MODULE SelfTestsProofs --------------------------
(***************************************************************************)
(* For any number of device names, drives, starts, defects and hours: the  *)
(* variables of SelfTests keep their types, a self-test counts as          *)
(* completed only if the drive whose baseline was read has passed one      *)
(* since, unless the change of identity is reported, and a run that ends   *)
(* without findings has tested every drive; both but for the names where a *)
(* drive without a serial number was compared with another one.            *)
(***************************************************************************)
EXTENDS SelfTests, TLAPS

\* Where devices are visited that must have a baseline, they have one.
Inside == pc \in {"start", "wait", "compare"} => todo \subseteq Based

\* What a record of the session, in memory or on the stick, says of a name.
Sound(r, n) ==
    /\ r.test[n].started => r.base[n] # NoBase
    /\ r.test[n].complete => r.base[n] # NoBase
    /\ r.test[n].complete => \/ n \in fresh \/ n \in mixed
                            \/ <<"gap", "identity", n>> \in findings
    /\ r.test[n].boot <= boot

\* A test started on this boot is under way until the drive logs its outcome; on
\* another boot the drive may have lost it.
UnderWay(r, n) ==
    r.test[n].started /\ r.test[n].boot = boot /\ r.base[n] # NoBase /\ r.base[n].drive = at[n] =>
        drive[at[n]].testing \/ n \in fresh \/ drive[at[n]].entry.outcome = "failed"

\* A success that was not in the log when the baseline was read is a fresh one.
Logged(n) ==
    memory.base[n] # NoBase /\ drive[memory.base[n].drive].entry.outcome = "passed" =>
        drive[memory.base[n].drive].entry = memory.base[n].entry \/ n \in fresh

\* A baseline on the stick is the one in memory.
Kept(n) == stick.base[n] = NoBase \/ stick.base[n] = memory.base[n]

IInv ==
    /\ TypeOK /\ Inside
    /\ \A n \in Names : /\ Kept(n) /\ Logged(n)
                        /\ Sound(memory, n) /\ Sound(stick, n)
                        /\ UnderWay(memory, n) /\ UnderWay(stick, n)

\* A drive never counts back, and has counted more than a baseline that it outgrew.
Outgrown(n) ==
    memory.base[n] # NoBase =>
        LET now == drive[memory.base[n].drive].defects
        IN  /\ memory.base[n].defects <= now
            /\ n \in grown => memory.base[n].defects < now

\* What a run without findings has seen to.
Covered(r) == \A n \in Names : r.base[n] # NoBase

Passed(n) == n \in mixed \/ (n \in fresh /\ n \notin told)

Silent ==
    findings = {} =>
        /\ pc = "baseline" => Names \ todo \subseteq Based
        /\ pc # "baseline" => Covered(memory)
        /\ memory.inventoried => Covered(memory)
        /\ stick.inventoried => Covered(stick)
        /\ pc = "compare" => \A n \in Names \ todo : Passed(n)
        /\ pc = "over" => \A n \in Names : Passed(n)

SInv == IInv /\ (\A n \in Names : Outgrown(n)) /\ Silent

-----------------------------------------------------------------------------
(* Types.                                                                   *)

Tests == [started : BOOLEAN, boot : 0..MaxStarts, observed : BOOLEAN, complete : BOOLEAN]
Bases == {NoBase} \cup [drive : Drives, defects : 0..MaxDefects, entry : Entries]

\* Setting the test of a name changes nothing else.
LEMMA NewTest ==
    ASSUME NEW r \in Records, NEW n \in Names, NEW t \in Tests
    PROVE  /\ [r EXCEPT !.test[n] = t] \in Records
           /\ [r EXCEPT !.test[n] = t].base = r.base
           /\ [r EXCEPT !.test[n] = t].test = [r.test EXCEPT ![n] = t]
  BY DEF Records, Tests

LEMMA NewBase ==
    ASSUME NEW r \in Records, NEW n \in Names, NEW b \in Bases
    PROVE  /\ [r EXCEPT !.base[n] = b] \in Records
           /\ [r EXCEPT !.base[n] = b].test = r.test
           /\ [r EXCEPT !.base[n] = b].base = [r.base EXCEPT ![n] = b]
  BY DEF Records, Bases

LEMMA RecordParts ==
    ASSUME NEW r \in Records, NEW n \in Names
    PROVE  r.test[n] \in Tests /\ r.base[n] \in Bases
  BY DEF Records, Tests, Bases

\* The boots are counted within the bound.
LEMMA BootBounds ==
    ASSUME TypeOK
    PROVE  boot \in Nat \ {0} /\ starts \in Nat /\ boot <= starts /\ starts <= MaxStarts
  <1>1. MaxStarts \in Nat /\ starts \in 1..MaxStarts /\ boot \in 1..starts
      BY SelfTestsAssumption DEF TypeOK
  <1> QED
      BY <1>1

\* A device that is visited has a baseline.
LEMMA VisitedIsBased ==
    ASSUME IInv, NEW n \in todo, pc \in {"start", "wait", "compare"}
    PROVE  n \in Names /\ memory.base[n] # NoBase
  <1>1. todo \subseteq Based
      BY DEF IInv, Inside
  <1> QED
      BY <1>1 DEF Based

LEMMA InitHolds == Init => IInv
  <1> SUFFICES ASSUME Init PROVE IInv
      OBVIOUS
  <1>1. memory \in Records
      BY SelfTestsAssumption DEF Init, Records, NoTest, NoBase
  <1>2. TypeOK
      BY <1>1, SelfTestsAssumption DEF Init, TypeOK, Smart, NoTest
  <1>3. \A n \in Names : memory.base[n] = NoBase /\ memory.test[n] = NoTest
      BY DEF Init
  <1>4. Inside
      BY DEF Init, Inside
  <1>5. stick = memory
      BY DEF Init
  <1>6. ASSUME NEW n \in Names
        PROVE  /\ Kept(n) /\ Logged(n) /\ Sound(memory, n) /\ Sound(stick, n)
               /\ UnderWay(memory, n) /\ UnderWay(stick, n)
      <2>1. boot \in Nat
          BY DEF Init
      <2> QED
          BY <1>3, <1>5, <2>1 DEF Kept, Logged, Sound, UnderWay, NoTest
  <1> QED
      BY <1>2, <1>4, <1>6 DEF IInv

-----------------------------------------------------------------------------
(* The drives.                                                              *)

\* A counter that grows leaves the log alone.
LEMMA GrowKeeps ==
    ASSUME IInv, NEW d \in Drives, Grow(d)
    PROVE  IInv'
  <1> DEFINE s == [drive[d] EXCEPT !.defects = drive[d].defects + 1]
  <1>1. drive' = [drive EXCEPT ![d] = s]
      BY DEF Grow
  <1>2. drive[d] \in Smart /\ drive[d].defects < MaxDefects
      BY DEF Grow, IInv, TypeOK
  <1>3. s \in Smart /\ s.entry = drive[d].entry /\ s.testing = drive[d].testing
      BY <1>2, SelfTestsAssumption DEF Smart
  <1> HIDE DEF s
  <1>4. /\ drive' \in [Drives -> Smart]
        /\ \A x \in Drives : drive'[x].entry = drive[x].entry /\ drive'[x].testing = drive[x].testing
      BY <1>1, <1>3 DEF IInv, TypeOK
  <1>5. TypeOK' /\ Inside'
      BY <1>4 DEF Grow, IInv, TypeOK, Inside, Of, Based
  <1>6. ASSUME NEW n \in Names
        PROVE  (/\ Kept(n) /\ Logged(n) /\ Sound(memory, n) /\ Sound(stick, n)
                /\ UnderWay(memory, n) /\ UnderWay(stick, n))'
      <2>1. at[n] \in Drives
          BY DEF IInv, TypeOK, Namings, Injection
      <2>2. memory.base[n] = NoBase \/ memory.base[n].drive \in Drives
          BY RecordParts DEF IInv, TypeOK, Bases
      <2> QED
          BY <1>4, <2>1, <2>2 DEF Grow, IInv, Kept, Logged, Sound, UnderWay
  <1> QED
      BY <1>5, <1>6 DEF IInv

\* A success that is logged is fresh for every baseline of the drive.
LEMMA EndTestKeeps ==
    ASSUME IInv, NEW d \in Drives, NEW h \in 0..MaxHours, NEW o \in {"passed", "failed"},
           EndTest(d, h, o)
    PROVE  IInv'
  <1> DEFINE e == [hour |-> h, outcome |-> o]
             s == [drive[d] EXCEPT !.testing = FALSE, !.entry = e]
  <1>1. drive' = [drive EXCEPT ![d] = s]
      BY DEF EndTest
  <1>2. drive[d] \in Smart
      BY DEF IInv, TypeOK
  <1>3. e \in Entries /\ e.outcome = o
      BY DEF Entries
  <1> HIDE DEF e
  <1>4. s \in Smart /\ s.entry = e
      BY <1>2, <1>3 DEF Smart
  <1> HIDE DEF s
  <1>5. /\ drive' \in [Drives -> Smart] /\ drive'[d].entry = e
        /\ \A x \in Drives \ {d} : drive'[x] = drive[x]
      BY <1>1, <1>4 DEF IInv, TypeOK
  <1>6. fresh \subseteq fresh' /\ (o = "passed" => Of(d) \subseteq fresh') /\ fresh' \subseteq Names
      BY DEF EndTest, IInv, TypeOK, Of, Based
  <1>7. TypeOK' /\ Inside'
      BY <1>5, <1>6 DEF EndTest, IInv, TypeOK, Inside, Based
  <1>8. ASSUME NEW n \in Names
        PROVE  (/\ Kept(n) /\ Logged(n) /\ Sound(memory, n) /\ Sound(stick, n)
                /\ UnderWay(memory, n) /\ UnderWay(stick, n))'
      <2>1. at[n] \in Drives
          BY DEF IInv, TypeOK, Namings, Injection
      <2>2. memory.base[n] = NoBase \/ memory.base[n].drive \in Drives
          BY RecordParts DEF IInv, TypeOK, Bases
      <2>3. memory.base[n] # NoBase /\ memory.base[n].drive = d /\ o = "passed" => n \in fresh'
          BY <1>6 DEF Of, Based
      <2>4. (Kept(n) /\ Sound(memory, n) /\ Sound(stick, n))'
          BY <1>6 DEF EndTest, IInv, Kept, Sound
      <2>5. Logged(n)'
          BY <1>3, <1>5, <1>6, <2>2, <2>3 DEF EndTest, IInv, Logged
      <2>6. (UnderWay(memory, n) /\ UnderWay(stick, n))'
          BY <1>3, <1>5, <1>6, <2>1, <2>3 DEF EndTest, IInv, Kept, UnderWay
      <2> QED
          BY <2>4, <2>5, <2>6
  <1> QED
      BY <1>7, <1>8 DEF IInv

-----------------------------------------------------------------------------
(* The inventory.                                                           *)

\* A new baseline forgets what was fresh for its name; it is what the log says now.
LEMMA ReadBaselineKeeps ==
    ASSUME IInv, NEW m \in Names, ReadBaseline(m)
    PROVE  IInv'
  <1> DEFINE d == at[m]
             b == [drive |-> d, defects |-> drive[d].defects, entry |-> drive[d].entry]
             r == [memory EXCEPT !.base[m] = b]
  <1>1. d \in Drives
      BY DEF IInv, TypeOK, Namings, Injection
  <1>2. drive[d] \in Smart
      BY <1>1 DEF IInv, TypeOK
  <1>3. b \in Bases /\ b.drive = d /\ b.entry = drive[d].entry
      BY <1>1, <1>2 DEF Bases, Smart
  <1>4. b # NoBase
      BY DEF NoBase
  <1> HIDE DEF b
  <1>5. r \in Records /\ r.test = memory.test /\ r.base = [memory.base EXCEPT ![m] = b]
      BY <1>3, NewBase DEF IInv, TypeOK
  <1> HIDE DEF r
  <1>6. CASE memory' = memory /\ fresh' = fresh /\ grown' = grown
      <2>1. findings \subseteq findings'
          BY DEF ReadBaseline
      <2>2. findings' \subseteq findings \cup {<<"gap", "coverage", m>>}
          BY DEF ReadBaseline
      <2>3. TypeOK' /\ Inside'
          BY <1>6, <2>2 DEF ReadBaseline, IInv, TypeOK, Inside, Based
      <2>4. ASSUME NEW n \in Names
            PROVE  (/\ Kept(n) /\ Logged(n) /\ Sound(memory, n) /\ Sound(stick, n)
                    /\ UnderWay(memory, n) /\ UnderWay(stick, n))'
          BY <1>6, <2>1 DEF ReadBaseline, IInv, Kept, Logged, Sound, UnderWay
      <2> QED
          BY <2>3, <2>4 DEF IInv
  <1>7. CASE /\ memory.base[m] = NoBase /\ memory' = r /\ findings' = findings
             /\ grown' = grown \ {m} /\ fresh' = fresh \ {m}
      <2>1. memory.base \in [Names -> Bases]
          BY DEF IInv, TypeOK, Records, Bases
      <2>2. /\ memory'.base[m] = b /\ memory'.test = memory.test
            /\ \A n \in Names \ {m} : memory'.base[n] = memory.base[n]
          BY <1>5, <1>7, <2>1
      <2>3. TypeOK' /\ Inside'
          BY <1>4, <1>5, <1>7, <2>2 DEF ReadBaseline, IInv, TypeOK, Inside, Based
      <2>4. ASSUME NEW n \in Names
            PROVE  (/\ Kept(n) /\ Logged(n) /\ Sound(memory, n) /\ Sound(stick, n)
                    /\ UnderWay(memory, n) /\ UnderWay(stick, n))'
          <3>1. CASE n # m
              BY <1>7, <2>2, <3>1 DEF ReadBaseline, IInv, Kept, Logged, Sound, UnderWay
          <3>2. CASE n = m
              <4>1. stick.base[m] = NoBase
                  BY <1>7 DEF IInv, Kept
              <4>2. (Kept(m) /\ Logged(m))'
                  BY <1>3, <1>7, <2>2, <4>1 DEF ReadBaseline, Kept, Logged
              <4>3. ~memory.test[m].started /\ ~memory.test[m].complete
                  BY <1>7 DEF IInv, Sound
              <4>4. (Sound(memory, m) /\ Sound(stick, m))'
                  BY <1>7, <2>2, <4>1, <4>3 DEF ReadBaseline, IInv, Sound
              <4>5. (UnderWay(memory, m) /\ UnderWay(stick, m))'
                  BY <1>7, <2>2, <4>1, <4>3 DEF ReadBaseline, UnderWay
              <4> QED
                  BY <3>2, <4>2, <4>4, <4>5
          <3> QED
              BY <3>1, <3>2
      <2> QED
          BY <2>3, <2>4 DEF IInv
  <1> QED
      BY <1>6, <1>7 DEF ReadBaseline, r, b

\* A test that is started is under way, and of a drive with a baseline.
LEMMA StartSelfTestKeeps ==
    ASSUME IInv, NEW m \in Names, StartSelfTest(m)
    PROVE  IInv'
  <1> DEFINE d == at[m]
             busy == [drive[d] EXCEPT !.testing = TRUE]
  <1>1. /\ d \in Drives /\ boot \in 0..MaxStarts
        /\ m \in Based
      <2>1. d \in Drives
          BY DEF IInv, TypeOK, Namings, Injection
      <2>2. boot \in 0..MaxStarts
          BY BootBounds, SelfTestsAssumption DEF IInv
      <2>3. m \in todo /\ pc = "start"
          BY DEF StartSelfTest, FirstOf
      <2> QED
          BY <2>1, <2>2, <2>3, VisitedIsBased DEF Based
  <1>2. drive[d] \in Smart
      BY <1>1 DEF IInv, TypeOK
  <1>3. busy \in Smart /\ busy.testing /\ busy.entry = drive[d].entry
      BY <1>2 DEF Smart
  <1> HIDE DEF busy
  <1>4. PICK t \in Tests :
           /\ memory' = [memory EXCEPT !.test[m] = t] /\ ~t.complete /\ t.boot = boot
           /\ t.started => drive' = [drive EXCEPT ![d] = busy]
           /\ ~t.started => drive' = drive
      <2> DEFINE yes == [NoTest EXCEPT !.started = TRUE, !.boot = boot]
                 no == [NoTest EXCEPT !.boot = boot]
      <2>1. /\ yes \in Tests /\ yes.started /\ ~yes.complete /\ yes.boot = boot
            /\ no \in Tests /\ ~no.started /\ ~no.complete /\ no.boot = boot
          BY <1>1 DEF NoTest, Tests
      <2> HIDE DEF yes, no
      <2>2. CASE memory' = [memory EXCEPT !.test[m] = yes] /\ drive' = [drive EXCEPT ![d] = busy]
          BY <2>1, <2>2
      <2>3. CASE memory' = [memory EXCEPT !.test[m] = no] /\ drive' = drive
          BY <2>1, <2>3
      <2> QED
          BY <2>2, <2>3 DEF StartSelfTest, yes, no, busy
  <1>5. /\ drive' \in [Drives -> Smart]
        /\ \A x \in Drives : /\ drive'[x].entry = drive[x].entry
                             /\ drive[x].testing => drive'[x].testing
        /\ t.started => drive'[d].testing
      BY <1>3, <1>4, <1>1 DEF IInv, TypeOK
  <1>6. /\ memory' \in Records /\ memory'.base = memory.base
        /\ memory'.test[m] = t /\ \A n \in Names \ {m} : memory'.test[n] = memory.test[n]
      <2>1. memory.test \in [Names -> Tests]
          BY DEF IInv, TypeOK, Records, Tests
      <2> QED
          BY <1>4, <2>1, NewTest DEF IInv, TypeOK
  <1>7. findings \subseteq findings' /\ findings' \subseteq findings \cup {<<"gap", "coverage", m>>}
      BY DEF StartSelfTest
  <1>8. TypeOK' /\ Inside'
      BY <1>1, <1>5, <1>6, <1>7 DEF StartSelfTest, IInv, TypeOK, Inside, Based
  <1>9. ASSUME NEW n \in Names
        PROVE  (/\ Kept(n) /\ Logged(n) /\ Sound(memory, n) /\ Sound(stick, n)
                /\ UnderWay(memory, n) /\ UnderWay(stick, n))'
      <2>1. at[n] \in Drives
          BY DEF IInv, TypeOK, Namings, Injection
      <2>2. memory.base[n] = NoBase \/ memory.base[n].drive \in Drives
          BY RecordParts DEF IInv, TypeOK, Bases
      <2>3. (Kept(n) /\ Logged(n) /\ Sound(stick, n))'
          BY <1>5, <1>6, <1>7, <2>2 DEF StartSelfTest, IInv, Kept, Logged, Sound
      <2>4. Sound(memory, n)'
          BY <1>1, <1>4, <1>6, <1>7 DEF StartSelfTest, IInv, TypeOK, Sound, Based
      <2>5. UnderWay(stick, n)'
          BY <1>5, <2>1 DEF StartSelfTest, IInv, UnderWay
      <2>6. UnderWay(memory, n)'
          BY <1>5, <1>6, <2>1 DEF StartSelfTest, IInv, UnderWay
      <2> QED
          BY <2>3, <2>4, <2>5, <2>6
  <1> QED
      BY <1>8, <1>9 DEF IInv

-----------------------------------------------------------------------------
(* The final comparison.                                                    *)

LEMMA ObserveKeeps ==
    ASSUME IInv, NEW m \in Names, Observe(m)
    PROVE  IInv'
  <1> DEFINE t == [memory.test[m] EXCEPT !.observed = TRUE]
  <1>1. memory.test[m] \in Tests
      BY RecordParts DEF IInv, TypeOK
  <1>2. /\ t \in Tests /\ t.started = memory.test[m].started
        /\ t.complete = memory.test[m].complete /\ t.boot = memory.test[m].boot
      BY <1>1 DEF Tests
  <1> HIDE DEF t
  <1>3. memory' = [memory EXCEPT !.test[m] = t] \/ memory' = memory
      BY DEF Observe, t
  <1>4. /\ memory' \in Records /\ memory'.base = memory.base
        /\ \A n \in Names : /\ memory'.test[n].started = memory.test[n].started
                            /\ memory'.test[n].complete = memory.test[n].complete
                            /\ memory'.test[n].boot = memory.test[n].boot
      <2>1. memory.test \in [Names -> Tests]
          BY DEF IInv, TypeOK, Records, Tests
      <2>2. memory \in Records
          BY DEF IInv, TypeOK
      <2>3. CASE memory' = memory
          BY <2>2, <2>3
      <2>4. CASE memory' = [memory EXCEPT !.test[m] = t]
          <3>1. /\ memory' \in Records /\ memory'.base = memory.base
                /\ memory'.test = [memory.test EXCEPT ![m] = t]
              BY <1>2, <2>2, <2>4, NewTest
          <3> QED
              BY <1>2, <2>1, <3>1
      <2> QED
          BY <1>3, <2>3, <2>4
  <1>5. TypeOK' /\ Inside'
      BY <1>4 DEF Observe, IInv, TypeOK, Inside, Based
  <1>6. ASSUME NEW n \in Names
        PROVE  (/\ Kept(n) /\ Logged(n) /\ Sound(memory, n) /\ Sound(stick, n)
                /\ UnderWay(memory, n) /\ UnderWay(stick, n))'
      BY <1>4 DEF Observe, IInv, Kept, Logged, Sound, UnderWay
  <1> QED
      BY <1>5, <1>6 DEF IInv

\* What Completed accepts, of the drive whose baseline was read, is fresh.
LEMMA CompletedIsFresh ==
    ASSUME IInv, NEW n \in Names, memory.base[n] # NoBase, memory.base[n].drive = at[n],
           Completed(n, drive[at[n]])
    PROVE  n \in fresh
  <1>1. /\ memory.test[n].started /\ drive[at[n]].entry.outcome = "passed" /\ ~drive[at[n]].testing
        /\ \/ drive[at[n]].entry # memory.base[n].entry
           \/ memory.test[n].observed /\ memory.test[n].boot = boot
      BY DEF Completed
  <1>2. CASE drive[at[n]].entry # memory.base[n].entry
      BY <1>1, <1>2 DEF IInv, Logged
  <1>3. CASE memory.test[n].boot = boot
      BY <1>1, <1>3 DEF IInv, UnderWay
  <1> QED
      BY <1>1, <1>2, <1>3

LEMMA CompareKeeps ==
    ASSUME IInv, NEW m \in Names, Compare(m) \/ CompareNothing(m)
    PROVE  IInv'
  <1>1. memory.test[m] \in Tests /\ m \in Based
      <2>1. memory.test[m] \in Tests
          BY RecordParts DEF IInv, TypeOK
      <2>2. m \in todo /\ pc = "compare"
          BY DEF Compare, CompareNothing, FirstOf
      <2> QED
          BY <2>1, <2>2, VisitedIsBased DEF Based
  <1>2. PICK done \in BOOLEAN :
          /\ memory' = [memory EXCEPT !.test[m].complete = done]
          /\ done => Compare(m) /\ Completed(m, drive[at[m]])
      <2>1. CASE Compare(m)
          <3>1. Completed(m, drive[at[m]]) \in BOOLEAN
              BY DEF Completed
          <3> QED
              BY <2>1, <3>1 DEF Compare
      <2>2. CASE CompareNothing(m)
          BY <2>2 DEF CompareNothing
      <2> QED
          BY <2>1, <2>2
  <1>3. done => m \in fresh \/ m \in mixed' \/ <<"gap", "identity", m>> \in findings'
      <2> SUFFICES ASSUME done
                   PROVE  m \in fresh \/ m \in mixed' \/ <<"gap", "identity", m>> \in findings'
          OBVIOUS
      <2>1. CASE ~Identified(memory.base[m], at[m])
          BY <1>2, <2>1 DEF Compare, If
      <2>2. CASE memory.base[m].drive # at[m] /\ Identified(memory.base[m], at[m])
          BY <1>2, <2>2 DEF Compare, If
      <2>3. CASE memory.base[m].drive = at[m]
          BY <1>1, <1>2, <2>3, CompletedIsFresh DEF Based
      <2> QED
          BY <2>1, <2>2, <2>3 DEF Identified
  <1> DEFINE t == [memory.test[m] EXCEPT !.complete = done]
  <1>4. memory' = [memory EXCEPT !.test[m] = t]
      BY <1>2
  <1>5. /\ t \in Tests /\ t.started = memory.test[m].started
        /\ t.complete = done /\ t.boot = memory.test[m].boot
      BY <1>1, <1>2 DEF Tests
  <1> HIDE DEF t
  <1>6. /\ memory' \in Records /\ memory'.base = memory.base
        /\ memory'.test[m] = t /\ \A n \in Names \ {m} : memory'.test[n] = memory.test[n]
      <2>1. memory.test \in [Names -> Tests]
          BY DEF IInv, TypeOK, Records, Tests
      <2> QED
          BY <1>4, <1>5, <2>1, NewTest DEF IInv, TypeOK
  <1>7. /\ findings \subseteq findings' /\ mixed \subseteq mixed' /\ mixed' \subseteq Names
        /\ findings' \subseteq {"fail", "gap"} \X {"coverage", "identity", "grew", "selftest"} \X Names
      BY DEF Compare, CompareNothing, Judged, If, IInv, TypeOK
  <1>8. TypeOK' /\ Inside'
      BY <1>5, <1>6, <1>7 DEF Compare, CompareNothing, IInv, TypeOK, Inside, Based
  <1>9. ASSUME NEW n \in Names
        PROVE  (/\ Kept(n) /\ Logged(n) /\ Sound(memory, n) /\ Sound(stick, n)
                /\ UnderWay(memory, n) /\ UnderWay(stick, n))'
      <2>1. (Kept(n) /\ Logged(n) /\ Sound(stick, n) /\ UnderWay(stick, n))'
          BY <1>6, <1>7 DEF Compare, CompareNothing, IInv, Kept, Logged, Sound, UnderWay
      <2>2. CASE n # m
          BY <1>6, <1>7, <2>1, <2>2 DEF Compare, CompareNothing, IInv, Sound, UnderWay
      <2>3. CASE n = m
          <3>1. Sound(memory, m)'
              BY <1>1, <1>3, <1>5, <1>6 DEF Compare, CompareNothing, IInv, Sound, Based
          <3>2. UnderWay(memory, m)'
              BY <1>5, <1>6 DEF Compare, CompareNothing, IInv, UnderWay
          <3> QED
              BY <2>1, <2>3, <3>1, <3>2
      <2> QED
          BY <2>2, <2>3
  <1> QED
      BY <1>8, <1>9 DEF IInv

-----------------------------------------------------------------------------
(* Steps that only move the main thread or save, starts and boots.          *)

\* Neither the records of the drives nor the drives change; memory may be saved.
LEMMA QuietKeeps ==
    ASSUME IInv, UNCHANGED <<at, drive, boot, starts, findings, grown, told, fresh, mixed>>,
           memory' \in Records, memory'.base = memory.base, memory'.test = memory.test,
           stick' = stick \/ stick' = memory',
           pc' \in {"baseline", "start", "stress", "wait", "compare", "cycled", "over"},
           todo' \subseteq Names, Inside'
    PROVE  IInv'
  <1>1. TypeOK'
      BY DEF IInv, TypeOK, Based
  <1>2. ASSUME NEW n \in Names
        PROVE  (/\ Kept(n) /\ Logged(n) /\ Sound(memory, n) /\ Sound(stick, n)
                /\ UnderWay(memory, n) /\ UnderWay(stick, n))'
      BY DEF IInv, Kept, Logged, Sound, UnderWay
  <1> QED
      BY <1>1, <1>2 DEF IInv

LEMMA SetFlag ==
    ASSUME NEW r \in Records
    PROVE  /\ [r EXCEPT !.inventoried = TRUE] \in Records
           /\ [r EXCEPT !.inventoried = TRUE].base = r.base
           /\ [r EXCEPT !.inventoried = TRUE].test = r.test
           /\ [r EXCEPT !.finished = TRUE] \in Records
           /\ [r EXCEPT !.finished = TRUE].base = r.base
           /\ [r EXCEPT !.finished = TRUE].test = r.test
  BY DEF Records

LEMMA MoveKeeps ==
    ASSUME IInv, EndBaseline \/ EndStart \/ BeginFinal \/ EndWait \/ EndFinal \/ Heartbeat
                 \/ UNCHANGED vars
    PROVE  IInv'
  <1>1. /\ memory \in Records /\ todo \subseteq Names
        /\ pc \in {"baseline", "start", "stress", "wait", "compare", "cycled", "over"}
      BY DEF IInv, TypeOK
  <1>2. /\ UNCHANGED <<at, drive, boot, starts, findings, grown, told, fresh, mixed>>
        /\ memory' \in {memory, [memory EXCEPT !.inventoried = TRUE], [memory EXCEPT !.finished = TRUE]}
        /\ stick' = stick \/ stick' = memory'
        /\ pc' \in {"baseline", "start", "stress", "wait", "compare", "cycled", "over"}
      BY <1>1 DEF EndBaseline, EndStart, BeginFinal, EndWait, EndFinal, Heartbeat, vars
  <1>3. memory' \in Records /\ memory'.base = memory.base /\ memory'.test = memory.test
      BY <1>1, <1>2, SetFlag
  <1>4. Based' = Based
      BY <1>3 DEF Based
  <1>5. todo' \subseteq Names /\ Inside'
      BY <1>1, <1>4 DEF EndBaseline, EndStart, BeginFinal, EndWait, EndFinal, Heartbeat, vars,
                        IInv, Inside, Based
  <1> QED
      BY <1>2, <1>3, <1>5, QuietKeeps

\* What the stick holds is sound, and its baselines are those in memory.
LEMMA DieKeeps ==
    ASSUME IInv, Die
    PROVE  IInv'
  <1>1. boot' \in 1..starts' /\ starts' \in 1..MaxStarts
      BY BootBounds, SelfTestsAssumption DEF Die, IInv
  <1>2. memory' = stick /\ todo' \subseteq Names /\ pc' \in {"baseline", "stress", "cycled"}
      BY DEF Die, Resume
  <1>3. \A n \in Names : stick.test[n].started => stick.base[n] # NoBase
      BY DEF IInv, Sound
  <1>4. TypeOK' /\ Inside'
      BY <1>1, <1>2, <1>3 DEF Die, IInv, TypeOK, Inside, Based
  <1>5. ASSUME NEW n \in Names
        PROVE  (/\ Kept(n) /\ Logged(n) /\ Sound(memory, n) /\ Sound(stick, n)
                /\ UnderWay(memory, n) /\ UnderWay(stick, n))'
      BY DEF Die, Resume, IInv, Kept, Logged, Sound, UnderWay
  <1> QED
      BY <1>4, <1>5 DEF IInv

\* A boot ends every claim about tests under way, and logs no success.
LEMMA RebootKeeps ==
    ASSUME IInv, Reboot
    PROVE  IInv'
  <1>1. /\ drive' \in [Drives -> Smart]
        /\ \A d \in Drives : drive'[d].entry.outcome = "passed" => drive'[d].entry = drive[d].entry
      <2>1. PICK cut \in SUBSET {d \in Drives : drive[d].testing}, logged \in BOOLEAN :
              drive' = [d \in Drives |->
                  IF d \notin cut THEN drive[d]
                  ELSE [drive[d] EXCEPT !.testing = FALSE, !.entry.outcome = IF logged THEN "cut" ELSE @]]
          BY DEF Reboot
      <2>2. ASSUME NEW d \in Drives
            PROVE  /\ drive'[d] \in Smart
                   /\ drive'[d].entry.outcome = "passed" => drive'[d].entry = drive[d].entry
          <3> DEFINE o == IF logged THEN "cut" ELSE drive[d].entry.outcome
                     e == [drive[d].entry EXCEPT !.outcome = o]
                     s == [drive[d] EXCEPT !.testing = FALSE, !.entry = e]
          <3>1. drive[d] \in Smart /\ drive[d].entry \in Entries
              BY DEF IInv, TypeOK, Smart
          <3>2. e \in Entries /\ (e.outcome = "passed" => e = drive[d].entry)
              BY <3>1 DEF Entries
          <3> HIDE DEF e
          <3>3. s \in Smart /\ s.entry = e
              BY <3>1, <3>2 DEF Smart
          <3> HIDE DEF s
          <3>4. drive'[d] = drive[d] \/ drive'[d] = s
              BY <2>1 DEF s, e
          <3> QED
              BY <3>1, <3>2, <3>3, <3>4
      <2>3. drive' = [d \in Drives |-> drive'[d]]
          BY <2>1
      <2> QED
          BY <2>2, <2>3
  <1>2. boot \in Nat /\ boot' = boot + 1 /\ boot' \in 1..starts' /\ starts' \in 1..MaxStarts
      <2>1. starts < MaxStarts /\ starts' = starts + 1 /\ boot' = boot + 1
          BY Zenon DEF Reboot
      <2> QED
          BY <2>1, BootBounds, SelfTestsAssumption DEF IInv
  <1>3. /\ UNCHANGED <<stick, findings, grown, told, fresh, mixed>> /\ memory' = stick /\ at' \in Namings
        /\ todo' \subseteq Names /\ pc' \in {"baseline", "stress", "cycled"}
      <2>1. UNCHANGED <<stick, findings, grown, told, fresh, mixed>> /\ at' \in Namings /\ Resume
          BY Zenon DEF Reboot
      <2> QED
          BY <2>1 DEF Resume
  <1>4. \A n \in Names : stick.test[n].started => stick.base[n] # NoBase
      BY DEF IInv, Sound
  <1>5. TypeOK' /\ Inside'
      BY <1>1, <1>2, <1>3, <1>4 DEF IInv, TypeOK, Inside, Based
  <1>6. ASSUME NEW n \in Names
        PROVE  (/\ Kept(n) /\ Logged(n) /\ Sound(memory, n) /\ Sound(stick, n)
                /\ UnderWay(memory, n) /\ UnderWay(stick, n))'
      <2>1. stick.test[n] \in Tests
          BY RecordParts DEF IInv, TypeOK
      <2>2. stick.test[n].boot \in Nat /\ stick.test[n].boot < boot'
          <3>1. stick.test[n].boot <= boot
              BY DEF IInv, Sound
          <3> QED
              BY <1>2, <2>1, <3>1, SelfTestsAssumption DEF Tests
      <2>3. stick.base[n] = NoBase \/ stick.base[n].drive \in Drives
          BY RecordParts DEF IInv, TypeOK, Bases
      <2>4. (Kept(n) /\ Sound(memory, n) /\ Sound(stick, n))'
          BY <1>2, <1>3, <2>2 DEF IInv, Kept, Sound
      <2>5. Logged(n)'
          BY <1>1, <1>3, <2>3 DEF IInv, Kept, Logged
      <2>6. (UnderWay(memory, n) /\ UnderWay(stick, n))'
          BY <1>2, <1>3, <2>2 DEF UnderWay
      <2> QED
          BY <2>4, <2>5, <2>6
  <1> QED
      BY <1>5, <1>6 DEF IInv

-----------------------------------------------------------------------------

LEMMA Inductive == IInv /\ [Next]_vars => IInv'
  BY GrowKeeps, EndTestKeeps, ReadBaselineKeeps, StartSelfTestKeeps, ObserveKeeps, CompareKeeps,
     MoveKeeps, DieKeeps, RebootKeeps DEF Next

\* The variables keep their types, through every death and reboot.
THEOREM TypeCorrect == Spec => []TypeOK
  <1>1. IInv => TypeOK
      BY DEF IInv
  <1> QED
      BY <1>1, InitHolds, Inductive, PTL DEF Spec

\* smart_final credits only a success that the drive logged after its baseline,
\* or one with the change of identity on record, or without a serial number to
\* see that change by.
THEOREM CreditCorrect == Spec => []CreditIsEarned
  <1>1. IInv => CreditIsEarned
      BY DEF IInv, Sound, CreditIsEarned
  <1> QED
      BY <1>1, InitHolds, Inductive, PTL DEF Spec

-----------------------------------------------------------------------------
(* A run without findings.                                                  *)

\* Most steps leave the counters of the drives alone and read no baseline.
LEMMA SameCounters ==
    ASSUME IInv, \A n \in Names : Outgrown(n), grown' = grown,
           \A d \in Drives : drive'[d].defects = drive[d].defects,
           \A n \in Names : memory'.base[n] \in {NoBase, memory.base[n]}
    PROVE  \A n \in Names : Outgrown(n)'
  <1> SUFFICES ASSUME NEW n \in Names PROVE Outgrown(n)'
      OBVIOUS
  <1>1. memory.base[n] = NoBase \/ memory.base[n].drive \in Drives
      BY RecordParts DEF IInv, TypeOK, Bases
  <1> QED
      BY <1>1 DEF Outgrown

LEMMA CountersAreNumbers ==
    ASSUME IInv
    PROVE  /\ \A d \in Drives : drive[d].defects \in Nat
           /\ \A n \in Names : memory.base[n] # NoBase =>
                  memory.base[n].defects \in Nat /\ memory.base[n].drive \in Drives
  <1>1. \A d \in Drives : drive[d].defects \in 0..MaxDefects
      BY DEF IInv, TypeOK, Smart
  <1>2. \A n \in Names : memory.base[n] # NoBase =>
            memory.base[n].defects \in 0..MaxDefects /\ memory.base[n].drive \in Drives
      BY RecordParts DEF IInv, TypeOK, Bases
  <1> QED
      BY <1>1, <1>2, SelfTestsAssumption

LEMMA OutgrownGrow ==
    ASSUME IInv, \A n \in Names : Outgrown(n), NEW d \in Drives, Grow(d)
    PROVE  \A n \in Names : Outgrown(n)'
  <1> DEFINE s == [drive[d] EXCEPT !.defects = drive[d].defects + 1]
  <1>1. drive' = [drive EXCEPT ![d] = s]
      BY DEF Grow
  <1>2. s.defects = drive[d].defects + 1
      BY DEF IInv, TypeOK, Smart
  <1> HIDE DEF s
  <1>3. /\ drive'[d].defects = drive[d].defects + 1
        /\ \A x \in Drives \ {d} : drive'[x] = drive[x]
      BY <1>1, <1>2 DEF IInv, TypeOK
  <1> SUFFICES ASSUME NEW n \in Names PROVE Outgrown(n)'
      OBVIOUS
  <1>4. memory' = memory /\ (n \in grown' <=> n \in grown \/ n \in Of(d))
      BY DEF Grow
  <1>5. CASE memory.base[n] = NoBase
      BY <1>4, <1>5 DEF Outgrown
  <1>6. CASE memory.base[n] # NoBase /\ memory.base[n].drive # d
      BY <1>3, <1>4, <1>6, CountersAreNumbers DEF Outgrown, Of
  <1>7. CASE memory.base[n] # NoBase /\ memory.base[n].drive = d
      <2>1. memory.base[n].defects <= drive[d].defects
          BY <1>7 DEF Outgrown
      <2>2. memory.base[n].defects \in Nat /\ drive[d].defects \in Nat
          BY <1>7, CountersAreNumbers
      <2>3. memory.base[n].defects < drive[d].defects + 1
          BY <2>1, <2>2
      <2> QED
          BY <1>3, <1>4, <1>7, <2>2, <2>3 DEF Outgrown
  <1> QED
      BY <1>5, <1>6, <1>7

\* A baseline that is read now is not outgrown.
LEMMA OutgrownRead ==
    ASSUME IInv, \A n \in Names : Outgrown(n), NEW m \in Names, ReadBaseline(m)
    PROVE  \A n \in Names : Outgrown(n)'
  <1>1. CASE memory' = memory /\ grown' = grown
      BY <1>1, SameCounters DEF ReadBaseline
  <1> DEFINE b == [drive |-> at[m], defects |-> drive[at[m]].defects, entry |-> drive[at[m]].entry]
  <1>2. CASE memory' = [memory EXCEPT !.base[m] = b] /\ grown' = grown \ {m}
      <2>1. at[m] \in Drives /\ drive' = drive
          BY DEF ReadBaseline, IInv, TypeOK, Namings, Injection
      <2>2. b.drive = at[m] /\ b.defects = drive[at[m]].defects
          OBVIOUS
      <2>3. b \in Bases
          BY <2>1 DEF IInv, TypeOK, Smart, Bases
      <2> HIDE DEF b
      <2>4. memory'.base = [memory.base EXCEPT ![m] = b]
          BY <1>2, <2>3, NewBase DEF IInv, TypeOK
      <2>5. memory.base \in [Names -> Bases]
          BY DEF IInv, TypeOK, Records, Bases
      <2>6. drive[at[m]].defects \in Nat
          BY <2>1, CountersAreNumbers
      <2> SUFFICES ASSUME NEW n \in Names PROVE Outgrown(n)'
          OBVIOUS
      <2>7. CASE n = m
          BY <1>2, <2>1, <2>2, <2>4, <2>5, <2>6, <2>7 DEF Outgrown
      <2>8. CASE n # m
          BY <1>2, <2>1, <2>4, <2>5, <2>8 DEF Outgrown
      <2> QED
          BY <2>7, <2>8
  <1> QED
      BY <1>1, <1>2 DEF ReadBaseline

LEMMA BasesStay ==
    ASSUME IInv, NEW m \in Names, StartSelfTest(m) \/ Observe(m) \/ Compare(m) \/ CompareNothing(m)
    PROVE  /\ memory'.base = memory.base /\ memory'.inventoried = memory.inventoried
           /\ grown' = grown /\ stick' = stick /\ pc' = pc
           /\ \A d \in Drives : drive'[d].defects = drive[d].defects
  <1>1. memory'.base = memory.base /\ memory'.inventoried = memory.inventoried
      BY DEF StartSelfTest, Observe, Compare, CompareNothing, IInv, TypeOK, Records
  <1>2. \A d \in Drives : drive'[d].defects = drive[d].defects
      BY DEF StartSelfTest, Observe, Compare, CompareNothing, IInv, TypeOK, Smart
  <1> QED
      BY <1>1, <1>2 DEF StartSelfTest, Observe, Compare, CompareNothing

LEMMA OutgrownKeeps ==
    ASSUME IInv, \A n \in Names : Outgrown(n), [Next]_vars
    PROVE  \A n \in Names : Outgrown(n)'
  <1>1. ASSUME NEW d \in Drives, NEW h \in 0..MaxHours, NEW o \in {"passed", "failed"},
               EndTest(d, h, o)
        PROVE  \A n \in Names : Outgrown(n)'
      <2>1. \A x \in Drives : drive'[x].defects = drive[x].defects
          BY <1>1 DEF EndTest, IInv, TypeOK, Smart
      <2> QED
          BY <1>1, <2>1, SameCounters DEF EndTest
  <1>2. ASSUME NEW m \in Names, StartSelfTest(m) \/ Observe(m) \/ Compare(m) \/ CompareNothing(m)
        PROVE  \A n \in Names : Outgrown(n)'
      BY <1>2, BasesStay, SameCounters
  <1>3. CASE EndBaseline \/ EndStart \/ BeginFinal \/ EndWait \/ EndFinal \/ Heartbeat \/ UNCHANGED vars
      <2>1. memory \in Records
          BY DEF IInv, TypeOK
      <2>2. /\ grown' = grown /\ drive' = drive
            /\ memory' \in {memory, [memory EXCEPT !.inventoried = TRUE], [memory EXCEPT !.finished = TRUE]}
          BY <1>3 DEF EndBaseline, EndStart, BeginFinal, EndWait, EndFinal, Heartbeat, vars
      <2>3. memory'.base = memory.base
          BY <2>1, <2>2, SetFlag
      <2> QED
          BY <2>2, <2>3, SameCounters
  <1>4. CASE Die
      BY <1>4, SameCounters DEF Die, Resume, IInv, Kept
  <1>5. CASE Reboot
      <2>1. memory' = stick /\ grown' = grown
          BY <1>5, Zenon DEF Reboot, Resume
      <2>2. \A d \in Drives : drive'[d].defects = drive[d].defects
          BY <1>5 DEF Reboot, IInv, TypeOK, Smart
      <2> QED
          BY <2>1, <2>2, SameCounters DEF IInv, Kept
  <1> QED
      BY <1>1, <1>2, <1>3, <1>4, <1>5, OutgrownGrow, OutgrownRead DEF Next

\* A name is visited once: what the loop has left behind it.
LEMMA Visits ==
    ASSUME NEW m \in Names, ReadBaseline(m) \/ StartSelfTest(m) \/ Compare(m)
    PROVE  m \in todo /\ todo' = todo \ {m}
  BY DEF ReadBaseline, StartSelfTest, Compare, FirstOf

LEMMA SilentRead ==
    ASSUME IInv, Silent, NEW m \in Names, ReadBaseline(m)
    PROVE  Silent'
  <1> SUFFICES ASSUME findings' = {}
               PROVE  /\ Names \ todo' \subseteq Based'
                      /\ memory'.inventoried => Covered(memory)'
                      /\ stick'.inventoried => Covered(stick)'
      BY DEF Silent, ReadBaseline
  <1>1. findings = {} /\ pc = "baseline" /\ stick' = stick /\ todo' = todo \ {m}
      BY DEF ReadBaseline
  <1> DEFINE b == [drive |-> at[m], defects |-> drive[at[m]].defects, entry |-> drive[at[m]].entry]
  <1>2. b # NoBase
      BY DEF NoBase
  <1> HIDE DEF b
  <1>3. memory.base \in [Names -> Bases] /\ memory \in Records
      BY DEF IInv, TypeOK, Records, Bases
  <1>4. \/ memory.base[m] # NoBase /\ memory' = memory
        \/ memory' = [memory EXCEPT !.base[m] = b]
      BY DEF ReadBaseline, b
  <1>5. /\ memory'.base[m] # NoBase /\ memory'.inventoried = memory.inventoried
        /\ \A n \in Names : memory.base[n] # NoBase => memory'.base[n] # NoBase
      BY <1>2, <1>3, <1>4 DEF Records
  <1>6. Names \ todo \subseteq Based
      BY <1>1 DEF Silent
  <1>7. Names \ todo' \subseteq Based'
      BY <1>1, <1>5, <1>6 DEF Based
  <1>8. stick.inventoried => Covered(stick)
      BY <1>1 DEF Silent
  <1>9. memory'.inventoried => Covered(memory)'
      BY <1>1, <1>5 DEF Silent, Covered
  <1> QED
      BY <1>1, <1>7, <1>8, <1>9 DEF Covered

\* A comparison without a finding: the drive is the same, has not grown, and passed.
LEMMA SilentCompare ==
    ASSUME IInv, \A n \in Names : Outgrown(n), Silent, NEW m \in Names, Compare(m) \/ CompareNothing(m)
    PROVE  Silent'
  <1> SUFFICES ASSUME findings' = {} PROVE Silent'
      BY DEF Silent
  <1>0. Compare(m)
      BY DEF CompareNothing
  <1>1. mixed \subseteq mixed' /\ findings = {} /\ pc = "compare" /\ pc' = pc /\ stick' = stick /\ fresh' = fresh
        /\ told' = (told \ {m}) \cup (grown \cap {m})
      BY <1>0 DEF Compare
  <1>2. todo' = todo \ {m}
      BY <1>0, Visits
  <1>3. memory'.base = memory.base /\ memory'.inventoried = memory.inventoried
      BY <1>0, BasesStay
  <1>4. Covered(memory)
      BY <1>1 DEF Silent
  <1>5. Passed(m)'
      <2>1. memory.base[m] # NoBase /\ Identified(memory.base[m], at[m])
          BY <1>0, <1>4 DEF Compare, If, Covered
      <2>2. CASE memory.base[m].drive # at[m]
          BY <1>0, <2>1, <2>2 DEF Compare, If, Passed
      <2>3. CASE memory.base[m].drive = at[m]
          <3>1. /\ Completed(m, drive[at[m]])
                /\ ~(drive[at[m]].defects > memory.base[m].defects)
              BY <1>0 DEF Compare, Judged, If
          <3>2. m \in fresh
              BY <2>1, <2>3, <3>1, CompletedIsFresh
          <3>3. m \in grown => memory.base[m].defects < drive[at[m]].defects
              BY <2>1, <2>3 DEF Outgrown
          <3>4. memory.base[m].defects \in Nat /\ drive[at[m]].defects \in Nat
              BY <2>1, <2>3, CountersAreNumbers
          <3> QED
              BY <1>1, <3>1, <3>2, <3>3, <3>4 DEF Passed
      <2> QED
          BY <2>2, <2>3
  <1>6. \A n \in Names \ todo' : Passed(n)'
      <2>1. \A n \in Names \ todo : Passed(n)
          BY <1>1 DEF Silent
      <2> QED
          BY <1>1, <1>2, <1>5, <2>1 DEF Passed
  <1> QED
      BY <1>1, <1>3, <1>6 DEF Silent, Covered

LEMMA SilentKeeps ==
    ASSUME IInv, \A n \in Names : Outgrown(n), Silent, [Next]_vars
    PROVE  Silent'
  <1>1. ASSUME NEW d \in Drives, Grow(d) PROVE Silent'
      BY <1>1 DEF Grow, Silent, Covered, Based, Passed
  <1>2. ASSUME NEW d \in Drives, NEW h \in 0..MaxHours, NEW o \in {"passed", "failed"},
               EndTest(d, h, o)
        PROVE  Silent'
      <2>1. fresh \subseteq fresh' /\ UNCHANGED <<pc, todo, memory, stick, findings, told, mixed>>
          BY <1>2 DEF EndTest
      <2> QED
          BY <2>1 DEF Silent, Covered, Based, Passed
  <1>3. ASSUME NEW m \in Names, StartSelfTest(m) PROVE Silent'
      <2>1. /\ memory'.base = memory.base /\ memory'.inventoried = memory.inventoried
            /\ stick' = stick /\ pc' = pc /\ pc = "start" /\ (findings' = {} => findings = {})
          BY <1>3, BasesStay DEF StartSelfTest
      <2> QED
          BY <2>1 DEF Silent, Covered
  <1>4. ASSUME NEW m \in Names, Observe(m) PROVE Silent'
      <2>1. /\ memory'.base = memory.base /\ memory'.inventoried = memory.inventoried
            /\ stick' = stick /\ pc' = pc /\ pc = "wait" /\ findings' = findings
          BY <1>4, BasesStay DEF Observe
      <2> QED
          BY <2>1 DEF Silent, Covered
  <1>5. CASE EndBaseline
      <2>1. /\ findings' = findings /\ memory' = memory /\ stick' = memory /\ pc' = "start"
            /\ pc = "baseline" /\ todo = {}
          BY <1>5 DEF EndBaseline
      <2> QED
          BY <2>1 DEF Silent, Covered, Based
  <1>6. CASE EndStart
      <2>1. /\ findings' = findings /\ memory'.base = memory.base /\ stick' = memory'
            /\ pc' = "stress" /\ pc = "start"
          BY <1>6, SetFlag DEF EndStart, IInv, TypeOK
      <2> QED
          BY <2>1 DEF Silent, Covered
  <1>7. CASE BeginFinal \/ EndWait
      <2>1. /\ findings' = findings /\ memory' = memory /\ stick' = stick /\ todo' = Based
            /\ pc' \in {"wait", "compare"} /\ pc # "baseline"
          BY <1>7 DEF BeginFinal, EndWait
      <2>2. Covered(memory) => Based = Names
          BY DEF Covered, Based
      <2> QED
          BY <2>1, <2>2 DEF Silent, Covered
  <1>8. CASE EndFinal
      <2>1. /\ findings' = findings /\ memory'.base = memory.base /\ stick' = memory'
            /\ UNCHANGED <<fresh, told, mixed>> /\ pc' \in {"over", "cycled"}
            /\ pc = "compare" /\ todo = {}
          BY <1>8, SetFlag DEF EndFinal, IInv, TypeOK
      <2> QED
          BY <2>1 DEF Silent, Covered, Passed
  <1>9. CASE Heartbeat
      <2>1. stick' = memory /\ UNCHANGED <<findings, memory, pc, todo, fresh, told, mixed>>
          BY <1>9 DEF Heartbeat
      <2> QED
          BY <2>1 DEF Silent, Covered, Based, Passed
  <1>10. CASE Die \/ Reboot
      <2>1. UNCHANGED <<stick, findings>> /\ Resume
          BY <1>10, Zenon DEF Die, Reboot
      <2>2. /\ memory' = stick
            /\ ~stick.inventoried => pc' = "baseline" /\ todo' = Names
            /\ stick.inventoried => pc' \in {"cycled", "stress"}
          BY <2>1 DEF Resume
      <2> QED
          BY <2>1, <2>2 DEF Silent, Covered, Based
  <1>11. CASE UNCHANGED vars
      BY <1>11 DEF vars, Silent, Covered, Based, Passed
  <1> QED
      BY <1>1, <1>2, <1>3, <1>4, <1>5, <1>6, <1>7, <1>8, <1>9, <1>10, <1>11,
         SilentRead, SilentCompare DEF Next

\* A run that smart_final ends without any finding has compared every drive with
\* its own baseline, found it as it was, and seen it pass a test, but for the
\* names where another drive met a baseline without a serial number: this holds
\* for any number of drives, whatever deaths and reboots the run has been through.
THEOREM SilentCorrect == Spec => []SilentRunTestedEveryDrive
  <1>1. Init => SInv
      <2> SUFFICES ASSUME Init PROVE SInv
          OBVIOUS
      <2>1. /\ \A n \in Names : memory.base[n] = NoBase
            /\ pc = "baseline" /\ todo = Names /\ ~memory.inventoried /\ ~stick.inventoried
          BY DEF Init
      <2> QED
          BY <2>1, InitHolds DEF SInv, Outgrown, Silent
  <1>2. SInv /\ [Next]_vars => SInv'
      BY Inductive, OutgrownKeeps, SilentKeeps DEF SInv
  <1>3. SInv => SilentRunTestedEveryDrive
      BY DEF SInv, Silent, Passed, SilentRunTestedEveryDrive
  <1> QED
      BY <1>1, <1>2, <1>3, PTL DEF Spec
=============================================================================
