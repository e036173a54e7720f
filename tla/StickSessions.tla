--------------------------- MODULE StickSessions ---------------------------
(***************************************************************************)
(* One stick that goes from machine to machine: where setup_storage puts   *)
(* the sessions, and which of them Session.open takes up.  The sessions of *)
(* a root are found through the pointer of the machine or, when that is    *)
(* lost, among the directories whose names sort last.                      *)
(*                                                                         *)
(* A name starts with the time.  A new one sorts last, or first when the   *)
(* clock of its machine has been lost; two sessions never get the same     *)
(* name here.  Of a session the status is kept and the machine_id.         *)
(***************************************************************************)
EXTENDS Naturals, FiniteSetsExt

CONSTANTS
    Machines,
    Identified,    \* those with a UUID or serial number; others have a MAC
    SearchLimit,   \* how many directories _find_running looks at, 50
    MaxSessions,   \* bounds: sessions per root,
    MaxBoots,      \*   boots with the stick,
    MaxDeaths,     \*   deaths of the program,
    MaxFaults      \*   operations that fail

Stick == {"data", "medium"}          \* PCCHECKDATA, or the boot medium
Roots == Stick \cup {"ram"}
Names == 1..(2 * MaxSessions)        \* in the order they sort
NoName == 0
NoHost == "no machine"
NoMac == "no MAC"
Ids == Machines \cup {NoMac}

ASSUME StickAssumption ==
    /\ Identified \subseteq Machines
    /\ SearchLimit \in Nat \ {0} /\ MaxSessions \in Nat \ {0}
    /\ MaxBoots \in Nat /\ MaxDeaths \in Nat /\ MaxFaults \in Nat
    /\ NoMac \notin Machines /\ NoHost \notin Machines

VARIABLES
    (* on the stick, and in RAM *)
    room,       \* the disk has room for another partition
    fat,        \* the medium is not an ISO image but can be written
    part,       \* PCCHECKDATA: "absent", "raw" (no file system yet) or "ready"
    dirs,       \* what a directory of sessions/ says
    pointer,    \* active/<machine_id>.json
    (* the machine and the program in it *)
    host, id, pc,
    mounted,    \* /mnt/pccheck
    root,       \* StorageInfo.root
    cur,        \* the session, by its directory
    mem,        \* its status in memory
    left,       \* boots, deaths and faults still to come
    (* history of the stick *)
    slipped,    \* a start went past a place that had been in use
    spoilt,     \* PCCHECKDATA was added and not formatted
    forgotten,  \* sessions that a search for them did not reach
    closed,     \* sessions that were finished and saved so
    ran         \* machines that have run a session

stick   == <<room, fat, part>>
session == <<cur, mem>>
history == <<slipped, spoilt, forgotten, closed, ran>>
vars    == <<stick, dirs, pointer, host, id, pc, mounted, root, session, left, history>>

NoDir == [status |-> "absent", id |-> NoMac]

Dir == [status : {"absent", "empty", "running", "over"}, id : Ids]

Init ==
    \* Made by write-usb.sh, as a copy of the image, as files, or without room.
    /\ \/ part = "ready" /\ room = FALSE /\ fat = FALSE
       \/ part = "absent" /\ room \in BOOLEAN /\ fat \in BOOLEAN /\ ~(room /\ fat)
    /\ dirs = [r \in Roots |-> [n \in Names |-> NoDir]]
    /\ pointer = [r \in Roots |-> [i \in Ids |-> NoName]]
    /\ host = NoHost /\ id = NoMac /\ pc = "off"
    /\ mounted = FALSE /\ root = "ram" /\ cur = NoName /\ mem = "running"
    /\ left = [boots |-> MaxBoots, deaths |-> MaxDeaths, faults |-> MaxFaults]
    /\ slipped = FALSE /\ spoilt = FALSE
    /\ forgotten = {} /\ closed = {}
    /\ ran = [r \in Stick |-> [n \in Names |-> {}]]

Fault == left.faults > 0 /\ left' = [left EXCEPT !.faults = @ - 1]

-----------------------------------------------------------------------------
(* Boots, deaths and the environment *)

\* Some machine boots from the stick.
Boot(m) ==
    /\ pc = "off" /\ left.boots > 0
    /\ left' = [left EXCEPT !.boots = @ - 1]
    /\ host' = m /\ pc' = "storage"
    /\ UNCHANGED <<stick, dirs, pointer, id, mounted, root, session, history>>

\* The program is gone; a new partition it has not formatted stays as it is.
Leave ==
    /\ id' = NoMac /\ root' = "ram" /\ cur' = NoName /\ mem' = "running"
    /\ spoilt' = (spoilt \/ pc = "format")
    /\ UNCHANGED <<stick, slipped, forgotten, closed, ran>>

\* The machine resets, or the operator pulls the stick; what was in RAM is gone.
Reset ==
    /\ pc # "off"
    /\ pc' = "off" /\ host' = NoHost /\ mounted' = FALSE
    /\ dirs' = [dirs EXCEPT !["ram"] = [n \in Names |-> NoDir]]
    /\ pointer' = [pointer EXCEPT !["ram"] = [i \in Ids |-> NoName]]
    /\ Leave
    /\ UNCHANGED left

\* The program dies and is started again.
Die ==
    /\ pc # "off" /\ left.deaths > 0
    /\ left' = [left EXCEPT !.deaths = @ - 1]
    /\ pc' = "storage"
    /\ Leave
    /\ UNCHANGED <<dirs, pointer, host, mounted>>

\* "if the pointer was lost (e.g. damaged by a power cut)"
LosePointer(r, i) ==
    /\ pc = "off" /\ r \in Stick /\ pointer[r][i] # NoName
    /\ Fault
    /\ pointer' = [pointer EXCEPT ![r][i] = NoName]
    /\ UNCHANGED <<stick, dirs, host, id, pc, mounted, root, session, history>>

-----------------------------------------------------------------------------
(* setup_storage *)

Settle(r) ==
    /\ root' = r /\ pc' = "open"
    /\ UNCHANGED <<dirs, pointer, host, id, session, forgotten, closed, ran>>

\* It is mounted from an earlier start, or can be.
UseData ==
    /\ pc = "storage" /\ (mounted \/ part = "ready")
    /\ mounted' = TRUE
    /\ Settle("data")
    /\ UNCHANGED <<stick, left, slipped, spoilt>>

\* There is none, or it does not mount, or cannot be written.
PassData ==
    /\ pc = "storage"
    /\ IF part = "ready" THEN Fault /\ slipped' = TRUE ELSE UNCHANGED <<left, slipped>>
    /\ pc' = "medium"
    /\ UNCHANGED <<stick, dirs, pointer, host, id, mounted, root, session,
                   spoilt, forgotten, closed, ran>>

UseMedium ==
    /\ pc = "medium" /\ fat
    /\ Settle("medium")
    /\ UNCHANGED <<stick, mounted, left, slipped, spoilt>>

PassMedium ==
    /\ pc = "medium"
    /\ IF fat THEN Fault /\ slipped' = TRUE ELSE UNCHANGED <<left, slipped>>
    /\ pc' = "create"
    /\ UNCHANGED <<stick, dirs, pointer, host, id, mounted, root, session,
                   spoilt, forgotten, closed, ran>>

\* create_data_partition: sfdisk gives the new partition all the room ...
AddPartition ==
    /\ pc = "create" /\ room
    /\ room' = FALSE /\ part' = "raw"
    /\ pc' = "format"
    /\ UNCHANGED <<fat, dirs, pointer, host, id, mounted, root, session, left,
                   history>>

\* Mutant of Format: the new partition does not get its label.
FormatUnlabelled ==
    /\ pc = "format"
    /\ mounted' = TRUE
    /\ Settle("data")
    /\ UNCHANGED <<stick, left, slipped, spoilt>>

\* ... and mkfs makes it PCCHECKDATA.
Format ==
    /\ pc = "format"
    /\ part' = "ready" /\ mounted' = TRUE
    /\ Settle("data")
    /\ UNCHANGED <<room, fat, left, slipped, spoilt>>

\* mkfs fails, or what it made does not mount.
FormatFails ==
    /\ pc = "format" /\ Fault
    /\ \/ spoilt' = TRUE /\ UNCHANGED <<part, slipped>>
       \/ part' = "ready" /\ slipped' = TRUE /\ UNCHANGED spoilt
    /\ Settle("ram")
    /\ UNCHANGED <<room, fat, mounted>>

\* Mutant of UseRam: the sessions go to the directory in use.
UseWorkingDirectory ==
    /\ pc = "create"
    /\ IF room THEN Fault /\ slipped' = TRUE ELSE UNCHANGED <<left, slipped>>
    /\ Settle("working directory")
    /\ UNCHANGED <<stick, mounted, spoilt>>

\* There is no room, or sfdisk fails.
UseRam ==
    /\ pc = "create"
    /\ IF room THEN Fault /\ slipped' = TRUE ELSE UNCHANGED <<left, slipped>>
    /\ Settle("ram")
    /\ UNCHANGED <<stick, mounted, spoilt>>

-----------------------------------------------------------------------------
(* machine_identity and Session.open *)

\* The MAC is used only by machines that have nothing better; its card may be
\* missing on some boot.
Identity(m) == IF m \in Identified THEN {m} ELSE {m, NoMac}

Known(r) == {n \in Names : dirs[r][n].status # "absent"}

\* The directories that come before n: the one of the pointer, then those that
\* sort last.
Before(r, i, n) ==
    {k \in Known(r) \ {n} : k = pointer[r][i] \/ (k > n /\ n # pointer[r][i])}

\* Mutant of Candidates: the ones that sort first come first.
CandidatesOldest(r, i) ==
    {n \in Known(r) : Cardinality({k \in Known(r) : k < n}) < SearchLimit}

\* The directories _find_running opens.
Candidates(r, i) == {n \in Known(r) : Cardinality(Before(r, i, n)) < SearchLimit}

\* The time and the serial number; how many there are is bounded.
NewNames(r) ==
    IF Known(r) = {} THEN {MaxSessions}
    ELSE IF Cardinality(Known(r)) < MaxSessions
    THEN {Max(Known(r)) + 1, Min(Known(r)) - 1} ELSE {}

Unfinished(r, i) == {n \in Names : dirs[r][n] = [status |-> "running", id |-> i]}

\* Mutant of Found: the machine_id is not compared.
FoundOfAny(r, i) ==
    LET running == {n \in Candidates(r, i) : dirs[r][n].status = "running"}
    IN  IF pointer[r][i] \in running THEN pointer[r][i]
        ELSE IF running = {} THEN NoName ELSE Max(running)

\* The first one that is running and of this machine.
Found(r, i) ==
    LET running == Unfinished(r, i) \cap Candidates(r, i)
    IN  IF pointer[r][i] \in running THEN pointer[r][i]
        ELSE IF running = {} THEN NoName ELSE Max(running)

Runs(n) == ran' = IF root = "ram" THEN ran ELSE [ran EXCEPT ![root][n] = @ \cup {host}]

Misses(i) ==
    forgotten' = forgotten \cup
        ({root} \X {n \in Unfinished(root, i) : Cardinality(Before(root, i, n)) >= SearchLimit})

\* _find_running, then _resume of what it found, or the directory of a new one.
Open ==
    /\ pc = "open"
    /\ id' \in Identity(host)
    /\ Misses(id')
    /\ LET found == Found(root, id')
       IN \/ /\ found # NoName
             /\ cur' = found /\ Runs(found) /\ pc' = "run"
             /\ UNCHANGED dirs
          \/ /\ found = NoName
             /\ \E n \in NewNames(root) :
                   /\ cur' = n /\ Runs(n)
                   /\ dirs' = [dirs EXCEPT ![root][n] = [status |-> "empty", id |-> id']]
             /\ pc' = "save"
    /\ mem' = "running"
    /\ UNCHANGED <<stick, pointer, host, mounted, root, left, slipped, spoilt, closed>>

\* Session.save, whose OSError is logged.
Save ==
    \/ /\ dirs' = [dirs EXCEPT ![root][cur] = [status |-> mem', id |-> id]]
       /\ UNCHANGED left
    \/ Fault /\ UNCHANGED dirs

\* The first save of a new session.
FirstSave ==
    /\ pc = "save" /\ UNCHANGED session /\ Save
    /\ pc' = "point"
    /\ UNCHANGED <<stick, pointer, host, id, mounted, root, history>>

WritePointer ==
    /\ pc = "point"
    /\ pointer' = [pointer EXCEPT ![root][id] = cur]
    /\ pc' = "run"
    /\ UNCHANGED <<stick, dirs, host, id, mounted, root, session, left, history>>

\* An OSError here is not caught: the program ends and is started again.
PointerFails ==
    /\ pc = "point" /\ Fault
    /\ pc' = "storage"
    /\ Leave
    /\ UNCHANGED <<dirs, pointer, host, mounted>>

-----------------------------------------------------------------------------
(* The run and its end *)

\* update, set_phase and the heartbeat.
Update ==
    /\ pc = "run" /\ UNCHANGED session /\ Save
    /\ UNCHANGED <<stick, pointer, host, id, pc, mounted, root, history>>

\* finish saves the status ...
Finish ==
    /\ pc = "run" /\ mem' = "over" /\ Save
    /\ closed' = IF root # "ram" /\ dirs'[root][cur].status = "over"
                 THEN closed \cup {<<root, cur>>} ELSE closed
    /\ pc' = "unlink"
    /\ UNCHANGED <<stick, pointer, host, id, mounted, root, cur, slipped, spoilt,
                   forgotten, ran>>

\* ... and removes the pointer, whether that could be saved or not.
Unlink ==
    /\ pc = "unlink"
    /\ \/ pointer' = [pointer EXCEPT ![root][id] = NoName] /\ UNCHANGED left
       \/ Fault /\ UNCHANGED pointer
    /\ pc' = "served"
    /\ UNCHANGED <<stick, dirs, host, id, mounted, root, session, history>>

Next ==
    \/ \E m \in Machines : Boot(m)
    \/ \E r \in Stick, i \in Ids : LosePointer(r, i)
    \/ Reset \/ Die
    \/ UseData \/ PassData \/ UseMedium \/ PassMedium \/ AddPartition \/ Format
    \/ FormatFails \/ UseRam
    \/ Open \/ FirstSave \/ WritePointer \/ PointerFails \/ Update \/ Finish \/ Unlink

Spec == Init /\ [][Next]_vars

-----------------------------------------------------------------------------
(* Properties *)

\* The attributes of Session and StorageInfo keep their shape.
TypeOK ==
    /\ room \in BOOLEAN /\ fat \in BOOLEAN /\ part \in {"absent", "raw", "ready"}
    /\ dirs \in [Roots -> [Names -> Dir]]
    /\ pointer \in [Roots -> [Ids -> Names \cup {NoName}]]
    /\ host \in Machines \cup {NoHost} /\ id \in Ids
    /\ pc \in {"off", "storage", "medium", "create", "format", "open", "save", "point",
               "run", "unlink", "served"}
    /\ mounted \in BOOLEAN /\ root \in Roots
    /\ cur \in Names \cup {NoName} /\ mem \in {"running", "over"}

\* "When the machine resets, the next boot detects it" (README.md): while a
\* machine is tested no other unfinished session of it lies on the stick, so
\* the interrupted one is the one that was taken up - whatever happened to its
\* pointer, however often the stick was in other machines, and also when its
\* end could not be saved.  Left out are sessions that _find_running no longer
\* reaches, starts whose storage failed, and machines that only have a MAC.
NoneLeftBehind ==
    pc = "run" /\ host \in Identified =>
        \A r \in Stick : \A n \in Unfinished(r, host) :
            \/ r = root /\ n = cur
            \/ <<r, n>> \in forgotten
            \/ r # root /\ slipped

\* A session whose end was saved is not taken up again, although its pointer
\* may still be there: its report stands.  And one that a machine with an
\* identity has run is not taken up by another machine.
TakesUpItsOwn ==
    pc = "run" /\ root \in Stick =>
        /\ <<root, cur>> \notin closed
        /\ ran[root][cur] \cap Identified # {} => ran[root][cur] = {host}

\* setup_storage: a run is kept in RAM, where no reset is noticed, only if the
\* stick has no room, something fails on this stick, or an earlier start left a
\* partition without a file system.
RoomIsUsed ==
    pc = "run" /\ root = "ram" => slipped \/ spoilt \/ (~room /\ ~fat /\ part = "absent")
=============================================================================
