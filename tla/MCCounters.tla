----------------------------- MODULE MCCounters -----------------------------
(* Bounds for checking Counters with TLC.  Each source meets the faults that  *)
(* its cursor could go wrong at; where the monitor and the kernel log meet,   *)
(* their interleavings leave no room for faults.                              *)
EXTENDS Counters

Faults(raises, dies, resets) ==
    [errors |-> 2, raises |-> raises, dies |-> dies, resets |-> resets]

MCBounds ==
    [s \in Sources |->
        IF s \in {"aer", "throttle"} THEN Faults(0, 0, 0)
        ELSE IF s = "edac" THEN Faults(1, 1, 0)
        ELSE IF s \in {"ue", "ras"} THEN Faults(0, 1, 1)
        ELSE IF s = "nic" THEN Faults(0, 0, 1)
        ELSE Faults(1, 1, 1)]
=============================================================================
