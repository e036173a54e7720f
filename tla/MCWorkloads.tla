---------------------------- MODULE MCWorkloads ----------------------------
(* Rotations of CPU stressors for TLC: one the phase passes through more than *)
(* once, and one that just fills it, as duration / len(CPU_STRESSORS) does.   *)
EXTENDS Workloads

Short2 == <<"cpu", "zlib">>
Full4 == <<"cpu", "matrix", "ipsec-mb", "zlib">>
=============================================================================
