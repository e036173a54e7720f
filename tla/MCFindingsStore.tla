-------------------------- MODULE MCFindingsStore --------------------------
(* Constants for checking FindingsStore with TLC. *)
EXTENDS FindingsStore, TLC

CONSTANTS k1, k2, m1, m2

MCFiles == 1..7

\* Keys and monitors are interchangeable.
MCSymmetry == Permutations({k1, k2}) \cup Permutations({m1, m2})
=============================================================================
