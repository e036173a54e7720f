---------------------------- MODULE DurableCell ----------------------------
(***************************************************************************)
(* What a store with two rotating slots promises its writer: a cell whose  *)
(* value survives a power cut.                                             *)
(*                                                                         *)
(*   acked      what a power cut now would leave at least                  *)
(*   maybe      newer values on their way: a cut may leave one of them     *)
(*   disturbed  since the last save that succeeded, an attempt failed or   *)
(*              the program died inside one: the promise is off            *)
(*                                                                         *)
(* The next save that succeeds restores the promise.                       *)
(***************************************************************************)
CONSTANT Values

VARIABLES acked, maybe, disturbed

vars == <<acked, maybe, disturbed>>

Init == acked \in Values /\ maybe = {} /\ disturbed = FALSE

Begin ==
    /\ \E v \in Values : maybe' = maybe \cup {v}
    /\ UNCHANGED <<acked, disturbed>>

Ack ==
    /\ acked' \in maybe
    /\ maybe' = {}
    /\ disturbed' = FALSE

\* A value gets through on its own, or its writer is gone.
Drift ==
    /\ acked' \in {acked} \cup maybe
    /\ maybe' \in SUBSET maybe
    /\ UNCHANGED disturbed

Disturb ==
    /\ maybe' \in SUBSET maybe
    /\ disturbed' = TRUE
    /\ UNCHANGED acked

PowerCut ==
    /\ acked' \in IF disturbed THEN Values ELSE {acked} \cup maybe
    /\ maybe' = {}
    /\ disturbed' = FALSE

Next == Begin \/ Ack \/ Drift \/ Disturb \/ PowerCut

Spec == Init /\ [][Next]_vars
=============================================================================
