-------------------------- MODULE MCShortestPaths --------------------------
(* Instance of ShortestPaths for TLC. *)
EXTENDS ShortestPaths

(* Every pair of qubits may be coupled; on a device that couples the first *)
(* of them to all others the pair may be coupled in both directions, where *)
(* the two couplings may differ in fidelity.                               *)
OneWayDigraphs == SUBSET {p \in Pairs : p[1] < p[2]}

SomeDigraphs ==
  OneWayDigraphs
    \cup {G \cup {<<1, 0>>} : G \in {H \in OneWayDigraphs :
                                      \A q \in 1 .. NQ - 1 : <<0, q>> \in H}}
=============================================================================
