--------------------------- MODULE MCSteinerTree ---------------------------
(* Instance of SteinerTree for TLC, and the reference for the quality of   *)
(* the tree: the cheapest set of couplings that connects the terminals.    *)
EXTENDS SteinerTree, MCShortestPaths

EdgesCost(edges) == MapThenSumSet(LAMBDA e : cost[e], edges)

(* the nodes that the couplings in edges connect to the root *)
Component(edges) ==
  LET grown[n \in 0 .. NQ] ==
        IF n = 0 THEN {root}
        ELSE grown[n - 1] \cup {q \in Qubits : \E p \in grown[n - 1] :
                                  <<p, q>> \in edges \/ <<q, p>> \in edges}
  IN  grown[NQ]

Connects(edges) == wanted \subseteq Component(edges)

(* The approximation is the one known for attaching the nearest terminal   *)
(* first: with k nodes to connect, no set of couplings that connects them  *)
(* costs less than k/(2k - 2) times the tree.  (It is known for couplings  *)
(* that cost the same in either direction.)                                *)
NearlyMinimal ==
  root # NQ /\ terminals = <<>> /\ wanted # {} /\ wanted \subseteq in_tree
    /\ couplings \in OneWayDigraphs =>
    LET k == Cardinality(wanted) + 1
        treeCost == EdgesCost({e \in couplings : \E n \in DOMAIN tree :
                                 tree[n] = e \/ tree[n] = <<e[2], e[1]>>})
    IN  \A edges \in SUBSET couplings :
          2 * (k - 1) * EdgesCost(edges) < k * treeCost => ~Connects(edges)

(* Every computation that starts ends: the triple loop, and the while loop *)
(* of shortest_path and distance for every pair of qubits.                 *)
EveryQueryAnswered ==
  /\ <>Computed
  /\ walk # <<>> ~> Answered
=============================================================================
