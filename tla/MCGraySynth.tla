---------------------------- MODULE MCGraySynth ----------------------------
(* Instance of GraySynth for TLC.                                          *)
EXTENDS GraySynth

Symmetric(edges) == edges \cup {<<e[2], e[1]>> : e \in edges}

(* A ring of four with a tail, on which restarts occur *)
Kite == Symmetric({<<0, 1>>, <<1, 2>>, <<2, 3>>, <<3, 0>>, <<0, 4>>})

SomeGraphs == {Kite}

(* the lists of edges that make trees, in topological order *)
Trees ==
  [G \in SomeGraphs |-> [r \in Qubits |->
     LET grown[n \in 0 .. NQ - 1] ==
           IF n = 0 THEN {<<>>}
           ELSE UNION {{Append(t, e) : e \in {e \in G : /\ e[1] \in Nodes(r, t, n - 1)
                                                        /\ e[2] \notin Nodes(r, t, n - 1)}} :
                         t \in grown[n - 1]}
     IN  UNION {grown[n] : n \in 0 .. NQ - 1}]]

(* those over the terminals whose leaves are terminals *)
SomeTrees(G, r, terminals) ==
  {t \in Trees[G][r] :
     /\ terminals \subseteq Nodes(r, t, Len(t))
     /\ \A n \in 1 .. Len(t) :
          t[n][2] \in terminals \/ \E m \in 1 .. Len(t) : t[m][1] = t[n][2]}

(* All parities of one set, with some of which a tree through the ring     *)
(* makes gray_steiner start again; and one set with which it does on this  *)
(* device with costs 3, 3, 2, 2 along the ring and 2 on the tail.          *)
SomePhaseSets ==
  SUBSET {{1, 3}, {1, 2, 3}, {0, 1, 3, 4}, {0, 1, 2, 3, 4}, {4}, {0, 1}}
    \cup {{{0, 3}, {0, 1, 3}, {1, 4}, {2, 4}, {0, 2, 4},
           {0, 1, 2, 4}, {3, 4}, {0, 2, 3, 4}, {1, 2, 3, 4}}}

SomeOperators ==
  {[q \in Qubits |-> {q}], [q \in Qubits |-> IF q = 0 THEN {4} ELSE {q - 1, q}]}
=============================================================================
