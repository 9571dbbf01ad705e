------------------------- MODULE MCLinearReversible -------------------------
(* Instance of LinearReversible for TLC.                                   *)
EXTENDS LinearReversible, FiniteSets

Symmetric(edges) == edges \cup {<<e[2], e[1]>> : e \in edges}

(* A line whose qubits are out of order, so that paths cross the diagonal, *)
(* and a ring, where there is a choice of paths and trees.                 *)
SomeGraphs ==
  {Symmetric({<<1, 0>>, <<0, 3>>, <<3, 2>>}),
   Symmetric({<<0, 1>>, <<1, 2>>, <<2, 3>>, <<3, 0>>})}

(* The permutations of the qubits that move every one of them, alone or    *)
(* followed by CNOTs; and operators that are not invertible, because there *)
(* is nothing in a column, or because their columns add up to nothing      *)
SomeOperators ==
  LET bijections == {f \in [Qubits -> Qubits] :
                       /\ \A a, b \in Qubits : f[a] = f[b] => a = b
                       /\ \A a \in Qubits : f[a] # a}
      permutation(f) == [q \in Qubits |-> {f[q]}]
      pairs(n)       == [q \in Qubits |-> {(q + n) % NQ, (q + n + 1) % NQ}]
      emptyColumn    == [q \in Qubits |-> {(q + 1) % NQ} \ {1}]
  IN  {AddRows(permutation(f), cnots) :
         f \in bijections, cnots \in {<<>>, <<<<3, 1>>, <<0, 3>>, <<1, 2>>>>}}
      \cup {pairs(0), pairs(1), pairs(2), emptyColumn}

(* the simple paths of each graph, from each qubit *)
SimplePaths ==
  [g \in SomeGraphs |-> [a \in Qubits |->
     LET grown[n \in 0 .. NQ - 1] ==
           IF n = 0 THEN {<<a>>}
           ELSE UNION {{Append(p, q) : q \in {q \in Qubits \ Range(p) : <<Last(p), q>> \in g}} :
                         p \in grown[n - 1]}
     IN  UNION {grown[n] : n \in 0 .. NQ - 1}]]

EveryPath(g, a, b) == {p \in SimplePaths[g][a] : Last(p) = b}

(* the trees of each graph with each root, in topological order *)
Trees ==
  [g \in SomeGraphs |-> [r \in Qubits |->
     LET in(t) == Nodes(r, t, Len(t))
         grown[n \in 0 .. NQ - 1] ==
           IF n = 0 THEN {<<>>}
           ELSE UNION {{Append(t, e) : e \in {e \in g : e[1] \in in(t) /\ e[2] \notin in(t)}} :
                         t \in grown[n - 1]}
     IN  UNION {grown[n] : n \in 0 .. NQ - 1}]]

EveryTree(g, r, terminals) == {t \in Trees[g][r] : IsTree(g, r, terminals, t)}
=============================================================================
