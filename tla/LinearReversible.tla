-------------------------- MODULE LinearReversible --------------------------
(***************************************************************************)
(* Synthesis of a linear operator over GF(2) as CNOTs                      *)
(* (synthesis/linear_reversible.hpp): gauss_jordan, gaussian_elim and the  *)
(* device-constrained steiner_gauss, which give up when they find that the *)
(* operator is not invertible.                                             *)
(*                                                                         *)
(* A row of the operator is the set of the columns in which it has a 1,    *)
(* the CNOT <<c, t>> adds row c to row t, and ret is the list of CNOTs     *)
(* under construction: the operations that reduce the operator to the      *)
(* identity, reversed at the end.                                          *)
(*                                                                         *)
(* The device answers shortest_path and steiner as ShortestPaths and       *)
(* SteinerTree show it to: a simple path, and a tree of couplings in       *)
(* topological order whose leaves are terminals (DeviceAssumption).  Which *)
(* path or tree, and which pivot is nearest, is up to the fidelities, left *)
(* open here.                                                              *)
(***************************************************************************)
EXTENDS Integers, FiniteSets, Sequences, SequencesExt

CONSTANTS
  NQ,         \* the size of the operator
  Operators,  \* the operators to synthesize
  Graphs,     \* the coupling graphs, as symmetric sets of pairs
  Methods,    \* the algorithms: "jordan", "elim", "steiner"
  ShortestPaths(_, _, _),  \* what shortest_path may answer on a graph, from
                           \* one qubit to another: lists of qubits
  SteinerTrees(_, _, _)    \* what steiner may answer on a graph, with a root,
                           \* for a set of terminals: lists of edges

Qubits == 0 .. NQ - 1

(* WalkIsPath of ShortestPaths, on a connected device *)
IsPath(graph, from, to, path) ==
  /\ path \in Seq(Qubits) /\ path # <<>>
  /\ path[1] = from /\ path[Len(path)] = to
  /\ \A n \in 1 .. Len(path) - 1 : <<path[n], path[n + 1]>> \in graph
  /\ \A m, n \in 1 .. Len(path) : path[m] = path[n] => m = n

Nodes(r, tree, n) == {r} \cup {tree[m][2] : m \in 1 .. n}

(* TopologicalTree and SpansTerminals of SteinerTree, on a connected device *)
IsTree(graph, r, terminals, tree) ==
  /\ tree \in Seq(graph)
  /\ \A n \in 1 .. Len(tree) :
       /\ tree[n][1] \in Nodes(r, tree, n - 1)
       /\ tree[n][2] \notin Nodes(r, tree, n - 1)
  /\ terminals \subseteq Nodes(r, tree, Len(tree))
  /\ \A n \in 1 .. Len(tree) :
       tree[n][2] \in terminals \/ \E m \in 1 .. Len(tree) : tree[m][1] = tree[n][2]

ASSUME SizeAssumption   == NQ \in Nat \ {0}
ASSUME InputAssumption  == Operators \subseteq [Qubits -> SUBSET Qubits]
ASSUME MethodAssumption == Methods \subseteq {"jordan", "elim", "steiner"}
ASSUME DeviceAssumption ==
  \A G \in Graphs :
    /\ G \subseteq Qubits \X Qubits
    /\ \A a, b \in Qubits : \A p \in ShortestPaths(G, a, b) : IsPath(G, a, b, p)
    /\ \A r \in Qubits : \A terminals \in SUBSET (Qubits \ {r}) :
         \A t \in SteinerTrees(G, r, terminals) : IsTree(G, r, terminals, t)

VARIABLES
  method,
  graph,
  operator,  \* the argument; the program works on a copy of it, mat
  mat,
  i,         \* the column of the outer loop
  phase,     \* where in the body of the loop the program is; at the end
             \* "returned", or "failed" without a pivot
  ret,       \* the CNOTs of the columns before i
  pivot,
  path,      \* shortest_path(pivot, i)
  s_tree,    \* steiner(pivots, i)
  swap,      \* the CNOTs of phases 1 and 2
  compute,   \* the CNOTs of phases 4, 5 and 6
  above_diagonal_dep,  \* rows with a dependence on a row above the diagonal
  crossed_diag

input   == <<method, graph, operator>>
scratch == <<pivot, path, s_tree, swap, compute, above_diagonal_dep, crossed_diag>>
vars    == <<input, mat, i, phase, ret, scratch>>

Xor(A, B) == (A \ B) \cup (B \ A)

AddRow(m, cx) == [m EXCEPT ![cx[2]] = Xor(@, m[cx[1]])]

(* Op applied with each element of the list in turn *)
InTurn(Op(_, _), base, list) ==
  LET upTo[n \in 0 .. Len(list)] ==
        IF n = 0 THEN base ELSE Op(upTo[n - 1], list[n])
  IN  upTo[Len(list)]

AddRows(m, cnots) == InTurn(AddRow, m, cnots)

Identity == [q \in Qubits |-> {q}]

Init ==
  /\ method \in Methods
  /\ graph \in Graphs
  /\ operator \in Operators
  /\ mat = operator
  /\ i = 0
  /\ phase = IF method = "steiner" THEN "pivot" ELSE "column"
  /\ ret = <<>>
  /\ pivot = 0 /\ path = <<>> /\ s_tree = <<>> /\ swap = <<>> /\ compute = <<>>
  /\ above_diagonal_dep = {} /\ crossed_diag = FALSE

Finish == phase' = "done" /\ UNCHANGED i

(* The body of a loop over CNOTs changes the rows, the list of the CNOTs   *)
(* made and the record of which rows depend on rows above the diagonal;    *)
(* these three are st.                                                     *)
Record(st, cx) ==
  [mat   |-> AddRow(st.mat, cx),
   dep   |-> IF cx[1] \in st.dep \/ cx[1] < i THEN st.dep \cup {cx[2]} ELSE st.dep,
   cnots |-> Append(st.cnots, cx)]

Start(m, dep, list) == [mat |-> m, dep |-> dep, cnots |-> list]

-----------------------------------------------------------------------------
(* gauss_jordan and gaussian_elim: one column per step.                    *)

(* the rows in which column i has its pivot; mutant: the diagonal is skipped *)
CandidatesBelow == {j \in i + 1 .. NQ - 1 : i \in mat[j]}

Candidates == {j \in i .. NQ - 1 : i \in mat[j]}

(* Mutant: the rows are exchanged by two CNOTs. *)
SwapRowsByTwo(p) == IF p = i THEN <<>> ELSE <<<<p, i>>, <<i, p>>>>

SwapRows(p) == IF p = i THEN <<>> ELSE <<<<p, i>>, <<i, p>>, <<p, i>>>>

(* Row i is added to another one that has a 1 in its column. *)
Clear(st, cx) ==
  IF cx[1] # cx[2] /\ i \in st.mat[cx[2]] THEN Record(st, cx) ELSE st

(* the rows that the loop runs over, from row i *)
AllRows   == [n \in 1 .. NQ |-> <<i, n - 1>>]
RowsBelow == [n \in 1 .. NQ - 1 - i |-> <<i, i + n>>]
RowsAbove == [n \in 1 .. i |-> <<i, i - n>>]

Column ==
  /\ phase = "column"
  /\ \E p \in Candidates :
       /\ \A j \in Candidates : p <= j
       /\ LET swapped == [mat EXCEPT ![i] = mat[p], ![p] = mat[i]]
              st == InTurn(Clear, Start(swapped, {}, <<>>),
                           IF method = "jordan" THEN AllRows ELSE RowsBelow)
          IN  /\ mat' = st.mat
              /\ ret' = ret \o SwapRows(p) \o st.cnots
  /\ IF i + 1 < NQ THEN i' = i + 1 /\ UNCHANGED phase
     ELSE IF method = "elim" THEN phase' = "back" /\ UNCHANGED i
     ELSE Finish
  /\ UNCHANGED <<input, scratch>>

(* "Error: linear operator is not invertible", in the three algorithms:    *)
(* what there is of ret is returned as it is.                              *)
NoPivot ==
  /\ phase \in {"column", "pivot"}
  /\ Candidates = {}
  /\ phase' = "failed"
  /\ UNCHANGED <<input, mat, i, ret, scratch>>

(* the second loop of gaussian_elim, above the diagonal, column by column *)
BackColumn ==
  /\ phase = "back"
  /\ LET st == InTurn(Clear, Start(mat, {}, <<>>), RowsAbove)
     IN  /\ mat' = st.mat
         /\ ret' = ret \o st.cnots
  /\ IF i > 0 THEN i' = i - 1 /\ UNCHANGED phase ELSE Finish
  /\ UNCHANGED <<input, scratch>>

-----------------------------------------------------------------------------
(* steiner_gauss *)

(* Fill: the CNOT is needed only where the target has no 1 in column i. *)
Fill(st, cx) == IF i \in st.mat[cx[2]] THEN st ELSE Record(st, cx)

(* Repeat a CNOT if it added something from above the diagonal, but not    *)
(* those from the pivot.                                                   *)
Repeat(st, cx) ==
  IF cx[2] \in above_diagonal_dep /\ cx[1] # pivot THEN Record(st, cx) ELSE st

(* Mutant: first to last. *)
UndoForward(list) == InTurn(Repeat, Start(mat, above_diagonal_dep, list), list)

(* the list with what is repeated of it, last CNOT first *)
Undo(list) == InTurn(Repeat, Start(mat, above_diagonal_dep, list), Reverse(list))

(* Mutant: the control stays at the pivot. *)
StepsFromPivot(p) == [n \in 1 .. Len(p) - 1 |-> <<p[1], p[n + 1]>>]

Steps(p) == [n \in 1 .. Len(p) - 1 |-> <<p[n], p[n + 1]>>]

(* the same steps, last first, but for the one into row i *)
StepsBack(p) == [n \in 1 .. Len(p) - 2 |-> <<p[Len(p) - 1 - n], p[Len(p) - n]>>]

(* Phases 0 and 1: choose a pivot and fill the column along a path from it *)
FillPath ==
  /\ phase = "pivot"
  /\ \E p \in Candidates : \E way \in ShortestPaths(graph, p, i) :
       LET st == InTurn(Fill, Start(mat, {}, <<>>), Steps(way))
       IN  /\ pivot' = p
           /\ path' = way
           /\ mat' = st.mat
           /\ swap' = st.cnots
           /\ above_diagonal_dep' = st.dep
           /\ crossed_diag' = \E n \in DOMAIN st.cnots : st.cnots[n][1] < i
  /\ phase' = "cross"
  /\ UNCHANGED <<input, i, ret, s_tree, compute>>

(* Phase 2, when the path crossed the diagonal: clear the column along it *)
ClearPath ==
  /\ phase = "cross"
  /\ crossed_diag
  /\ LET st == InTurn(Record, Start(mat, above_diagonal_dep, swap), StepsBack(path))
     IN  /\ mat' = st.mat
         /\ swap' = st.cnots
         /\ above_diagonal_dep' = st.dep
  /\ phase' = "uncross"
  /\ UNCHANGED <<input, i, ret, pivot, path, s_tree, compute, crossed_diag>>

(* ... and then repeat the computation to remove what is above it *)
UndoPath ==
  /\ phase = "uncross"
  /\ mat' = Undo(swap).mat
  /\ swap' = Undo(swap).cnots
  /\ crossed_diag' = FALSE
  /\ phase' = "cross"
  /\ UNCHANGED <<input, i, ret, pivot, path, s_tree, compute, above_diagonal_dep>>

(* Phases 3 and 4: the tree of the rows with a 1 in the column, and a 1    *)
(* for each of its Steiner points                                          *)
FillTree ==
  /\ phase = "cross"
  /\ ~crossed_diag
  /\ pivot' = i
  /\ \E t \in SteinerTrees(graph, i, {j \in Qubits \ {i} : i \in mat[j]}) :
       LET st == InTurn(Fill, Start(mat, {}, <<>>), t)
       IN  /\ s_tree' = t
           /\ mat' = st.mat
           /\ compute' = st.cnots
           /\ above_diagonal_dep' = st.dep
  /\ phase' = "tree"
  /\ UNCHANGED <<input, i, ret, path, swap, crossed_diag>>

(* Phase 5: empty the column, from the leaves of the tree to its root *)
ClearTree ==
  /\ phase = "tree"
  /\ LET st == InTurn(Record, Start(mat, above_diagonal_dep, compute), Reverse(s_tree))
     IN  /\ mat' = st.mat
         /\ compute' = st.cnots
         /\ above_diagonal_dep' = st.dep
  /\ phase' = "untree"
  /\ UNCHANGED <<input, i, ret, pivot, path, s_tree, swap, crossed_diag>>

(* Phase 6, and the end of the body of the loop *)
UndoTree ==
  /\ phase = "untree"
  /\ mat' = Undo(compute).mat
  /\ ret' = ret \o swap \o Undo(compute).cnots
  /\ above_diagonal_dep' = {}
  /\ pivot' = 0 /\ path' = <<>> /\ s_tree' = <<>> /\ swap' = <<>> /\ compute' = <<>>
  /\ IF i + 1 < NQ THEN i' = i + 1 /\ phase' = "pivot" ELSE Finish
  /\ UNCHANGED <<input, crossed_diag>>

(* ret.reverse() and the return *)
Return ==
  /\ phase = "done"
  /\ ret' = Reverse(ret)
  /\ phase' = "returned"
  /\ UNCHANGED <<input, mat, i, scratch>>

Next ==
  \/ Column
  \/ NoPivot
  \/ BackColumn
  \/ FillPath
  \/ ClearPath
  \/ UndoPath
  \/ FillTree
  \/ ClearTree
  \/ UndoTree
  \/ Return

Spec == Init /\ [][Next]_vars /\ WF_vars(Next)

-----------------------------------------------------------------------------
(* The columns that are done stay done: nothing done for column i spoils   *)
(* those before it.  What phases 1 and 4 add to a row from above the       *)
(* diagonal is why phases 2 and 6 exist.                                   *)
ColumnsDone ==
  phase \in {"column", "pivot"} =>
    \A c \in 0 .. i - 1 : \A r \in Qubits :
      \/ method = "elim" /\ r < c
      \/ c \in mat[r] <=> r = c

(* No set of columns adds up to nothing in every row. *)
Invertible(m) ==
  \A S \in (SUBSET Qubits) \ {{}} :
    \E q \in Qubits : Cardinality(m[q] \cap S) % 2 = 1

(* The CNOTs that are returned compute the operator, and it is only for an *)
(* operator that has no such CNOTs that there are none: whatever was done  *)
(* for the earlier columns, a column without a pivot depends on those      *)
(* before it in the operator already.                                      *)
Synthesized ==
  /\ phase = "returned" => AddRows(Identity, ret) = operator /\ Invertible(operator)
  /\ phase = "failed"   => ~Invertible(operator)

(* Every CNOT of steiner_gauss is between coupled qubits. *)
OnCouplings == method = "steiner" => \A n \in DOMAIN ret : ret[n] \in graph

(* The synthesis comes to its end: with the operator used up if it is      *)
(* invertible, since then there is always a pivot, and otherwise with      *)
(* "Error: linear operator is not invertible", which is never printed for  *)
(* an operator that is, whatever the earlier columns did to the rows.      *)
SynthesisEnds ==
  <>(\/ phase = "returned" /\ mat = Identity /\ Invertible(operator)
     \/ phase = "failed" /\ ~Invertible(operator))

=============================================================================
