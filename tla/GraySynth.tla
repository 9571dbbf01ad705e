----------------------------- MODULE GraySynth -----------------------------
(***************************************************************************)
(* Synthesis of a CNOT-dihedral operator (synthesis/cnot_dihedral.hpp):    *)
(* gray_synth, and gray_steiner, which is the same with every CNOT on a    *)
(* coupling of the device.                                                 *)
(*                                                                         *)
(* The operator is a set of phases, each an angle at a parity of the       *)
(* qubits, and a linear operator.  The program sorts the parities into     *)
(* partitions by one index after another; a single parity that is left is  *)
(* computed on the target qubit of its partition, where its phase is       *)
(* applied, and every CNOT on the way changes the parities still to come.  *)
(*                                                                         *)
(* A vector is the set of the indices in which it has a 1.  The callers    *)
(* merge phases at the same parity, so that the parity of a phase on entry *)
(* identifies its angle and stands for it.  The list of CNOTs and phases   *)
(* returned is represented by what it does: state and applied.             *)
(***************************************************************************)
EXTENDS Integers, Sequences, FiniteSets

CONSTANTS
  NQ,         \* the number of qubits
  Methods,    \* the algorithms: "gray", "steiner"
  Graphs,     \* the coupling graphs, as symmetric sets of pairs
  PhaseSets,  \* the arguments f: sets of parities
  Operators,  \* the arguments A
  SteinerTrees(_, _, _)  \* what steiner may answer on a graph, with a root,
                         \* for a set of terminals: lists of edges

Qubits == 0 .. NQ - 1
None   == NQ

Nodes(r, tree, n) == {r} \cup {tree[m][2] : m \in 1 .. n}

(* A tree of couplings in topological order: TopologicalTree and           *)
(* SpansTerminals of SteinerTree, on a connected device                    *)
IsTree(graph, r, terminals, tree) ==
  /\ tree \in Seq(graph)
  /\ \A n \in 1 .. Len(tree) :
       /\ tree[n][1] \in Nodes(r, tree, n - 1)
       /\ tree[n][2] \notin Nodes(r, tree, n - 1)
  /\ terminals \subseteq Nodes(r, tree, Len(tree))

ASSUME SizeAssumption == NQ \in Nat \ {0}
ASSUME InputAssumption ==
  /\ \A f \in PhaseSets : f \subseteq (SUBSET Qubits) \ {{}}
  /\ Operators \subseteq [Qubits -> SUBSET Qubits]
ASSUME TreeAssumption ==
  \A G \in Graphs :
    /\ G \subseteq Qubits \X Qubits
    /\ \A e \in G : <<e[2], e[1]>> \in G
    /\ \A r \in Qubits : \A terminals \in SUBSET (Qubits \ {r}) :
         \A tree \in SteinerTrees(G, r, terminals) : IsTree(G, r, terminals, tree)

VARIABLES
  method, graph, phases, operator,  \* the arguments
  stack,    \* the partitions, the front of the list first
  A,        \* the linear operator that is left to synthesize
  pc,       \* where the program is
  part,     \* the partition that is taken from the stack to be finished
  s_tree,   \* the tree over its parity
  pos,      \* loop variable: an index, or a position in s_tree
  state,    \* the parity of the inputs that each qubit is in
  applied   \* the phases applied: their angles and the parities they met

input == <<method, graph, phases, operator>>
loop  == <<part, s_tree, pos>>
vars  == <<input, stack, A, pc, loop, state, applied>>

Xor(S, T) == (S \ T) \cup (T \ S)

Odd(S) == Cardinality(S) % 2 = 1

(* the parity of the inputs that the qubits of vec together are in, in the *)
(* state st                                                                *)
Parity(st, vec) == {x \in Qubits : Odd({q \in vec : x \in st[q]})}

Inputs == [q \in Qubits |-> {q}]

Partition(target, remaining, terms) ==
  [target |-> target, remaining_indices |-> remaining, terms |-> terms]

NoPart == [target |-> None, vec |-> {}, angle |-> {}]

Init ==
  /\ method \in Methods
  /\ graph \in Graphs
  /\ phases \in PhaseSets
  /\ operator \in Operators
  /\ stack = <<Partition(None, Qubits, {[vec |-> p, angle |-> p] : p \in phases})>>
  /\ A = operator
  /\ pc = "partition"
  /\ part = NoPart /\ s_tree = <<>> /\ pos = 0
  /\ state = Inputs
  /\ applied = {}

-----------------------------------------------------------------------------
(* vec[ctrl] ^= vec[tgt]: a vector after a CNOT *)
Adjust(vec, ctrl, tgt) == IF tgt \in vec THEN Xor(vec, {ctrl}) ELSE vec

AdjustVectors(ctrl, tgt) ==
  [n \in 1 .. Len(stack) |->
     [stack[n] EXCEPT !.terms =
        {[vec |-> Adjust(t.vec, ctrl, tgt), angle |-> t.angle] : t \in @}]]

(* Mutant: the operator is left as it is. *)
EmitCNOTOnly(ctrl, tgt) ==
  /\ stack' = AdjustVectors(ctrl, tgt)
  /\ A' = A
  /\ state' = [state EXCEPT ![tgt] = Xor(@, state[ctrl])]

(* A CNOT is emitted: the vectors of the stack and the operator are        *)
(* adjusted.                                                               *)
EmitCNOT(ctrl, tgt) ==
  /\ stack' = AdjustVectors(ctrl, tgt)
  /\ A' = [q \in Qubits |-> Adjust(A[q], ctrl, tgt)]
  /\ state' = [state EXCEPT ![tgt] = Xor(@, state[ctrl])]

Front == Head(stack)

(* Mutant: the number of terms is not checked. *)
IsSingleUnchecked == Front.target # None /\ Front.terms # {}

IsSingle == Front.target # None /\ \E t \in Front.terms : Front.terms = {t}

(* A partition without terms *)
DropEmpty ==
  /\ pc = "partition" /\ stack # <<>>
  /\ Front.terms = {}
  /\ stack' = Tail(stack)
  /\ UNCHANGED <<input, A, pc, loop, state, applied>>

(* A partition with a target and a single term leaves the stack; its CNOTs *)
(* follow.                                                                 *)
TakeSingle ==
  /\ pc = "partition" /\ stack # <<>>
  /\ IsSingle
  /\ \E t \in Front.terms :
       /\ part' = [target |-> Front.target, vec |-> t.vec, angle |-> t.angle]
       /\ \/ /\ method = "gray"
             /\ pc' = "controls" /\ pos' = 0 /\ s_tree' = <<>>
          \/ /\ method = "steiner"
             /\ pc' = "fill" /\ pos' = 1
             /\ s_tree' \in SteinerTrees(graph, Front.target, t.vec \ {Front.target})
  /\ stack' = Tail(stack)
  /\ UNCHANGED <<input, A, state, applied>>

(* gray_synth: one iteration of the loop over the controls *)
Control ==
  /\ pc = "controls" /\ pos < NQ
  /\ IF pos # part.target /\ pos \in part.vec
     THEN EmitCNOT(pos, part.target)
     ELSE UNCHANGED <<stack, A, state>>
  /\ pos' = pos + 1
  /\ UNCHANGED <<input, pc, part, s_tree, applied>>

Child  == s_tree[pos][2]
Parent == s_tree[pos][1]

(* Mutant: every point of the tree is filled. *)
FillAlways ==
  /\ pc = "fill" /\ pos <= Len(s_tree)
  /\ EmitCNOT(Child, Parent)
  /\ pos' = pos + 1
  /\ UNCHANGED <<input, pc, part, s_tree, applied>>

(* gray_steiner: fill each Steiner point with a one *)
Fill ==
  /\ pc = "fill" /\ pos <= Len(s_tree)
  /\ IF Child \notin part.vec
     THEN EmitCNOT(Child, Parent)
     ELSE UNCHANGED <<stack, A, state>>
  /\ pos' = pos + 1
  /\ UNCHANGED <<input, pc, part, s_tree, applied>>

FillDone ==
  /\ pc = "fill" /\ pos > Len(s_tree)
  /\ pc' = "zero"
  /\ pos' = Len(s_tree)
  /\ UNCHANGED <<input, stack, A, part, s_tree, state, applied>>

(* Mutants: every CNOT is to the root; the tree is walked forwards again. *)
ZeroToRoot ==
  /\ pc = "zero" /\ pos > 0
  /\ EmitCNOT(Child, part.target)
  /\ pos' = pos - 1
  /\ UNCHANGED <<input, pc, part, s_tree, applied>>

ZeroForwards ==
  /\ pc = "zero" /\ pos > 0
  /\ LET edge == s_tree[Len(s_tree) + 1 - pos] IN EmitCNOT(edge[2], edge[1])
  /\ pos' = pos - 1
  /\ UNCHANGED <<input, pc, part, s_tree, applied>>

(* ... and zero out each row except for the root, last edge first *)
Zero ==
  /\ pc = "zero" /\ pos > 0
  /\ EmitCNOT(Child, Parent)
  /\ pos' = pos - 1
  /\ UNCHANGED <<input, pc, part, s_tree, applied>>

(* The phase is applied on the target. *)
EmitPhase ==
  /\ \/ pc = "controls" /\ pos = NQ
     \/ pc = "zero" /\ pos = 0
  /\ applied' = applied \cup {[angle |-> part.angle, parity |-> state[part.target]]}
  /\ pc' = "partition"
  /\ part' = NoPart /\ s_tree' = <<>> /\ pos' = 0
  /\ UNCHANGED <<input, stack, A, state>>

-----------------------------------------------------------------------------
Ones(terms, i)  == {t \in terms : i \in t.vec}
Zeros(terms, i) == {t \in terms : i \notin t.vec}

(* the larger of the two classes that index i makes *)
Weight(terms, i) ==
  LET ones  == Cardinality(Ones(terms, i))
      zeros == Cardinality(Zeros(terms, i))
  IN  IF zeros > ones THEN zeros ELSE ones

(* find_best_split: the first of the indices that split best *)
BestSplit(terms, indices) ==
  {i \in indices : \A j \in indices :
     Weight(terms, i) > Weight(terms, j) \/ (Weight(terms, i) = Weight(terms, j) /\ i <= j)}

(* Mutant: the search for indices goes on after the one found. *)
SplitGoesOn ==
  /\ pc = "partition" /\ stack # <<>>
  /\ Front.terms # {} /\ ~IsSingle /\ Front.remaining_indices # {}
  /\ \E i \in BestSplit(Front.terms, Front.remaining_indices) :
       LET remaining == {j \in Front.remaining_indices : j > i}
           target    == IF Front.target # None THEN Front.target ELSE i
       IN  stack' = <<Partition(Front.target, remaining, Zeros(Front.terms, i)),
                      Partition(target, remaining, Ones(Front.terms, i))>> \o Tail(stack)
  /\ UNCHANGED <<input, A, pc, loop, state, applied>>

(* A partition is divided by an index, which becomes the target of the     *)
(* ones if they have none yet.                                             *)
Split ==
  /\ pc = "partition" /\ stack # <<>>
  /\ Front.terms # {} /\ ~IsSingle /\ Front.remaining_indices # {}
  /\ \E i \in BestSplit(Front.terms, Front.remaining_indices) :
       LET remaining == Front.remaining_indices \ {i}
           target    == IF Front.target # None THEN Front.target ELSE i
       IN  stack' = <<Partition(Front.target, remaining, Zeros(Front.terms, i)),
                      Partition(target, remaining, Ones(Front.terms, i))>> \o Tail(stack)
  /\ UNCHANGED <<input, A, pc, loop, state, applied>>

(* Mutant: without the indices being put back. *)
RestartInPlace ==
  /\ pc = "partition" /\ stack # <<>>
  /\ Front.terms # {} /\ ~IsSingle /\ Front.remaining_indices = {}
  /\ method = "steiner"
  /\ UNCHANGED vars

(* "The previously partitioned rows have gotten mangled": gray_steiner     *)
(* starts again with this partition.                                       *)
Restart ==
  /\ pc = "partition" /\ stack # <<>>
  /\ Front.terms # {} /\ ~IsSingle /\ Front.remaining_indices = {}
  /\ method = "steiner"
  /\ stack' = [stack EXCEPT ![1].remaining_indices = Qubits]
  /\ UNCHANGED <<input, A, pc, loop, state, applied>>

(* Synthesize the overall linear transformation: the CNOTs of gauss_jordan *)
(* or steiner_gauss, by what LinearReversible shows of them for operators  *)
(* that are invertible.  Those of the callers are (OperatorInvertible of   *)
(* Resynthesis).                                                           *)
LinearTrans ==
  /\ pc = "partition" /\ stack = <<>>
  /\ state' = [q \in Qubits |-> Parity(state, A[q])]
  /\ pc' = "returned"
  /\ UNCHANGED <<input, stack, A, loop, applied>>

Next ==
  \/ DropEmpty
  \/ TakeSingle
  \/ Control
  \/ Fill
  \/ FillDone
  \/ Zero
  \/ EmitPhase
  \/ Split
  \/ Restart
  \/ LinearTrans

Spec == Init /\ [][Next]_vars /\ WF_vars(Next)

-----------------------------------------------------------------------------
Terms == [vec : SUBSET Qubits, angle : SUBSET Qubits]

Partitions ==
  [target : Qubits \cup {None}, remaining_indices : SUBSET Qubits, terms : SUBSET Terms]

TypeOK ==
  /\ stack \in Seq(Partitions)
  /\ A \in [Qubits -> SUBSET Qubits]
  /\ pc \in {"partition", "controls", "fill", "zero", "returned"}
  /\ part \in [target : Qubits \cup {None}, vec : SUBSET Qubits, angle : SUBSET Qubits]
  /\ pos \in Nat
  /\ state \in [Qubits -> SUBSET Qubits]
  /\ applied \subseteq [angle : SUBSET Qubits, parity : SUBSET Qubits]

Busy == pc \in {"controls", "fill", "zero"}

(* adjust_vectors keeps track of the parities: the vector of a term, read  *)
(* in the state the CNOTs emitted so far have made, is the parity the      *)
(* phase was given at, whatever was emitted for other terms in between.    *)
TermsTracked ==
  \A n \in 1 .. Len(stack) : \A t \in stack[n].terms : Parity(state, t.vec) = t.angle

(* The same for the operator that is left: applied now, it would give the  *)
(* operator asked for.                                                     *)
OperatorTracked ==
  pc # "returned" => \A q \in Qubits :
    Parity(state, A[q]) = Parity(Inputs, operator[q])

(* Every phase is applied at the parity it was given at. *)
PhasesAtParity == \A p \in applied : p.parity = p.angle

(* No phase is lost on the way: what is not applied is in hand or waits in *)
(* exactly one partition of the stack.                                     *)
NoPhaseLost ==
  LET waiting(n) == {t.angle : t \in stack[n].terms}
      inHand     == IF Busy THEN {part.angle} ELSE {}
      done       == {p.angle : p \in applied}
  IN  /\ phases = done \cup inHand \cup UNION {waiting(n) : n \in 1 .. Len(stack)}
      /\ done \cap inHand = {}
      /\ \A n \in 1 .. Len(stack) :
           /\ waiting(n) \cap (done \cup inHand) = {}
           /\ Cardinality(waiting(n)) = Cardinality(stack[n].terms)
           /\ \A m \in 1 .. n - 1 : waiting(m) \cap waiting(n) = {}

(* The vectors of a partition have a 1 in its target, and a partition with *)
(* another target in front of it has a 0 there.  This is why the trees     *)
(* that pass through a target do not spoil the partitions that wait for    *)
(* it.                                                                     *)
TargetsKept ==
  pc = "partition" =>
    \A n \in 1 .. Len(stack) : stack[n].target # None =>
      /\ \A t \in stack[n].terms : stack[n].target \in t.vec
      /\ \A m \in 1 .. n - 1 : stack[m].target # stack[n].target =>
           \A t \in stack[m].terms : stack[n].target \notin t.vec

(* "No indices left to pivot on, but multiple vectors remain!" is never    *)
(* thrown.                                                                 *)
NeverThrows ==
  pc = "partition" /\ stack # <<>> /\ method = "gray" =>
    Front.terms = {} \/ IsSingle \/ Front.remaining_indices # {}

(* What is returned computes the operator, with every phase applied. *)
Synthesized ==
  pc = "returned" =>
    /\ state = operator
    /\ {p.angle : p \in applied} = phases

(* Every CNOT of gray_steiner for the phases is on a coupling. *)
CNOTsOnCouplings ==
  [][method = "steiner" /\ pc' # "returned" /\ state' # state =>
       \E e \in graph : state' = [state EXCEPT ![e[2]] = Xor(@, state[e[1]])]]_vars

(* The restarts of gray_steiner come to an end. *)
SynthesisEnds == <>(pc = "returned")

=============================================================================
