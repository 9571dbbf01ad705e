--------------------------- MODULE GraySynthProofs ---------------------------
(***************************************************************************)
(* Proofs about GraySynth, for every number of qubits, set of phases,      *)
(* operator, coupling graph and choice of trees.                           *)
(*                                                                         *)
(* The vector of the term in hand is not adjusted by the program.  Current *)
(* is what it would be: the CNOTs first make it the nodes of the tree, and *)
(* then take the nodes away until the root is left.                        *)
(***************************************************************************)
EXTENDS GraySynth, FunctionTheorems, FiniteSetTheorems, TLAPS

-----------------------------------------------------------------------------
(* Parities of sets.                                                       *)

LEMMA OddSuccessor == \A n \in Nat : (n + 1) % 2 = 1 <=> ~(n % 2 = 1)
OBVIOUS

(* Adding an element to a finite set, or taking it away, changes whether   *)
(* the number of its elements is odd.                                      *)
LEMMA Toggle ==
  ASSUME NEW S, IsFiniteSet(S), NEW a
  PROVE  IsFiniteSet(Xor(S, {a})) /\ (Odd(Xor(S, {a})) <=> ~Odd(S))
<1>1. Cardinality(S) \in Nat
  BY FS_CardinalityType
<1>2. CASE a \in S
  <2>1. Xor(S, {a}) = S \ {a}
    BY <1>2 DEF Xor
  <2>2. IsFiniteSet(S \ {a}) /\ Cardinality(S \ {a}) = Cardinality(S) - 1
    BY <1>2, FS_RemoveElement
  <2>3. Cardinality(S) - 1 \in Nat /\ Cardinality(S) = (Cardinality(S) - 1) + 1
    BY <1>1, <2>2, FS_CardinalityType
  <2>4. (Cardinality(S \ {a}) + 1) % 2 = 1 <=> ~(Cardinality(S \ {a}) % 2 = 1)
    BY <2>2, <2>3, OddSuccessor
  <2>5. Cardinality(S) = Cardinality(S \ {a}) + 1
    BY <2>2, <2>3
  <2>6. QED
    BY <2>1, <2>2, <2>4, <2>5 DEF Odd
<1>3. CASE a \notin S
  <2>1. Xor(S, {a}) = S \cup {a}
    BY <1>3 DEF Xor
  <2>2. IsFiniteSet(S \cup {a}) /\ Cardinality(S \cup {a}) = Cardinality(S) + 1
    BY <1>3, FS_AddElement
  <2>3. (Cardinality(S) + 1) % 2 = 1 <=> ~(Cardinality(S) % 2 = 1)
    BY <1>1, OddSuccessor
  <2>4. QED
    BY <2>1, <2>2, <2>3 DEF Odd
<1>4. QED
  BY <1>2, <1>3

LEMMA FiniteVectors == \A vec \in SUBSET Qubits : IsFiniteSet(vec)
<1>1. IsFiniteSet(Qubits)
  BY FS_Interval, SizeAssumption DEF Qubits
<1>2. QED
  BY <1>1, FS_Subset

LEMMA OddSmall == Odd({}) = FALSE /\ \A a : Odd({a}) = TRUE
<1>1. Cardinality({}) = 0 /\ \A a : Cardinality({a}) = 1
  BY FS_EmptySet, FS_Singleton
<1>2. QED
  BY <1>1 DEF Odd

(* A single qubit is in its own parity. *)
LEMMA ParityOfOne ==
  ASSUME NEW st \in [Qubits -> SUBSET Qubits], NEW q \in Qubits
  PROVE  Parity(st, {q}) = st[q]
<1>1. ASSUME NEW x \in Qubits PROVE Odd({r \in {q} : x \in st[r]}) <=> x \in st[q]
  <2>1. CASE x \in st[q]
    <3>1. {r \in {q} : x \in st[r]} = {q}
      BY <2>1
    <3>2. QED
      BY <2>1, <3>1, OddSmall
  <2>2. CASE x \notin st[q]
    <3>1. {r \in {q} : x \in st[r]} = {}
      BY <2>2
    <3>2. QED
      BY <2>2, <3>1, OddSmall
  <2>3. QED
    BY <2>1, <2>2
<1>2. QED
  BY <1>1 DEF Parity

(* Before any CNOT, a vector is its own parity. *)
LEMMA ParityOfInputs ==
  ASSUME NEW vec \in SUBSET Qubits
  PROVE  Parity(Inputs, vec) = vec
<1>1. ASSUME NEW x \in Qubits PROVE Odd({r \in vec : x \in Inputs[r]}) <=> x \in vec
  <2>1. CASE x \in vec
    <3>1. {r \in vec : x \in Inputs[r]} = {x}
      BY <2>1 DEF Inputs
    <3>2. QED
      BY <2>1, <3>1, OddSmall
  <2>2. CASE x \notin vec
    <3>1. {r \in vec : x \in Inputs[r]} = {}
      BY <2>2 DEF Inputs
    <3>2. QED
      BY <2>2, <3>1, OddSmall
  <2>3. QED
    BY <2>1, <2>2
<1>2. QED
  BY <1>1 DEF Parity

(* A CNOT and the adjustment of a vector cancel: the vector stands for the *)
(* same parity of the inputs.                                              *)
LEMMA ParityAfterCNOT ==
  ASSUME NEW st \in [Qubits -> SUBSET Qubits], NEW vec \in SUBSET Qubits,
         NEW ctrl \in Qubits, NEW tgt \in Qubits, ctrl # tgt,
         NEW new, new[tgt] = Xor(st[tgt], st[ctrl]),
         \A q \in Qubits : q # tgt => new[q] = st[q]
  PROVE  Parity(new, Adjust(vec, ctrl, tgt)) = Parity(st, vec)
<1> DEFINE adj == Adjust(vec, ctrl, tgt)
<1>1. /\ \A q \in Qubits : q # tgt => new[q] = st[q]
      /\ new[tgt] = Xor(st[tgt], st[ctrl])
  OBVIOUS
<1>2. adj \subseteq Qubits /\ \A q : q # ctrl => (q \in adj <=> q \in vec)
  BY DEF Adjust, Xor
<1>3. ASSUME NEW x \in Qubits
      PROVE  Odd({q \in adj : x \in new[q]}) <=> Odd({q \in vec : x \in st[q]})
  <2> DEFINE S == {q \in vec : x \in st[q]}
             T == {q \in adj : x \in new[q]}
  <2>1. IsFiniteSet(S)
    BY FiniteVectors
  <2>2. CASE x \notin st[ctrl]
    <3>1. \A q \in Qubits : x \in new[q] <=> x \in st[q]
      BY <1>1, <2>2 DEF Xor
    <3>2. T = S
      BY <1>2, <2>2, <3>1
    <3>3. QED
      BY <3>2
  <2>3. CASE x \in st[ctrl] /\ tgt \notin vec
    <3>1. adj = vec
      BY <2>3 DEF Adjust
    <3>2. T = S
      BY <1>1, <2>3, <3>1
    <3>3. QED
      BY <3>2
  <2>4. CASE x \in st[ctrl] /\ tgt \in vec
    <3>1. adj = Xor(vec, {ctrl})
      BY <2>4 DEF Adjust
    <3>2. x \in new[tgt] <=> x \notin st[tgt]
      BY <1>1, <2>4 DEF Xor
    <3>3. \A q : q \in T <=> q \in Xor(Xor(S, {tgt}), {ctrl})
      <4> SUFFICES ASSUME NEW q PROVE q \in T <=> q \in Xor(Xor(S, {tgt}), {ctrl})
        OBVIOUS
      <4>1. CASE q = tgt
        BY <1>2, <2>4, <3>2, <4>1 DEF Xor
      <4>2. CASE q = ctrl
        BY <1>1, <2>4, <3>1, <4>2 DEF Xor
      <4>3. CASE q # tgt /\ q # ctrl
        BY <1>1, <1>2, <4>3 DEF Xor
      <4>4. QED
        BY <4>1, <4>2, <4>3
    <3>4. T = Xor(Xor(S, {tgt}), {ctrl})
      BY <3>3
    <3>5. IsFiniteSet(Xor(S, {tgt})) /\ (Odd(Xor(S, {tgt})) <=> ~Odd(S))
      BY <2>1, Toggle
    <3>6. Odd(Xor(Xor(S, {tgt}), {ctrl})) <=> ~Odd(Xor(S, {tgt}))
      BY <3>5, Toggle
    <3>7. QED
      BY <3>4, <3>5, <3>6
  <2>5. QED
    BY <2>2, <2>3, <2>4
<1>4. QED
  BY <1>3 DEF Parity

-----------------------------------------------------------------------------
(* The inductive invariant.                                                *)

TreeInHand == IsTree(graph, part.target, part.vec \ {part.target}, s_tree)

(* What the vector of the term in hand would be, had it been adjusted      *)
Current ==
  IF pc = "controls" THEN {q \in part.vec : q = part.target \/ q >= pos}
  ELSE IF pc = "fill" THEN part.vec \cup {s_tree[m][2] : m \in 1 .. pos - 1}
  ELSE Nodes(part.target, s_tree, pos)

PartInv ==
  Busy =>
    /\ part.target \in part.vec
    /\ part.vec \subseteq Qubits
    /\ Parity(state, Current) = part.angle
    /\ pc = "controls" => method = "gray" /\ pos \in 0 .. NQ
    /\ pc \in {"fill", "zero"} => method = "steiner" /\ TreeInHand
    /\ pc = "fill" => pos \in 1 .. Len(s_tree) + 1
    /\ pc = "zero" => pos \in 0 .. Len(s_tree)

(* The edges to Steiner points that are filled and not yet zeroed again    *)
Open ==
  {m \in 1 .. Len(s_tree) : /\ (pc = "fill" /\ m < pos) \/ (pc = "zero" /\ m <= pos)
                            /\ s_tree[m][2] \notin part.vec}

(* The bit of a vector at q as it was before the fill, and will be again:  *)
(* the edge from a parent to q adds the parent's bit twice.                *)
Bit(tree, open, vec, q) ==
  ~(q \in vec <=> \E m \in open : tree[m][2] = q /\ tree[m][1] \in vec)

TargetInv ==
  \A n \in 1 .. Len(stack) : stack[n].target # None =>
    /\ \A t \in stack[n].terms : Bit(s_tree, Open, t.vec, stack[n].target)
    /\ \A m \in 1 .. n - 1 : stack[m].target # stack[n].target =>
         \A t \in stack[m].terms : ~Bit(s_tree, Open, t.vec, stack[n].target)
    /\ Busy /\ part.target # stack[n].target => stack[n].target \notin part.vec

(* No angle is lost; that none is there twice is Once, below. *)
Kept ==
  \A f : f \in phases <=>
    \/ \E p \in applied : p.angle = f
    \/ Busy /\ part.angle = f
    \/ \E n \in 1 .. Len(stack) : \E t \in stack[n].terms : t.angle = f

InputOK ==
  /\ graph \in Graphs
  /\ operator \in [Qubits -> SUBSET Qubits]
  /\ method \in Methods

IInv ==
  /\ TypeOK
  /\ InputOK
  /\ TermsTracked
  /\ OperatorTracked
  /\ PhasesAtParity
  /\ Kept
  /\ PartInv
  /\ TargetInv
  /\ Synthesized
  /\ pc = "returned" => stack = <<>>

-----------------------------------------------------------------------------
(* The bits at the targets.                                                *)

LEMMA AdjustType ==
  ASSUME NEW vec \in SUBSET Qubits, NEW ctrl \in Qubits, NEW tgt
  PROVE  /\ Adjust(vec, ctrl, tgt) \in SUBSET Qubits
         /\ \A q : q # ctrl => (q \in Adjust(vec, ctrl, tgt) <=> q \in vec)
         /\ ctrl \in Adjust(vec, ctrl, tgt) <=> ~(ctrl \in vec <=> tgt \in vec)
BY DEF Adjust, Xor

(* The CNOT of an edge n on which no open edge depends changes the bit of  *)
(* its child only; opening the edge, or closing it, makes up for that.     *)
LEMMA BitAfterCNOT ==
  ASSUME NEW tree, NEW open, NEW n, NEW vec \in SUBSET Qubits, NEW q,
         NEW child \in Qubits, NEW parent \in Qubits,
         tree[n][2] = child, tree[n][1] = parent, parent # child,
         \A m \in open : tree[m][1] # child /\ tree[m][2] # child
  PROVE  /\ Bit(tree, open \cup {n}, Adjust(vec, child, parent), q) <=> Bit(tree, open, vec, q)
         /\ Bit(tree, open, Adjust(vec, child, parent), q) <=> Bit(tree, open \cup {n}, vec, q)
         /\ q # child =>
              (Bit(tree, open, Adjust(vec, child, parent), q) <=> Bit(tree, open, vec, q))
<1> DEFINE adj == Adjust(vec, child, parent)
           At(set, v) == \E m \in set : tree[m][2] = q /\ tree[m][1] \in v
<1>1. /\ \A r : r # child => (r \in adj <=> r \in vec)
      /\ child \in adj <=> ~(child \in vec <=> parent \in vec)
  BY AdjustType
<1>2. At(open, adj) <=> At(open, vec)
  BY <1>1
<1>3. CASE q # child
  <2>1. At(open \cup {n}, adj) <=> At(open, adj)
    BY <1>3
  <2>2. At(open \cup {n}, vec) <=> At(open, vec)
    BY <1>3
  <2>3. q \in adj <=> q \in vec
    BY <1>1, <1>3
  <2>4. QED
    BY <1>2, <1>3, <2>1, <2>2, <2>3 DEF Bit
<1>4. CASE q = child
  <2>1. ~At(open, adj) /\ ~At(open, vec)
    BY <1>4
  <2>2. At(open \cup {n}, adj) <=> parent \in adj
    BY <1>4, <2>1
  <2>3. At(open \cup {n}, vec) <=> parent \in vec
    BY <1>4, <2>1
  <2>4. parent \in adj <=> parent \in vec
    BY <1>1
  <2>5. q \in adj <=> ~(q \in vec <=> parent \in vec)
    BY <1>1, <1>4
  <2>6. QED
    BY <1>4, <2>1, <2>2, <2>3, <2>4, <2>5 DEF Bit
<1>5. QED
  BY <1>3, <1>4

LEMMA BitClosed ==
  ASSUME NEW tree, NEW vec, NEW q
  PROVE  Bit(tree, {}, vec, q) <=> q \in vec
BY DEF Bit

-----------------------------------------------------------------------------
(* One CNOT.                                                               *)

LEMMA TermTypes ==
  ASSUME TypeOK, NEW n \in 1 .. Len(stack)
  PROVE  /\ stack[n] \in Partitions
         /\ \A t \in stack[n].terms : t.vec \in SUBSET Qubits /\ t.angle \in SUBSET Qubits
<1>1. stack[n] \in Partitions
  BY DEF TypeOK
<1>2. \A t \in stack[n].terms : t \in Terms
  BY <1>1 DEF Partitions
<1>3. QED
  BY <1>1, <1>2 DEF Terms

LEMMA CNOTFacts ==
  ASSUME TypeOK, NEW c \in Qubits, NEW t \in Qubits, c # t, EmitCNOT(c, t)
  PROVE  /\ stack' \in Seq(Partitions) /\ Len(stack') = Len(stack)
         /\ \A n \in 1 .. Len(stack) :
              /\ stack'[n].target = stack[n].target
              /\ stack'[n].remaining_indices = stack[n].remaining_indices
              /\ stack'[n].terms =
                   {[vec |-> Adjust(u.vec, c, t), angle |-> u.angle] : u \in stack[n].terms}
         /\ A' \in [Qubits -> SUBSET Qubits]
         /\ \A q \in Qubits : A'[q] = Adjust(A[q], c, t)
         /\ state' \in [Qubits -> SUBSET Qubits]
         /\ \A vec \in SUBSET Qubits : Parity(state', Adjust(vec, c, t)) = Parity(state, vec)
<1>1. Len(stack) \in Nat
  BY DEF TypeOK
<1>2. \A n \in 1 .. Len(stack) :
        /\ stack'[n] = [stack[n] EXCEPT !.terms =
             {[vec |-> Adjust(u.vec, c, t), angle |-> u.angle] : u \in @}]
        /\ stack[n] \in Partitions
  BY TermTypes DEF EmitCNOT, AdjustVectors
<1>3. \A n \in 1 .. Len(stack) :
        /\ stack'[n].target = stack[n].target
        /\ stack'[n].remaining_indices = stack[n].remaining_indices
        /\ stack'[n].terms =
             {[vec |-> Adjust(u.vec, c, t), angle |-> u.angle] : u \in stack[n].terms}
        /\ stack'[n] = [target |-> stack[n].target,
                        remaining_indices |-> stack[n].remaining_indices,
                        terms |-> stack'[n].terms]
  BY <1>2 DEF Partitions
<1>4. \A n \in 1 .. Len(stack) : stack'[n].terms \subseteq Terms
  <2> SUFFICES ASSUME NEW n \in 1 .. Len(stack), NEW v \in stack'[n].terms
               PROVE  v \in Terms
    OBVIOUS
  <2>0. v \in {[vec |-> Adjust(u.vec, c, t), angle |-> u.angle] : u \in stack[n].terms}
    BY <1>3
  <2>1. PICK u \in stack[n].terms : v = [vec |-> Adjust(u.vec, c, t), angle |-> u.angle]
    BY <2>0
  <2>2. u.vec \in SUBSET Qubits /\ u.angle \in SUBSET Qubits
    BY <2>1, TermTypes
  <2>3. Adjust(u.vec, c, t) \in SUBSET Qubits
    BY <2>2, AdjustType
  <2>4. QED
    BY <2>1, <2>2, <2>3 DEF Terms
<1>5. \A n \in 1 .. Len(stack) : stack'[n] \in Partitions
  BY <1>2, <1>3, <1>4 DEF Partitions
<1>6. stack' = [n \in 1 .. Len(stack) |-> stack'[n]]
  BY DEF EmitCNOT, AdjustVectors
<1>7. stack' \in Seq(Partitions) /\ Len(stack') = Len(stack)
  BY <1>1, <1>5, <1>6
<1>8. A' \in [Qubits -> SUBSET Qubits] /\ \A q \in Qubits : A'[q] = Adjust(A[q], c, t)
  BY AdjustType DEF EmitCNOT, TypeOK
<1>9. state' = [state EXCEPT ![t] = Xor(@, state[c])] /\ state \in [Qubits -> SUBSET Qubits]
  BY DEF EmitCNOT, TypeOK
<1>10. state' \in [Qubits -> SUBSET Qubits]
  BY <1>9 DEF Xor
<1>11. \A vec \in SUBSET Qubits : Parity(state', Adjust(vec, c, t)) = Parity(state, vec)
  <2> SUFFICES ASSUME NEW vec \in SUBSET Qubits
               PROVE  Parity(state', Adjust(vec, c, t)) = Parity(state, vec)
    OBVIOUS
  <2>1. /\ state'[t] = Xor(state[t], state[c])
        /\ \A q \in Qubits : q # t => state'[q] = state[q]
    BY <1>9
  <2>2. state \in [Qubits -> SUBSET Qubits]
    BY <1>9
  <2>3. QED
    BY <2>1, <2>2, ParityAfterCNOT
<1>12. QED
  BY <1>3, <1>7, <1>8, <1>10, <1>11

(* The tracking of terms and operator, and of the angles *)
LEMMA CNOTTracked ==
  ASSUME IInv, NEW c \in Qubits, NEW t \in Qubits, c # t, EmitCNOT(c, t),
         Busy, Busy', UNCHANGED <<input, part, applied>>
  PROVE  /\ stack' \in Seq(Partitions)
         /\ A' \in [Qubits -> SUBSET Qubits]
         /\ state' \in [Qubits -> SUBSET Qubits]
         /\ TermsTracked' /\ OperatorTracked' /\ PhasesAtParity' /\ Kept'
<1>1. TypeOK
  BY DEF IInv
<1>2. stack' \in Seq(Partitions) /\ A' \in [Qubits -> SUBSET Qubits]
      /\ state' \in [Qubits -> SUBSET Qubits]
  BY <1>1, CNOTFacts
<1>3. Len(stack') = Len(stack)
      /\ \A n \in 1 .. Len(stack) : stack'[n].terms =
           {[vec |-> Adjust(u.vec, c, t), angle |-> u.angle] : u \in stack[n].terms}
  BY <1>1, CNOTFacts
<1>4. \A vec \in SUBSET Qubits : Parity(state', Adjust(vec, c, t)) = Parity(state, vec)
  BY <1>1, CNOTFacts
<1>5. TermsTracked'
  <2> SUFFICES ASSUME NEW n \in 1 .. Len(stack), NEW u \in stack[n].terms
               PROVE  Parity(state', Adjust(u.vec, c, t)) = u.angle
    BY <1>3 DEF TermsTracked
  <2>1. u.vec \in SUBSET Qubits /\ Parity(state, u.vec) = u.angle
    BY <1>1, TermTypes DEF IInv, TermsTracked
  <2>2. QED
    BY <1>4, <2>1
<1>6. OperatorTracked'
  <2>1. \A q \in Qubits : A'[q] = Adjust(A[q], c, t) /\ A[q] \in SUBSET Qubits
    BY <1>1, CNOTFacts DEF TypeOK
  <2>2. \A q \in Qubits : Parity(state, A[q]) = Parity(Inputs, operator[q])
    BY DEF IInv, OperatorTracked, Busy
  <2>3. \A q \in Qubits : Parity(state', A'[q]) = Parity(Inputs, operator'[q])
    BY <1>4, <2>1, <2>2 DEF input
  <2>4. QED
    BY <2>3 DEF OperatorTracked
<1>7. PhasesAtParity'
  BY DEF IInv, PhasesAtParity
<1>8. Kept'
  <2>1. \A n \in 1 .. Len(stack) : \A f :
          (\E u \in stack'[n].terms : u.angle = f) <=> (\E u \in stack[n].terms : u.angle = f)
    <3> SUFFICES ASSUME NEW n \in 1 .. Len(stack), NEW f
                 PROVE  (\E u \in stack'[n].terms : u.angle = f)
                          <=> (\E u \in stack[n].terms : u.angle = f)
      OBVIOUS
    <3> DEFINE New(u) == [vec |-> Adjust(u.vec, c, t), angle |-> u.angle]
    <3>1. \A u : New(u).angle = u.angle
      OBVIOUS
    <3>2. stack'[n].terms = {New(u) : u \in stack[n].terms}
      BY <1>3
    <3> HIDE DEF New
    <3>3. QED
      BY <3>1, <3>2
  <2>2. \A f : (\E n \in 1 .. Len(stack') : \E u \in stack'[n].terms : u.angle = f)
                 <=> (\E n \in 1 .. Len(stack) : \E u \in stack[n].terms : u.angle = f)
    BY <1>3, <2>1
  <2>3. Kept /\ phases' = phases /\ applied' = applied /\ part' = part
    BY DEF IInv, input
  <2>4. QED
    BY <2>2, <2>3 DEF Kept
<1>9. QED
  BY <1>2, <1>5, <1>6, <1>7, <1>8

(* The bits at the targets stay as they are if the CNOT and the change of  *)
(* the open edges make up for each other wherever a target can be.         *)
LEMMA CNOTTargets ==
  ASSUME IInv, NEW c \in Qubits, NEW t \in Qubits, c # t, EmitCNOT(c, t),
         Busy, Busy', UNCHANGED <<part, s_tree>>,
         \A q \in Qubits : q = part.target \/ q \notin part.vec =>
           \A vec \in SUBSET Qubits :
             Bit(s_tree, Open', Adjust(vec, c, t), q) <=> Bit(s_tree, Open, vec, q)
  PROVE  TargetInv'
<1>1. TypeOK /\ TargetInv
  BY DEF IInv
<1>2. Len(stack') = Len(stack)
      /\ \A n \in 1 .. Len(stack) :
           /\ stack'[n].target = stack[n].target
           /\ stack'[n].terms =
                {[vec |-> Adjust(u.vec, c, t), angle |-> u.angle] : u \in stack[n].terms}
  BY <1>1, CNOTFacts
<1> SUFFICES ASSUME NEW n \in 1 .. Len(stack), stack[n].target # None
             PROVE  /\ \A u \in stack'[n].terms : Bit(s_tree, Open', u.vec, stack[n].target)
                    /\ \A m \in 1 .. n - 1 : stack[m].target # stack[n].target =>
                         \A u \in stack'[m].terms : ~Bit(s_tree, Open', u.vec, stack[n].target)
                    /\ part.target # stack[n].target => stack[n].target \notin part.vec
  BY <1>2 DEF TargetInv
<1> DEFINE q == stack[n].target
<1>3. q \in Qubits
  BY <1>1, TermTypes DEF Partitions
<1>4. part.target # q => q \notin part.vec
  BY <1>1 DEF TargetInv
<1>5. \A vec \in SUBSET Qubits :
        Bit(s_tree, Open', Adjust(vec, c, t), q) <=> Bit(s_tree, Open, vec, q)
  BY <1>3, <1>4
<1>6. ASSUME NEW u \in stack'[n].terms PROVE Bit(s_tree, Open', u.vec, q)
  <2>1. PICK w \in stack[n].terms : u.vec = Adjust(w.vec, c, t)
    BY <1>2, <1>6
  <2>2. w.vec \in SUBSET Qubits /\ Bit(s_tree, Open, w.vec, q)
    BY <1>1, <2>1, TermTypes DEF TargetInv
  <2>3. QED
    BY <1>5, <2>1, <2>2
<1>7. ASSUME NEW m \in 1 .. n - 1, stack[m].target # q, NEW u \in stack'[m].terms
      PROVE  ~Bit(s_tree, Open', u.vec, q)
  <2>0. m \in 1 .. Len(stack)
    BY <1>1 DEF TypeOK
  <2>1. PICK w \in stack[m].terms : u.vec = Adjust(w.vec, c, t)
    BY <1>2, <1>7, <2>0
  <2>2. w.vec \in SUBSET Qubits /\ ~Bit(s_tree, Open, w.vec, q)
    BY <1>1, <1>7, <2>0, <2>1, TermTypes DEF TargetInv
  <2>3. QED
    BY <1>5, <2>1, <2>2
<1>8. QED
  BY <1>4, <1>6, <1>7

-----------------------------------------------------------------------------
(* Between two partitions no edge is open.                                 *)

PlainTargets(stk) ==
  \A n \in 1 .. Len(stk) : stk[n].target # None =>
    /\ \A t \in stk[n].terms : stk[n].target \in t.vec
    /\ \A m \in 1 .. n - 1 : stk[m].target # stk[n].target =>
         \A t \in stk[m].terms : stk[n].target \notin t.vec

LEMMA PlainTargetsBefore == TargetInv /\ Open = {} => PlainTargets(stack)
<1> SUFFICES ASSUME TargetInv, Open = {}
             PROVE  PlainTargets(stack)
  OBVIOUS
<1>1. \A vec, q : Bit(s_tree, Open, vec, q) <=> q \in vec
  BY DEF Bit
<1>2. QED
  BY <1>1 DEF TargetInv, PlainTargets

PlainIdle ==
  /\ PlainTargets(stack)
  /\ Open = {}
  /\ Busy => \A n \in 1 .. Len(stack) :
       stack[n].target # None /\ part.target # stack[n].target => stack[n].target \notin part.vec

LEMMA PlainTargetsAfter == PlainIdle => TargetInv
<1> SUFFICES ASSUME PlainIdle
             PROVE  TargetInv
  OBVIOUS
<1>1. \A vec, q : Bit(s_tree, Open, vec, q) <=> q \in vec
  BY DEF Bit, PlainIdle
<1>2. QED
  BY <1>1 DEF TargetInv, PlainTargets, PlainIdle

LEMMA OpenIdle == ~(pc \in {"fill", "zero"}) => Open = {}
BY DEF Open

LEMMA TailFacts ==
  ASSUME TypeOK, stack # <<>>
  PROVE  /\ Tail(stack) \in Seq(Partitions)
         /\ Len(stack) \in Nat /\ Len(stack) >= 1 /\ Len(Tail(stack)) = Len(stack) - 1
         /\ \A n \in 1 .. Len(stack) - 1 : Tail(stack)[n] = stack[n + 1]
         /\ Front = stack[1] /\ Front \in Partitions
         /\ \A t \in Front.terms : t.vec \in SUBSET Qubits /\ t.angle \in SUBSET Qubits
<1>1. stack \in Seq(Partitions) /\ Len(stack) \in Nat /\ Len(stack) >= 1
  BY DEF TypeOK
<1>2. QED
  BY <1>1, TermTypes DEF Front

LEMMA TailTargets ==
  ASSUME TypeOK, stack # <<>>, PlainTargets(stack)
  PROVE  PlainTargets(Tail(stack))
<1> SUFFICES ASSUME NEW n \in 1 .. Len(Tail(stack)), Tail(stack)[n].target # None
             PROVE  /\ \A t \in Tail(stack)[n].terms : Tail(stack)[n].target \in t.vec
                    /\ \A m \in 1 .. n - 1 : Tail(stack)[m].target # Tail(stack)[n].target =>
                         \A t \in Tail(stack)[m].terms : Tail(stack)[n].target \notin t.vec
  BY DEF PlainTargets
<1>1. /\ n + 1 \in 1 .. Len(stack) /\ Tail(stack)[n] = stack[n + 1]
      /\ \A m \in 1 .. n - 1 : m + 1 \in 1 .. (n + 1) - 1 /\ Tail(stack)[m] = stack[m + 1]
  BY TailFacts
<1>2. QED
  BY <1>1 DEF PlainTargets

-----------------------------------------------------------------------------
LEMMA InitIInv == Init => IInv
<1> SUFFICES ASSUME Init PROVE IInv
  OBVIOUS
<1> DEFINE terms0 == {[vec |-> p, angle |-> p] : p \in phases}
<1>1. /\ phases \subseteq SUBSET Qubits
      /\ operator \in [Qubits -> SUBSET Qubits]
  BY InputAssumption DEF Init
<1>2. stack = <<Partition(None, Qubits, terms0)>>
  BY DEF Init
<1>3. terms0 \subseteq Terms
  BY <1>1 DEF Terms
<1>4. Len(stack) = 1 /\ stack[1].target = None /\ stack[1].terms = terms0
  BY <1>2 DEF Partition
<1>5. TypeOK
  <2>1. stack \in Seq(Partitions)
    BY <1>2, <1>3 DEF Partition, Partitions
  <2>2. part \in [target : Qubits \cup {None}, vec : SUBSET Qubits, angle : SUBSET Qubits]
    BY DEF Init, NoPart
  <2>3. state \in [Qubits -> SUBSET Qubits]
    BY DEF Init, Inputs
  <2>4. QED
    BY <1>1, <2>1, <2>2, <2>3 DEF Init, TypeOK
<1>6. TermsTracked
  <2> SUFFICES ASSUME NEW t \in terms0 PROVE Parity(Inputs, t.vec) = t.angle
    BY <1>4 DEF TermsTracked, Init
  <2>1. PICK p \in phases : t = [vec |-> p, angle |-> p]
    OBVIOUS
  <2>2. p \in SUBSET Qubits
    BY <1>1
  <2>3. Parity(Inputs, p) = p
    BY <2>2, ParityOfInputs
  <2>4. QED
    BY <2>1, <2>3
<1>7. Kept
  <2>1. \A f : f \in phases <=> \E t \in terms0 : t.angle = f
    <3>1. ASSUME NEW f \in phases PROVE \E t \in terms0 : t.angle = f
      <4>1. [vec |-> f, angle |-> f] \in terms0
        OBVIOUS
      <4>2. QED
        BY <4>1
    <3>2. ASSUME NEW t \in terms0 PROVE t.angle \in phases
      OBVIOUS
    <3>3. QED
      BY <3>1, <3>2
  <2>2. ~Busy /\ applied = {}
    BY DEF Busy, Init
  <2>3. QED
    BY <1>4, <2>1, <2>2 DEF Kept
<1>8. TargetInv
  BY <1>4 DEF TargetInv
<1>9. InputOK
  BY <1>1 DEF Init, InputOK
<1>10. OperatorTracked /\ PhasesAtParity /\ Synthesized /\ PartInv /\ pc # "returned"
  BY DEF Init, OperatorTracked, PhasesAtParity, Synthesized, PartInv, Busy
<1>11. QED
  BY <1>5, <1>6, <1>7, <1>8, <1>9, <1>10 DEF IInv

LEMMA DropEmptyIInv == IInv /\ DropEmpty => IInv'
<1> SUFFICES ASSUME IInv, DropEmpty PROVE IInv'
  OBVIOUS
<1>1. /\ TypeOK /\ stack # <<>> /\ pc = "partition" /\ pc' = pc /\ stack' = Tail(stack)
      /\ Front.terms = {}
      /\ UNCHANGED <<input, A, pc, loop, state, applied>>
  BY DEF IInv, DropEmpty
<1>2. /\ Tail(stack) \in Seq(Partitions)
      /\ Len(stack) \in Nat /\ Len(stack) >= 1 /\ Len(stack') = Len(stack) - 1
      /\ \A n \in 1 .. Len(stack) - 1 : stack'[n] = stack[n + 1]
      /\ stack[1].terms = {}
  BY <1>1, TailFacts
<1>3. TypeOK'
  BY <1>1, <1>2 DEF TypeOK, loop
<1>4. TermsTracked'
  BY <1>1, <1>2 DEF IInv, TermsTracked
<1>5. Kept'
  <2>1. \A f : (\E n \in 1 .. Len(stack') : \E t \in stack'[n].terms : t.angle = f)
                 <=> (\E n \in 1 .. Len(stack) : \E t \in stack[n].terms : t.angle = f)
    <3>1. ASSUME NEW f, NEW n \in 1 .. Len(stack), NEW t \in stack[n].terms, t.angle = f
          PROVE  \E m \in 1 .. Len(stack') : \E u \in stack'[m].terms : u.angle = f
      <4>1. n - 1 \in 1 .. Len(stack') /\ stack'[n - 1] = stack[n]
        BY <1>2, <3>1
      <4>2. QED
        BY <3>1, <4>1
    <3>2. ASSUME NEW f, NEW n \in 1 .. Len(stack'), NEW t \in stack'[n].terms, t.angle = f
          PROVE  \E m \in 1 .. Len(stack) : \E u \in stack[m].terms : u.angle = f
      <4>1. n + 1 \in 1 .. Len(stack) /\ stack'[n] = stack[n + 1]
        BY <1>2, <3>2
      <4>2. QED
        BY <3>2, <4>1
    <3>3. QED
      BY <3>1, <3>2
  <2>2. QED
    BY <1>1, <2>1 DEF IInv, Kept, Busy, input, loop
<1>6. TargetInv'
  <2>1. Open = {} /\ Open' = {}
    BY <1>1 DEF Open
  <2>2. PlainTargets(stack')
    BY <1>1, <2>1, PlainTargetsBefore, TailTargets DEF IInv
  <2>3. ~Busy'
    BY <1>1 DEF Busy
  <2>4. QED
    <3>1. PlainIdle'
      BY <2>1, <2>2, <2>3 DEF PlainIdle
    <3>2. QED
      BY <3>1, PlainTargetsAfter, PTL
<1>7. OperatorTracked' /\ PhasesAtParity' /\ InputOK'
  BY <1>1 DEF IInv, OperatorTracked, PhasesAtParity, InputOK, input
<1>8. Synthesized' /\ PartInv' /\ pc' # "returned"
  BY <1>1 DEF Synthesized, PartInv, Busy
<1>9. QED
  BY <1>3, <1>4, <1>5, <1>6, <1>7, <1>8 DEF IInv

LEMMA TakeSingleIInv == IInv /\ TakeSingle => IInv'
<1> SUFFICES ASSUME IInv, TakeSingle PROVE IInv'
  OBVIOUS
<1>1. /\ TypeOK /\ stack # <<>> /\ pc = "partition" /\ stack' = Tail(stack)
      /\ UNCHANGED <<input, A, state, applied>>
      /\ Front.target # None
  BY DEF IInv, TakeSingle, IsSingle
<1>2. PICK t \in Front.terms :
        /\ part' = [target |-> Front.target, vec |-> t.vec, angle |-> t.angle]
        /\ \/ /\ method = "gray"
              /\ pc' = "controls" /\ pos' = 0 /\ s_tree' = <<>>
           \/ /\ method = "steiner"
              /\ pc' = "fill" /\ pos' = 1
              /\ s_tree' \in SteinerTrees(graph, Front.target, t.vec \ {Front.target})
  BY DEF TakeSingle
<1>3. Front.terms = {t}
  BY DEF TakeSingle, IsSingle
<1>4. /\ Tail(stack) \in Seq(Partitions)
      /\ Len(stack) \in Nat /\ Len(stack) >= 1 /\ Len(stack') = Len(stack) - 1
      /\ \A n \in 1 .. Len(stack) - 1 : stack'[n] = stack[n + 1]
      /\ Front = stack[1] /\ Front \in Partitions
      /\ t.vec \in SUBSET Qubits /\ t.angle \in SUBSET Qubits
  BY <1>1, TailFacts
<1>5. /\ part'.target = Front.target /\ part'.vec = t.vec /\ part'.angle = t.angle
      /\ Front.target \in Qubits
  BY <1>1, <1>2, <1>4 DEF Partitions
<1>6. TypeOK'
  <2>1. part' \in [target : Qubits \cup {None}, vec : SUBSET Qubits, angle : SUBSET Qubits]
    BY <1>2, <1>4, <1>5
  <2>2. pos' \in Nat /\ pc' \in {"controls", "fill"}
    BY <1>2
  <2>3. QED
    BY <1>1, <1>4, <2>1, <2>2 DEF TypeOK
<1>7. Open = {} /\ Open' = {}
  BY <1>1, <1>2 DEF Open
<1>8. PlainTargets(stack)
  BY <1>7, PlainTargetsBefore DEF IInv
<1>9. /\ t.vec \in SUBSET Qubits /\ Parity(state, t.vec) = t.angle
      /\ Front.target \in t.vec
  BY <1>1, <1>4, <1>8 DEF IInv, TermsTracked, PlainTargets
<1>10. Busy' /\ ~Busy
  BY <1>1, <1>2 DEF Busy
<1>11. TermsTracked'
  BY <1>1, <1>4 DEF IInv, TermsTracked
<1>12. Kept'
  <2>1. ASSUME NEW f
        PROVE  (\E n \in 1 .. Len(stack) : \E u \in stack[n].terms : u.angle = f)
                 <=> \/ part'.angle = f
                     \/ \E n \in 1 .. Len(stack') : \E u \in stack'[n].terms : u.angle = f
    <3>1. ASSUME NEW n \in 1 .. Len(stack), NEW u \in stack[n].terms, u.angle = f
          PROVE  \/ part'.angle = f
                 \/ \E m \in 1 .. Len(stack') : \E v \in stack'[m].terms : v.angle = f
      <4>1. CASE n = 1
        BY <1>3, <1>4, <1>5, <3>1, <4>1
      <4>2. CASE n # 1
        <5>1. n - 1 \in 1 .. Len(stack') /\ stack'[n - 1] = stack[n]
          BY <1>4, <4>2
        <5>2. QED
          BY <3>1, <5>1
      <4>3. QED
        BY <4>1, <4>2
    <3>2. ASSUME NEW n \in 1 .. Len(stack'), NEW u \in stack'[n].terms, u.angle = f
          PROVE  \E m \in 1 .. Len(stack) : \E v \in stack[m].terms : v.angle = f
      <4>1. n + 1 \in 1 .. Len(stack) /\ stack'[n] = stack[n + 1]
        BY <1>4
      <4>2. QED
        BY <3>2, <4>1
    <3>3. part'.angle = f => \E v \in stack[1].terms : v.angle = f
      BY <1>4, <1>5
    <3>4. 1 \in 1 .. Len(stack)
      BY <1>4
    <3>5. QED
      BY <3>1, <3>2, <3>3, <3>4
  <2>2. QED
    BY <1>1, <1>10, <2>1 DEF IInv, Kept, input
<1>13. PartInv'
  <2>1. CASE method = "gray" /\ pc' = "controls" /\ pos' = 0
    <3>1. Current' = t.vec
      BY <1>4, <1>5, <2>1 DEF Current, Qubits
    <3>2. 0 \in 0 .. NQ
      BY SizeAssumption
    <3>3. QED
      BY <1>1, <1>5, <1>9, <2>1, <3>1, <3>2 DEF PartInv, input
  <2>2. CASE /\ method = "steiner" /\ pc' = "fill" /\ pos' = 1
             /\ s_tree' \in SteinerTrees(graph, Front.target, t.vec \ {Front.target})
    <3>1. Current' = t.vec
      BY <1>5, <2>2 DEF Current
    <3>2. IsTree(graph, Front.target, t.vec \ {Front.target}, s_tree')
      <4>1. graph \in Graphs /\ t.vec \ {Front.target} \in SUBSET (Qubits \ {Front.target})
        BY <1>9 DEF IInv, InputOK
      <4>2. QED
        BY <1>5, <2>2, <4>1, TreeAssumption
    <3>3. TreeInHand'
      BY <1>1, <1>5, <3>2 DEF TreeInHand, input
    <3>4. Len(s_tree') \in Nat
      BY <3>2 DEF IsTree
    <3>5. QED
      BY <1>1, <1>5, <1>9, <2>2, <3>1, <3>3, <3>4 DEF PartInv, input
  <2>3. QED
    BY <1>2, <2>1, <2>2
<1>14. TargetInv'
  <2>1. PlainTargets(stack')
    BY <1>1, <1>8, TailTargets
  <2>2. ASSUME NEW n \in 1 .. Len(stack'), stack'[n].target # None,
               part'.target # stack'[n].target
        PROVE  stack'[n].target \notin part'.vec
    <3>1. /\ n + 1 \in 1 .. Len(stack) /\ stack'[n] = stack[n + 1]
          /\ 1 \in 1 .. (n + 1) - 1
      BY <1>4
    <3>2. QED
      BY <1>4, <1>5, <1>8, <2>2, <3>1 DEF PlainTargets
  <2>3. PlainIdle'
    BY <1>7, <2>1, <2>2 DEF PlainIdle
  <2>4. QED
    BY <2>3, PlainTargetsAfter, PTL
<1>15. /\ OperatorTracked' /\ PhasesAtParity' /\ InputOK'
       /\ Synthesized' /\ pc' # "returned"
  BY <1>1, <1>2 DEF IInv, OperatorTracked, PhasesAtParity, InputOK, Synthesized, input
<1>16. QED
  BY <1>6, <1>11, <1>12, <1>13, <1>14, <1>15 DEF IInv

LEMMA ControlIInv == IInv /\ Control => IInv'
<1> SUFFICES ASSUME IInv, Control PROVE IInv'
  OBVIOUS
<1>1. /\ TypeOK /\ pc = "controls" /\ pc' = pc /\ pos < NQ /\ pos' = pos + 1
      /\ UNCHANGED <<input, part, s_tree, applied>>
      /\ Busy /\ Busy'
  BY DEF IInv, Control, Busy
<1>2. /\ part.target \in part.vec /\ part.vec \subseteq Qubits /\ part.target \in Qubits
      /\ Parity(state, Current) = part.angle
      /\ method = "gray" /\ pos \in 0 .. NQ /\ pos \in Qubits /\ NQ \in Nat
  BY <1>1, SizeAssumption DEF IInv, PartInv, Qubits
<1>3. Open = {} /\ Open' = {}
  BY <1>1 DEF Open
<1>4. /\ Current = {q \in part.vec : q = part.target \/ q >= pos}
      /\ Current' = {q \in part.vec : q = part.target \/ q >= pos + 1}
  BY <1>1 DEF Current
<1>5. TypeOK' /\ TermsTracked' /\ OperatorTracked' /\ PhasesAtParity' /\ Kept' /\ TargetInv'
      /\ Parity(state', Current') = part.angle
  <2>1. CASE pos # part.target /\ pos \in part.vec
    <3>1. EmitCNOT(pos, part.target)
      BY <2>1 DEF Control
    <3>2. /\ stack' \in Seq(Partitions) /\ A' \in [Qubits -> SUBSET Qubits]
          /\ state' \in [Qubits -> SUBSET Qubits]
          /\ TermsTracked' /\ OperatorTracked' /\ PhasesAtParity' /\ Kept'
      BY <1>1, <1>2, <2>1, <3>1, CNOTTracked
    <3>3. TypeOK'
      BY <1>1, <3>2 DEF TypeOK
    <3>4. \A q \in Qubits : q = part.target \/ q \notin part.vec =>
            \A vec \in SUBSET Qubits :
              Bit(s_tree, Open', Adjust(vec, pos, part.target), q) <=> Bit(s_tree, Open, vec, q)
      <4>1. \A q \in Qubits : q = part.target \/ q \notin part.vec => q # pos
        BY <2>1
      <4>2. QED
        BY <1>2, <1>3, <4>1, BitClosed, AdjustType
    <3>5. TargetInv'
      BY <1>1, <1>2, <2>1, <3>1, <3>4, CNOTTargets
    <3>6. Current' = Adjust(Current, pos, part.target)
      <4>1. part.target \in Current /\ pos \in Current
        BY <1>2, <1>4, <2>1 DEF Qubits
      <4>2. \A q : q \in Current' <=> q \in Current /\ q # pos
        BY <1>2, <1>4, <2>1 DEF Qubits
      <4>3. QED
        BY <4>1, <4>2 DEF Adjust, Xor
    <3>7. Current \in SUBSET Qubits
      BY <1>2, <1>4
    <3>8. Parity(state', Current') = part.angle
      BY <1>1, <1>2, <2>1, <3>1, <3>6, <3>7, CNOTFacts
    <3>9. QED
      BY <3>2, <3>3, <3>5, <3>8
  <2>2. CASE ~(pos # part.target /\ pos \in part.vec)
    <3>1. UNCHANGED <<stack, A, state>>
      BY <2>2 DEF Control
    <3>2. Current' = Current
      BY <1>2, <1>4, <2>2 DEF Qubits
    <3>3. TypeOK' /\ TermsTracked' /\ OperatorTracked' /\ PhasesAtParity'
      BY <1>1, <3>1 DEF IInv, TypeOK, TermsTracked, OperatorTracked, PhasesAtParity, input
    <3>4. Kept'
      BY <1>1, <3>1 DEF IInv, Kept, input
    <3>5. TargetInv'
      BY <1>1, <1>3, <3>1 DEF IInv, TargetInv
    <3>6. QED
      BY <1>2, <3>1, <3>2, <3>3, <3>4, <3>5
  <2>3. QED
    BY <2>1, <2>2
<1>6. PartInv'
  <2>1. pos' \in 0 .. NQ
    BY <1>1, <1>2
  <2>2. QED
    BY <1>1, <1>2, <1>5, <2>1 DEF PartInv, input
<1>7. InputOK' /\ Synthesized' /\ pc' # "returned"
  BY <1>1 DEF IInv, InputOK, Synthesized, input
<1>8. QED
  BY <1>5, <1>6, <1>7 DEF IInv

-----------------------------------------------------------------------------
(* The tree in hand: an edge leads away from the nodes of those before it. *)
LEMMA EdgeFacts ==
  ASSUME IInv, Busy, pc \in {"fill", "zero"}, pos \in 1 .. Len(s_tree)
  PROVE  /\ Len(s_tree) \in Nat
         /\ Child \in Qubits /\ Parent \in Qubits /\ Child # Parent
         /\ <<Parent, Child>> \in graph /\ <<Child, Parent>> \in graph
         /\ Parent \in Nodes(part.target, s_tree, pos - 1)
         /\ Child \notin Nodes(part.target, s_tree, pos - 1)
         /\ \A m \in 1 .. pos - 1 : s_tree[m][1] # Child /\ s_tree[m][2] # Child
         /\ Nodes(part.target, s_tree, pos)
              = Nodes(part.target, s_tree, pos - 1) \cup {Child}
<1>1. IsTree(graph, part.target, part.vec \ {part.target}, s_tree)
  BY DEF IInv, PartInv, TreeInHand
<1>2. graph \in Graphs /\ s_tree \in Seq(graph) /\ Len(s_tree) \in Nat
  BY <1>1 DEF IInv, InputOK, IsTree
<1>3. graph \subseteq Qubits \X Qubits /\ \A e \in graph : <<e[2], e[1]>> \in graph
  BY <1>2, TreeAssumption
<1>4. s_tree[pos] \in graph
  BY <1>2
<1>5. Child \in Qubits /\ Parent \in Qubits
      /\ <<Parent, Child>> \in graph /\ <<Child, Parent>> \in graph
  BY <1>3, <1>4 DEF Child, Parent
<1>6. /\ Parent \in Nodes(part.target, s_tree, pos - 1)
      /\ Child \notin Nodes(part.target, s_tree, pos - 1)
  BY <1>1 DEF IsTree, Child, Parent
<1>7. \A m \in 1 .. pos - 1 : s_tree[m][1] # Child /\ s_tree[m][2] # Child
  <2> SUFFICES ASSUME NEW m \in 1 .. pos - 1
               PROVE  s_tree[m][1] # Child /\ s_tree[m][2] # Child
    OBVIOUS
  <2>1. m \in 1 .. Len(s_tree) /\ s_tree[m][1] \in Nodes(part.target, s_tree, m - 1)
    BY <1>1, <1>2 DEF IsTree
  <2>2. Nodes(part.target, s_tree, m - 1) \subseteq Nodes(part.target, s_tree, pos - 1)
    BY <1>2 DEF Nodes
  <2>3. s_tree[m][2] \in Nodes(part.target, s_tree, pos - 1)
    BY DEF Nodes
  <2>4. QED
    BY <1>6, <2>1, <2>2, <2>3
<1>8. Nodes(part.target, s_tree, pos) = Nodes(part.target, s_tree, pos - 1) \cup {Child}
  <2>1. \A m : m \in 1 .. pos <=> m \in 1 .. pos - 1 \/ m = pos
    BY <1>2
  <2>2. QED
    BY <2>1 DEF Nodes, Child
<1>9. QED
  BY <1>2, <1>5, <1>6, <1>7, <1>8

LEMMA FillIInv == IInv /\ Fill => IInv'
<1> SUFFICES ASSUME IInv, Fill PROVE IInv'
  OBVIOUS
<1>1. /\ TypeOK /\ pc = "fill" /\ pc' = pc /\ pos <= Len(s_tree) /\ pos' = pos + 1
      /\ UNCHANGED <<input, part, s_tree, applied>>
      /\ Busy /\ Busy'
  BY DEF IInv, Fill, Busy
<1>2. /\ part.target \in part.vec /\ part.vec \subseteq Qubits
      /\ Parity(state, Current) = part.angle
      /\ method = "steiner" /\ TreeInHand /\ pos \in 1 .. Len(s_tree) + 1
  BY <1>1 DEF IInv, PartInv
<1>3. pos \in 1 .. Len(s_tree) /\ Len(s_tree) \in Nat
  <2>1. Len(s_tree) \in Nat
    BY <1>2 DEF TreeInHand, IsTree
  <2>2. QED
    BY <1>1, <1>2, <2>1
<1>4. /\ Child \in Qubits /\ Parent \in Qubits /\ Child # Parent
      /\ Parent \in Nodes(part.target, s_tree, pos - 1)
      /\ Child \notin Nodes(part.target, s_tree, pos - 1)
      /\ \A m \in 1 .. pos - 1 : s_tree[m][1] # Child /\ s_tree[m][2] # Child
  BY <1>1, <1>3, EdgeFacts
<1>5. /\ Current = part.vec \cup {s_tree[m][2] : m \in 1 .. pos - 1}
      /\ Current' = Current \cup {Child}
  <2>1. Current = part.vec \cup {s_tree[m][2] : m \in 1 .. pos - 1}
    BY <1>1 DEF Current
  <2>2. Current' = part.vec \cup {s_tree[m][2] : m \in 1 .. pos}
    BY <1>1, <1>3 DEF Current
  <2>3. \A m : m \in 1 .. pos <=> m \in 1 .. pos - 1 \/ m = pos
    BY <1>3
  <2>4. QED
    BY <2>1, <2>2, <2>3 DEF Child
<1>6. Open \subseteq 1 .. pos - 1
      /\ Open' = IF Child \in part.vec THEN Open ELSE Open \cup {pos}
  <2>1. Open = {m \in 1 .. Len(s_tree) : m < pos /\ s_tree[m][2] \notin part.vec}
    BY <1>1 DEF Open
  <2>2. Open' = {m \in 1 .. Len(s_tree) : m < pos + 1 /\ s_tree[m][2] \notin part.vec}
    BY <1>1 DEF Open
  <2>3. \A m \in 1 .. Len(s_tree) : m < pos + 1 <=> m < pos \/ m = pos
    BY <1>3
  <2>4. Open \subseteq 1 .. pos - 1
    BY <1>3, <2>1
  <2>5. QED
    BY <1>3, <2>1, <2>2, <2>3, <2>4 DEF Child
<1>7. TypeOK' /\ TermsTracked' /\ OperatorTracked' /\ PhasesAtParity' /\ Kept' /\ TargetInv'
      /\ Parity(state', Current') = part.angle
  <2>1. CASE Child \notin part.vec
    <3>1. EmitCNOT(Child, Parent)
      BY <2>1 DEF Fill
    <3>2. /\ stack' \in Seq(Partitions) /\ A' \in [Qubits -> SUBSET Qubits]
          /\ state' \in [Qubits -> SUBSET Qubits]
          /\ TermsTracked' /\ OperatorTracked' /\ PhasesAtParity' /\ Kept'
      BY <1>1, <1>4, <3>1, CNOTTracked
    <3>3. TypeOK'
      BY <1>1, <3>2 DEF TypeOK
    <3>4. \A q \in Qubits : q = part.target \/ q \notin part.vec =>
            \A vec \in SUBSET Qubits :
              Bit(s_tree, Open', Adjust(vec, Child, Parent), q) <=> Bit(s_tree, Open, vec, q)
      <4> SUFFICES ASSUME NEW q \in Qubits, NEW vec \in SUBSET Qubits
                   PROVE  Bit(s_tree, Open \cup {pos}, Adjust(vec, Child, Parent), q)
                            <=> Bit(s_tree, Open, vec, q)
        BY <1>6, <2>1
      <4>1. s_tree[pos][2] = Child /\ s_tree[pos][1] = Parent
        BY DEF Child, Parent
      <4>2. \A m \in Open : s_tree[m][1] # Child /\ s_tree[m][2] # Child
        BY <1>4, <1>6
      <4> HIDE DEF Child, Parent
      <4>3. QED
        BY <1>4, <4>1, <4>2, BitAfterCNOT
    <3>5. TargetInv'
      BY <1>1, <1>4, <3>1, <3>4, CNOTTargets
    <3>6. Current' = Adjust(Current, Child, Parent)
      <4>1. Parent \in Current
        BY <1>2, <1>4, <1>5 DEF Nodes
      <4>2. Child \notin Current
        BY <1>4, <1>5, <2>1 DEF Nodes
      <4>3. QED
        BY <1>5, <4>1, <4>2 DEF Adjust, Xor
    <3>7. Current \in SUBSET Qubits
      <4>1. \A m \in 1 .. pos - 1 : s_tree[m][2] \in Qubits
        <5>1. graph \subseteq Qubits \X Qubits /\ s_tree \in Seq(graph)
          BY <1>2, TreeAssumption DEF IInv, InputOK, TreeInHand, IsTree
        <5>2. QED
          BY <1>3, <5>1
      <4>2. QED
        BY <1>2, <1>5, <4>1
    <3>8. Parity(state', Current') = part.angle
      BY <1>1, <1>2, <1>4, <3>1, <3>6, <3>7, CNOTFacts
    <3>9. QED
      BY <3>2, <3>3, <3>5, <3>8
  <2>2. CASE Child \in part.vec
    <3>1. UNCHANGED <<stack, A, state>>
      BY <2>2 DEF Fill
    <3>2. Current' = Current /\ Open' = Open
      BY <1>5, <1>6, <2>2
    <3>3. TypeOK' /\ TermsTracked' /\ OperatorTracked' /\ PhasesAtParity'
      BY <1>1, <3>1 DEF IInv, TypeOK, TermsTracked, OperatorTracked, PhasesAtParity, input
    <3>4. Kept'
      BY <1>1, <3>1 DEF IInv, Kept, input
    <3>5. TargetInv'
      BY <1>1, <3>1, <3>2 DEF IInv, TargetInv
    <3>6. QED
      BY <1>2, <3>1, <3>2, <3>3, <3>4, <3>5
  <2>3. QED
    BY <2>1, <2>2
<1>8. PartInv'
  <2>1. pos' \in 1 .. Len(s_tree') + 1
    BY <1>1, <1>3
  <2>2. TreeInHand'
    BY <1>1, <1>2 DEF TreeInHand, input
  <2>3. QED
    BY <1>1, <1>2, <1>7, <2>1, <2>2 DEF PartInv, input
<1>9. InputOK' /\ Synthesized' /\ pc' # "returned"
  BY <1>1 DEF IInv, InputOK, Synthesized, input
<1>10. QED
  BY <1>7, <1>8, <1>9 DEF IInv

LEMMA FillDoneIInv == IInv /\ FillDone => IInv'
<1> SUFFICES ASSUME IInv, FillDone PROVE IInv'
  OBVIOUS
<1>1. /\ TypeOK /\ pc = "fill" /\ pos > Len(s_tree) /\ pc' = "zero" /\ pos' = Len(s_tree)
      /\ UNCHANGED <<input, stack, A, part, s_tree, state, applied>>
      /\ Busy /\ Busy'
  BY DEF IInv, FillDone, Busy
<1>2. /\ part.target \in part.vec /\ part.vec \subseteq Qubits
      /\ Parity(state, Current) = part.angle
      /\ method = "steiner" /\ TreeInHand /\ pos \in 1 .. Len(s_tree) + 1
  BY <1>1 DEF IInv, PartInv
<1>3. Len(s_tree) \in Nat /\ pos = Len(s_tree) + 1
  <2>1. Len(s_tree) \in Nat
    BY <1>2 DEF TreeInHand, IsTree
  <2>2. QED
    BY <1>1, <1>2, <2>1
<1>4. Open' = Open
  <2>1. \A m \in 1 .. Len(s_tree) : m < pos <=> m <= Len(s_tree)
    BY <1>3
  <2>2. QED
    BY <1>1, <2>1 DEF Open
<1>5. Current' = Current
  <2>1. Current = part.vec \cup {s_tree[m][2] : m \in 1 .. Len(s_tree)}
    BY <1>1, <1>3 DEF Current
  <2>2. Current' = Nodes(part.target, s_tree, Len(s_tree))
    BY <1>1 DEF Current
  <2>3. part.vec \ {part.target} \subseteq Nodes(part.target, s_tree, Len(s_tree))
    BY <1>2 DEF TreeInHand, IsTree
  <2>4. QED
    BY <1>2, <2>1, <2>2, <2>3 DEF Nodes
<1>6. TypeOK' /\ TermsTracked' /\ OperatorTracked' /\ PhasesAtParity'
  BY <1>1, <1>3 DEF IInv, TypeOK, TermsTracked, OperatorTracked, PhasesAtParity, input
<1>7. Kept'
  BY <1>1 DEF IInv, Kept, input
<1>8. TargetInv'
  BY <1>1, <1>4 DEF IInv, TargetInv
<1>9. PartInv'
  <2>1. pos' \in 0 .. Len(s_tree')
    BY <1>1, <1>3
  <2>2. TreeInHand'
    BY <1>1, <1>2 DEF TreeInHand, input
  <2>3. QED
    BY <1>1, <1>2, <1>5, <2>1, <2>2 DEF PartInv, input
<1>10. InputOK' /\ Synthesized' /\ pc' # "returned"
  BY <1>1 DEF IInv, InputOK, Synthesized, input
<1>11. QED
  BY <1>6, <1>7, <1>8, <1>9, <1>10 DEF IInv

LEMMA ZeroIInv == IInv /\ Zero => IInv'
<1> SUFFICES ASSUME IInv, Zero PROVE IInv'
  OBVIOUS
<1>1. /\ TypeOK /\ pc = "zero" /\ pc' = pc /\ pos > 0 /\ pos' = pos - 1
      /\ EmitCNOT(Child, Parent)
      /\ UNCHANGED <<input, part, s_tree, applied>>
      /\ Busy /\ Busy'
  BY DEF IInv, Zero, Busy
<1>2. /\ part.target \in part.vec /\ part.vec \subseteq Qubits
      /\ Parity(state, Current) = part.angle
      /\ method = "steiner" /\ TreeInHand /\ pos \in 0 .. Len(s_tree)
  BY <1>1 DEF IInv, PartInv
<1>3. pos \in 1 .. Len(s_tree) /\ Len(s_tree) \in Nat
  <2>1. Len(s_tree) \in Nat
    BY <1>2 DEF TreeInHand, IsTree
  <2>2. QED
    BY <1>1, <1>2, <2>1
<1>4. /\ Child \in Qubits /\ Parent \in Qubits /\ Child # Parent
      /\ Parent \in Nodes(part.target, s_tree, pos - 1)
      /\ Child \notin Nodes(part.target, s_tree, pos - 1)
      /\ \A m \in 1 .. pos - 1 : s_tree[m][1] # Child /\ s_tree[m][2] # Child
      /\ Nodes(part.target, s_tree, pos)
           = Nodes(part.target, s_tree, pos - 1) \cup {Child}
  BY <1>1, <1>3, EdgeFacts
<1>5. /\ Current = Nodes(part.target, s_tree, pos)
      /\ Current' = Nodes(part.target, s_tree, pos - 1)
  BY <1>1 DEF Current
<1>6. Open' \subseteq 1 .. pos - 1
      /\ Open = IF Child \in part.vec THEN Open' ELSE Open' \cup {pos}
  <2>1. Open = {m \in 1 .. Len(s_tree) : m <= pos /\ s_tree[m][2] \notin part.vec}
    BY <1>1 DEF Open
  <2>2. Open' = {m \in 1 .. Len(s_tree) : m <= pos - 1 /\ s_tree[m][2] \notin part.vec}
    BY <1>1 DEF Open
  <2>3. \A m \in 1 .. Len(s_tree) : m <= pos <=> m <= pos - 1 \/ m = pos
    BY <1>3
  <2>4. Open' \subseteq 1 .. pos - 1
    BY <1>3, <2>2
  <2>5. QED
    BY <1>3, <2>1, <2>2, <2>3, <2>4 DEF Child
<1>7. /\ stack' \in Seq(Partitions) /\ A' \in [Qubits -> SUBSET Qubits]
      /\ state' \in [Qubits -> SUBSET Qubits]
      /\ TermsTracked' /\ OperatorTracked' /\ PhasesAtParity' /\ Kept'
  BY <1>1, <1>4, CNOTTracked
<1>8. TypeOK'
  <2>1. pos' \in Nat
    BY <1>1, <1>3
  <2>2. QED
    BY <1>1, <1>7, <2>1 DEF TypeOK
<1>9. TargetInv'
  <2>1. ASSUME NEW q \in Qubits, q = part.target \/ q \notin part.vec, NEW vec \in SUBSET Qubits
        PROVE  Bit(s_tree, Open', Adjust(vec, Child, Parent), q) <=> Bit(s_tree, Open, vec, q)
    <3>1. s_tree[pos][2] = Child /\ s_tree[pos][1] = Parent
      BY DEF Child, Parent
    <3>2. \A m \in Open' : s_tree[m][1] # Child /\ s_tree[m][2] # Child
      BY <1>4, <1>6
    <3>3. Child # part.target
      BY <1>4 DEF Nodes
    <3>4. /\ Bit(s_tree, Open', Adjust(vec, Child, Parent), q)
               <=> Bit(s_tree, Open' \cup {pos}, vec, q)
          /\ q # Child => (Bit(s_tree, Open', Adjust(vec, Child, Parent), q)
                             <=> Bit(s_tree, Open', vec, q))
      <4> DEFINE open == Open'
      <4>1. \A m \in open : s_tree[m][1] # Child /\ s_tree[m][2] # Child
        BY <3>2
      <4> HIDE DEF open
      <4>2. /\ Bit(s_tree, open, Adjust(vec, Child, Parent), q)
                 <=> Bit(s_tree, open \cup {pos}, vec, q)
            /\ q # Child => (Bit(s_tree, open, Adjust(vec, Child, Parent), q)
                               <=> Bit(s_tree, open, vec, q))
        BY <1>4, <3>1, <4>1, BitAfterCNOT
      <4>3. QED
        BY <4>2 DEF open
    <3>5. CASE Child \in part.vec
      BY <1>6, <2>1, <3>3, <3>4, <3>5
    <3>6. CASE Child \notin part.vec
      BY <1>6, <3>4, <3>6
    <3>7. QED
      BY <3>5, <3>6
  <2>2. QED
    BY <1>1, <1>4, <2>1, CNOTTargets
<1>10. PartInv'
  <2>1. Current' = Adjust(Current, Child, Parent)
    BY <1>4, <1>5 DEF Adjust, Xor
  <2>2. Current \in SUBSET Qubits
    <3>1. graph \subseteq Qubits \X Qubits /\ s_tree \in Seq(graph)
      BY <1>2, TreeAssumption DEF IInv, InputOK, TreeInHand, IsTree
    <3>2. \A m \in 1 .. pos : s_tree[m][2] \in Qubits
      BY <1>3, <3>1
    <3>3. QED
      BY <1>2, <1>5, <3>2 DEF Nodes
  <2>3. Parity(state', Current') = part.angle
    BY <1>1, <1>2, <1>4, <2>1, <2>2, CNOTFacts
  <2>4. pos' \in 0 .. Len(s_tree')
    BY <1>1, <1>3
  <2>5. TreeInHand'
    BY <1>1, <1>2 DEF TreeInHand, input
  <2>6. QED
    BY <1>1, <1>2, <2>3, <2>4, <2>5 DEF PartInv, input
<1>11. InputOK' /\ Synthesized' /\ pc' # "returned"
  BY <1>1 DEF IInv, InputOK, Synthesized, input
<1>12. QED
  BY <1>7, <1>8, <1>9, <1>10, <1>11 DEF IInv

LEMMA EmitPhaseIInv == IInv /\ EmitPhase => IInv'
<1> SUFFICES ASSUME IInv, EmitPhase PROVE IInv'
  OBVIOUS
<1>1. /\ TypeOK
      /\ ((pc = "controls" /\ pos = NQ) \/ (pc = "zero" /\ pos = 0))
      /\ applied' = applied \cup {[angle |-> part.angle, parity |-> state[part.target]]}
      /\ pc' = "partition" /\ part' = NoPart /\ s_tree' = <<>> /\ pos' = 0
      /\ UNCHANGED <<input, stack, A, state>>
      /\ Busy /\ ~Busy'
  BY DEF IInv, EmitPhase, Busy
<1>2. /\ part.target \in part.vec /\ part.vec \subseteq Qubits /\ part.target \in Qubits
      /\ Parity(state, Current) = part.angle
      /\ state \in [Qubits -> SUBSET Qubits]
  BY <1>1 DEF IInv, PartInv, TypeOK
<1>3. Current = {part.target}
  <2>1. CASE pc = "controls" /\ pos = NQ
    BY <1>2, <2>1, SizeAssumption DEF Current, Qubits
  <2>2. CASE pc = "zero" /\ pos = 0
    BY <2>2 DEF Current, Nodes
  <2>3. QED
    BY <1>1, <2>1, <2>2
<1>4. state[part.target] = part.angle
  BY <1>2, <1>3, ParityOfOne
<1>5. TypeOK'
  <2>1. part' \in [target : Qubits \cup {None}, vec : SUBSET Qubits, angle : SUBSET Qubits]
    BY <1>1 DEF NoPart
  <2>2. part.angle \in SUBSET Qubits /\ state[part.target] \in SUBSET Qubits
    BY <1>1, <1>2 DEF TypeOK
  <2>3. applied' \subseteq [angle : SUBSET Qubits, parity : SUBSET Qubits]
    BY <1>1, <2>2 DEF TypeOK
  <2>4. QED
    BY <1>1, <2>1, <2>3 DEF TypeOK
<1>6. PhasesAtParity'
  BY <1>1, <1>4 DEF IInv, PhasesAtParity
<1>7. Kept'
  <2>1. \A f : (\E p \in applied' : p.angle = f) <=> (\E p \in applied : p.angle = f) \/ part.angle = f
    <3> DEFINE new == [angle |-> part.angle, parity |-> state[part.target]]
    <3>1. applied' = applied \cup {new} /\ new.angle = part.angle
      BY <1>1
    <3> HIDE DEF new
    <3>2. QED
      BY <3>1
  <2>2. QED
    BY <1>1, <2>1 DEF IInv, Kept, input
<1>8. TargetInv'
  <2>1. Open = {} /\ Open' = {}
    BY <1>1 DEF Open
  <2>2. PlainTargets(stack)
    BY <2>1, PlainTargetsBefore DEF IInv
  <2>3. PlainIdle'
    BY <1>1, <2>1, <2>2 DEF PlainIdle
  <2>4. QED
    BY <2>3, PlainTargetsAfter, PTL
<1>9. TermsTracked' /\ OperatorTracked' /\ InputOK'
  BY <1>1 DEF IInv, TermsTracked, OperatorTracked, InputOK, Busy, input
<1>10. Synthesized' /\ PartInv' /\ pc' # "returned"
  BY <1>1 DEF Synthesized, PartInv
<1>11. QED
  BY <1>5, <1>6, <1>7, <1>8, <1>9, <1>10 DEF IInv

LEMMA SplitFacts ==
  ASSUME TypeOK, Split
  PROVE  /\ Len(stack) \in Nat /\ Len(stack) >= 1 /\ Len(stack') = Len(stack) + 1
         /\ stack' \in Seq(Partitions)
         /\ \A n \in 3 .. Len(stack) + 1 : stack'[n] = stack[n - 1]
         /\ \E i \in Qubits :
              /\ stack'[1].target = stack[1].target
              /\ stack'[1].terms = Zeros(stack[1].terms, i)
              /\ stack'[2].target = (IF stack[1].target # None THEN stack[1].target ELSE i)
              /\ stack'[2].terms = Ones(stack[1].terms, i)
              /\ stack'[1].remaining_indices = stack[1].remaining_indices \ {i}
              /\ stack'[2].remaining_indices = stack[1].remaining_indices \ {i}
<1>1. /\ stack # <<>>
      /\ \E i \in BestSplit(Front.terms, Front.remaining_indices) :
           stack' = <<Partition(Front.target, Front.remaining_indices \ {i}, Zeros(Front.terms, i)),
                      Partition(IF Front.target # None THEN Front.target ELSE i,
                                Front.remaining_indices \ {i}, Ones(Front.terms, i))>> \o Tail(stack)
  BY DEF Split
<1>2. PICK i \in BestSplit(Front.terms, Front.remaining_indices) :
        stack' = <<Partition(Front.target, Front.remaining_indices \ {i}, Zeros(Front.terms, i)),
                   Partition(IF Front.target # None THEN Front.target ELSE i,
                             Front.remaining_indices \ {i}, Ones(Front.terms, i))>> \o Tail(stack)
  BY <1>1
<1>3. /\ Tail(stack) \in Seq(Partitions)
      /\ Len(stack) \in Nat /\ Len(stack) >= 1 /\ Len(Tail(stack)) = Len(stack) - 1
      /\ \A n \in 1 .. Len(stack) - 1 : Tail(stack)[n] = stack[n + 1]
      /\ Front = stack[1] /\ Front \in Partitions
  BY <1>1, TailFacts
<1>4. i \in Qubits
  BY <1>3 DEF BestSplit, Partitions
<1> DEFINE zeros == Partition(Front.target, Front.remaining_indices \ {i}, Zeros(Front.terms, i))
           ones  == Partition(IF Front.target # None THEN Front.target ELSE i,
                              Front.remaining_indices \ {i}, Ones(Front.terms, i))
<1>5. zeros \in Partitions /\ ones \in Partitions
  BY <1>3, <1>4 DEF Partition, Partitions, Zeros, Ones
<1>6. /\ zeros.target = Front.target /\ zeros.terms = Zeros(Front.terms, i)
      /\ ones.target = (IF Front.target # None THEN Front.target ELSE i)
      /\ ones.terms = Ones(Front.terms, i)
      /\ zeros.remaining_indices = Front.remaining_indices \ {i}
      /\ ones.remaining_indices = Front.remaining_indices \ {i}
  BY DEF Partition
<1>7. stack' = <<zeros, ones>> \o Tail(stack)
  BY <1>2
<1> HIDE DEF zeros, ones
<1>8. <<zeros, ones>> \in Seq(Partitions) /\ Len(<<zeros, ones>>) = 2
      /\ <<zeros, ones>>[1] = zeros /\ <<zeros, ones>>[2] = ones
  BY <1>5
<1>9. stack' \in Seq(Partitions) /\ Len(stack') = Len(stack) + 1
  BY <1>3, <1>7, <1>8
<1>10. stack'[1] = zeros /\ stack'[2] = ones
  BY <1>3, <1>7, <1>8
<1>11. \A n \in 3 .. Len(stack) + 1 : stack'[n] = stack[n - 1]
  <2> SUFFICES ASSUME NEW n \in 3 .. Len(stack) + 1 PROVE stack'[n] = stack[n - 1]
    OBVIOUS
  <2>1. n - 2 \in 1 .. Len(stack) - 1 /\ (n - 2) + 1 = n - 1
    BY <1>3
  <2>2. stack'[n] = Tail(stack)[n - 2]
    BY <1>3, <1>7, <1>8
  <2>3. Tail(stack)[n - 2] = stack[(n - 2) + 1]
    BY <1>3, <2>1
  <2>4. QED
    BY <2>1, <2>2, <2>3
<1>12. QED
  BY <1>3, <1>4, <1>6, <1>9, <1>10, <1>11

(* Where the terms of the new stack come from *)
LEMMA SplitTerms ==
  ASSUME TypeOK, Split
  PROVE  /\ \A n \in 1 .. Len(stack') : \A t \in stack'[n].terms :
              \E m \in 1 .. Len(stack) : t \in stack[m].terms
         /\ \A m \in 1 .. Len(stack) : \A t \in stack[m].terms :
              \E n \in 1 .. Len(stack') : t \in stack'[n].terms
<1>1. /\ Len(stack) \in Nat /\ Len(stack) >= 1 /\ Len(stack') = Len(stack) + 1
      /\ \A n \in 3 .. Len(stack) + 1 : stack'[n] = stack[n - 1]
      /\ stack'[1].terms \cup stack'[2].terms = stack[1].terms
  BY SplitFacts DEF Zeros, Ones
<1>2. ASSUME NEW n \in 1 .. Len(stack'), NEW t \in stack'[n].terms
      PROVE  \E m \in 1 .. Len(stack) : t \in stack[m].terms
  <2>1. CASE n \in {1, 2}
    <3>1. t \in stack[1].terms /\ 1 \in 1 .. Len(stack)
      BY <1>1, <1>2, <2>1
    <3>2. QED
      BY <3>1
  <2>2. CASE n \notin {1, 2}
    <3>1. n \in 3 .. Len(stack) + 1 /\ n - 1 \in 1 .. Len(stack)
      BY <1>1, <2>2
    <3>2. t \in stack[n - 1].terms
      BY <1>1, <1>2, <3>1
    <3>3. QED
      BY <3>1, <3>2
  <2>3. QED
    BY <2>1, <2>2
<1>3. ASSUME NEW m \in 1 .. Len(stack), NEW t \in stack[m].terms
      PROVE  \E n \in 1 .. Len(stack') : t \in stack'[n].terms
  <2>1. CASE m = 1
    <3>1. 1 \in 1 .. Len(stack') /\ 2 \in 1 .. Len(stack')
      BY <1>1
    <3>2. t \in stack'[1].terms \/ t \in stack'[2].terms
      BY <1>1, <1>3, <2>1
    <3>3. QED
      BY <3>1, <3>2
  <2>2. CASE m # 1
    <3>1. m + 1 \in 3 .. Len(stack) + 1 /\ m + 1 \in 1 .. Len(stack') /\ (m + 1) - 1 = m
      BY <1>1, <2>2
    <3>2. stack'[m + 1] = stack[m]
      BY <1>1, <3>1
    <3>3. QED
      BY <1>3, <3>1, <3>2
  <2>3. QED
    BY <2>1, <2>2
<1>4. QED
  BY <1>2, <1>3

(* The ones have their new target in every vector, the zeros in none; the  *)
(* targets further back are not in the vectors of either.                  *)
LEMMA SplitTargets ==
  ASSUME TypeOK, Split, PlainTargets(stack)
  PROVE  PlainTargets(stack)'
<1>1. /\ Len(stack) \in Nat /\ Len(stack) >= 1 /\ Len(stack') = Len(stack) + 1
      /\ \A n \in 3 .. Len(stack) + 1 : stack'[n] = stack[n - 1]
  BY SplitFacts
<1>2. PICK i \in Qubits :
        /\ stack'[1].target = stack[1].target
        /\ stack'[1].terms = Zeros(stack[1].terms, i)
        /\ stack'[2].target = (IF stack[1].target # None THEN stack[1].target ELSE i)
        /\ stack'[2].terms = Ones(stack[1].terms, i)
  BY SplitFacts
<1>3. 1 \in 1 .. Len(stack)
  BY <1>1
<1>4. stack[1].target # None => \A t \in stack[1].terms : stack[1].target \in t.vec
  BY <1>3 DEF PlainTargets
<1> SUFFICES ASSUME NEW n \in 1 .. Len(stack'), stack'[n].target # None
             PROVE  /\ \A t \in stack'[n].terms : stack'[n].target \in t.vec
                    /\ \A m \in 1 .. n - 1 : stack'[m].target # stack'[n].target =>
                         \A t \in stack'[m].terms : stack'[n].target \notin t.vec
  BY DEF PlainTargets
<1>5. CASE n = 1
  <2>1. \A m \in 1 .. n - 1 : FALSE
    BY <1>5
  <2>2. \A t \in stack'[1].terms : stack'[1].target \in t.vec
    BY <1>2, <1>4, <1>5 DEF Zeros
  <2>3. QED
    BY <1>5, <2>1, <2>2
<1>6. CASE n = 2
  <2>1. \A m \in 1 .. n - 1 : m = 1
    BY <1>6
  <2>2. \A t \in stack'[2].terms : stack'[2].target \in t.vec
    BY <1>2, <1>4 DEF Ones
  <2>3. stack'[1].target # stack'[2].target =>
          \A t \in stack'[1].terms : stack'[2].target \notin t.vec
    BY <1>2 DEF Zeros
  <2>4. QED
    BY <1>6, <2>1, <2>2, <2>3
<1>7. CASE n \notin {1, 2}
  <2>1. n \in 3 .. Len(stack) + 1 /\ n - 1 \in 1 .. Len(stack) /\ 1 \in 1 .. (n - 1) - 1
    BY <1>1, <1>7
  <2>2. stack'[n] = stack[n - 1]
    BY <1>1, <2>1
  <2> DEFINE q == stack[n - 1].target
  <2>3. \A t \in stack[n - 1].terms : q \in t.vec
    BY <2>1, <2>2 DEF PlainTargets
  <2>4. \A k \in 1 .. (n - 1) - 1 : stack[k].target # q => \A t \in stack[k].terms : q \notin t.vec
    BY <2>1, <2>2 DEF PlainTargets
  <2>5. ASSUME NEW m \in 1 .. n - 1, stack'[m].target # q, NEW t \in stack'[m].terms
        PROVE  q \notin t.vec
    <3>1. CASE m \in {1, 2}
      <4>1. stack[1].target # q /\ t \in stack[1].terms
        BY <1>2, <2>2, <2>5, <3>1 DEF Zeros, Ones
      <4>2. QED
        BY <2>1, <2>4, <4>1
    <3>2. CASE m \notin {1, 2}
      <4>1. m \in 3 .. Len(stack) + 1 /\ m - 1 \in 1 .. (n - 1) - 1
        BY <1>1, <2>1, <3>2
      <4>2. stack'[m] = stack[m - 1]
        BY <1>1, <4>1
      <4>3. QED
        BY <2>4, <2>5, <4>1, <4>2
    <3>3. QED
      BY <3>1, <3>2
  <2>6. QED
    BY <2>2, <2>3, <2>5
<1>8. QED
  BY <1>5, <1>6, <1>7

LEMMA SplitIInv == IInv /\ Split => IInv'
<1> SUFFICES ASSUME IInv, Split PROVE IInv'
  OBVIOUS
<1>1. /\ TypeOK /\ pc = "partition" /\ pc' = pc
      /\ UNCHANGED <<input, A, loop, state, applied>>
      /\ ~Busy /\ ~Busy'
  BY DEF IInv, Split, Busy
<1>2. TypeOK'
  <2>1. stack' \in Seq(Partitions)
    BY <1>1, SplitFacts
  <2>2. QED
    BY <1>1, <2>1 DEF TypeOK, loop
<1>3. /\ \A n \in 1 .. Len(stack') : \A t \in stack'[n].terms :
           \E m \in 1 .. Len(stack) : t \in stack[m].terms
      /\ \A m \in 1 .. Len(stack) : \A t \in stack[m].terms :
           \E n \in 1 .. Len(stack') : t \in stack'[n].terms
  BY <1>1, SplitTerms
<1>4. TermsTracked'
  BY <1>1, <1>3 DEF IInv, TermsTracked
<1>5. Kept'
  <2>1. \A f : (\E n \in 1 .. Len(stack') : \E t \in stack'[n].terms : t.angle = f)
                 <=> (\E n \in 1 .. Len(stack) : \E t \in stack[n].terms : t.angle = f)
    BY <1>3
  <2>2. QED
    BY <1>1, <2>1 DEF IInv, Kept, input
<1>6. TargetInv'
  <2>1. Open = {} /\ Open' = {}
    BY <1>1 DEF Open
  <2>2. PlainTargets(stack)
    BY <2>1, PlainTargetsBefore DEF IInv
  <2>3. PlainTargets(stack)'
    BY <1>1, <2>2, SplitTargets
  <2>4. PlainIdle'
    BY <1>1, <2>1, <2>3 DEF PlainIdle
  <2>5. QED
    BY <2>4, PlainTargetsAfter, PTL
<1>7. OperatorTracked' /\ PhasesAtParity' /\ InputOK'
  BY <1>1 DEF IInv, OperatorTracked, PhasesAtParity, InputOK, input
<1>8. Synthesized' /\ PartInv' /\ pc' # "returned"
  BY <1>1 DEF Synthesized, PartInv
<1>9. QED
  BY <1>2, <1>4, <1>5, <1>6, <1>7, <1>8 DEF IInv

LEMMA RestartIInv == IInv /\ Restart => IInv'
<1> SUFFICES ASSUME IInv, Restart PROVE IInv'
  OBVIOUS
<1>1. /\ TypeOK /\ pc = "partition" /\ pc' = pc /\ stack # <<>>
      /\ stack' = [stack EXCEPT ![1].remaining_indices = Qubits]
      /\ UNCHANGED <<input, A, loop, state, applied>>
      /\ ~Busy /\ ~Busy'
  BY DEF IInv, Restart, Busy
<1>2. /\ stack \in Seq(Partitions) /\ Len(stack) \in Nat /\ Len(stack) >= 1
      /\ stack[1] \in Partitions
  BY <1>1, TailFacts DEF TypeOK
<1>3. /\ stack' = [stack EXCEPT ![1] = [stack[1] EXCEPT !.remaining_indices = Qubits]]
      /\ [stack[1] EXCEPT !.remaining_indices = Qubits] \in Partitions
  BY <1>1, <1>2 DEF Partitions
<1>4. /\ stack' \in Seq(Partitions) /\ Len(stack') = Len(stack)
      /\ \A n \in 1 .. Len(stack) :
           stack'[n].target = stack[n].target /\ stack'[n].terms = stack[n].terms
  BY <1>2, <1>3 DEF Partitions
<1>5. TypeOK'
  BY <1>1, <1>4 DEF TypeOK, loop
<1>6. TermsTracked'
  BY <1>1, <1>4 DEF IInv, TermsTracked
<1>7. Kept'
  BY <1>1, <1>4 DEF IInv, Kept, input
<1>8. TargetInv'
  <2>1. Open = {} /\ Open' = {}
    BY <1>1 DEF Open
  <2>2. PlainTargets(stack)
    BY <2>1, PlainTargetsBefore DEF IInv
  <2>3. PlainTargets(stack')
    <3> SUFFICES ASSUME NEW n \in 1 .. Len(stack), stack[n].target # None
                 PROVE  /\ \A t \in stack[n].terms : stack[n].target \in t.vec
                        /\ \A m \in 1 .. n - 1 : stack[m].target # stack[n].target =>
                             \A t \in stack[m].terms : stack[n].target \notin t.vec
                        /\ \A m \in 1 .. n - 1 : m \in 1 .. Len(stack)
      BY <1>4 DEF PlainTargets
    <3>1. QED
      BY <1>2, <2>2 DEF PlainTargets
  <2>4. PlainIdle'
    BY <1>1, <2>1, <2>3 DEF PlainIdle
  <2>5. QED
    BY <2>4, PlainTargetsAfter, PTL
<1>9. OperatorTracked' /\ PhasesAtParity' /\ InputOK'
  BY <1>1 DEF IInv, OperatorTracked, PhasesAtParity, InputOK, input
<1>10. Synthesized' /\ PartInv' /\ pc' # "returned"
  BY <1>1 DEF Synthesized, PartInv
<1>11. QED
  BY <1>5, <1>6, <1>7, <1>8, <1>9, <1>10 DEF IInv

LEMMA LinearTransIInv == IInv /\ LinearTrans => IInv'
<1> SUFFICES ASSUME IInv, LinearTrans PROVE IInv'
  OBVIOUS
<1>1. /\ TypeOK /\ pc = "partition" /\ pc' = "returned" /\ stack = <<>>
      /\ state' = [q \in Qubits |-> Parity(state, A[q])]
      /\ UNCHANGED <<input, stack, A, loop, applied>>
      /\ ~Busy /\ ~Busy'
  BY DEF IInv, LinearTrans, Busy
<1>2. \A q \in Qubits : Parity(state, A[q]) = operator[q]
  <2>1. \A q \in Qubits : Parity(state, A[q]) = Parity(Inputs, operator[q])
    BY <1>1 DEF IInv, OperatorTracked
  <2>2. \A q \in Qubits : operator[q] \in SUBSET Qubits
    BY DEF IInv, InputOK
  <2>3. QED
    BY <2>1, <2>2, ParityOfInputs
<1>3. state' = operator
  BY <1>1, <1>2 DEF IInv, InputOK
<1>4. {p.angle : p \in applied} = phases
  <2>1. Len(stack) = 0
    BY <1>1
  <2>2. \A f : f \in phases <=> \E p \in applied : p.angle = f
    BY <1>1, <2>1 DEF IInv, Kept
  <2>3. QED
    BY <2>2
<1>5. Synthesized'
  BY <1>1, <1>3, <1>4 DEF Synthesized, input
<1>6. TypeOK'
  BY <1>1, <1>3 DEF IInv, InputOK, TypeOK, loop
<1>7. TermsTracked' /\ TargetInv'
  BY <1>1 DEF TermsTracked, TargetInv
<1>8. Kept'
  BY <1>1 DEF IInv, Kept, input
<1>9. OperatorTracked' /\ PhasesAtParity' /\ InputOK' /\ PartInv'
  BY <1>1 DEF IInv, OperatorTracked, PhasesAtParity, InputOK, PartInv, input
<1>10. QED
  BY <1>1, <1>5, <1>6, <1>7, <1>8, <1>9 DEF IInv

LEMMA NextIInv == IInv /\ [Next]_vars => IInv'
<1> SUFFICES ASSUME IInv, [Next]_vars PROVE IInv'
  OBVIOUS
<1>1. CASE DropEmpty
  BY <1>1, DropEmptyIInv
<1>2. CASE TakeSingle
  BY <1>2, TakeSingleIInv
<1>3. CASE Control
  BY <1>3, ControlIInv
<1>4. CASE Fill
  BY <1>4, FillIInv
<1>5. CASE FillDone
  BY <1>5, FillDoneIInv
<1>6. CASE Zero
  BY <1>6, ZeroIInv
<1>7. CASE EmitPhase
  BY <1>7, EmitPhaseIInv
<1>8. CASE Split
  BY <1>8, SplitIInv
<1>9. CASE Restart
  BY <1>9, RestartIInv
<1>10. CASE LinearTrans
  BY <1>10, LinearTransIInv
<1>11. CASE UNCHANGED vars
  <2>1. UNCHANGED <<method, graph, phases, operator, stack, A, pc, part, s_tree, pos, state, applied>>
    BY <1>11 DEF vars, input, loop
  <2>2. /\ (TypeOK <=> TypeOK') /\ (InputOK <=> InputOK')
        /\ (TermsTracked <=> TermsTracked') /\ (OperatorTracked <=> OperatorTracked')
        /\ (PhasesAtParity <=> PhasesAtParity') /\ (Synthesized <=> Synthesized')
    BY <2>1 DEF TypeOK, InputOK, TermsTracked, OperatorTracked, PhasesAtParity, Synthesized
  <2>3. Kept'
    BY <2>1 DEF IInv, Kept, Busy
  <2>4. Current' = Current /\ Open' = Open /\ (TreeInHand' <=> TreeInHand) /\ (Busy' <=> Busy)
    BY <2>1 DEF Current, Open, TreeInHand, Busy
  <2>5. PartInv'
    BY <2>1, <2>4 DEF IInv, PartInv
  <2>6. TargetInv'
    BY <2>1, <2>4 DEF IInv, TargetInv
  <2>7. QED
    BY <2>1, <2>2, <2>3, <2>5, <2>6 DEF IInv
<1>12. QED
  BY <1>1, <1>2, <1>3, <1>4, <1>5, <1>6, <1>7, <1>8, <1>9, <1>10, <1>11 DEF Next

(* The inductive invariant holds in every reachable state. *)
THEOREM Invariance == Spec => []IInv
BY InitIInv, NextIInv, PTL DEF Spec

-----------------------------------------------------------------------------
(* Every variable keeps its type: in particular a partition has no target  *)
(* and no index that is not a qubit.                                       *)
THEOREM TypeCorrect == Spec => []TypeOK
<1>1. IInv => TypeOK
  BY DEF IInv
<1>2. QED
  BY <1>1, Invariance, PTL

(* adjust_vectors keeps track of every term: its vector always stands for  *)
(* the parity at which its phase was given.                                *)
THEOREM VectorsTrackParities == Spec => []TermsTracked
<1>1. IInv => TermsTracked
  BY DEF IInv
<1>2. QED
  BY <1>1, Invariance, PTL

(* The operator that is left is at all times what turns the state reached  *)
(* into the operator asked for.                                            *)
THEOREM OperatorLeftIsRight == Spec => []OperatorTracked
<1>1. IInv => OperatorTracked
  BY DEF IInv
<1>2. QED
  BY <1>1, Invariance, PTL

(* A phase is only ever applied on a qubit that is in the phase's parity,  *)
(* with either algorithm and whatever trees steiner answers.               *)
THEOREM PhasesMeetTheirParities == Spec => []PhasesAtParity
<1>1. IInv => PhasesAtParity
  BY DEF IInv
<1>2. QED
  BY <1>1, Invariance, PTL

(* Between two partitions, the targets of the partitions that wait are as  *)
(* they were made, although trees may pass through them.                   *)
THEOREM TargetsSurvive == Spec => []TargetsKept
<1>1. IInv => TargetsKept
  <2> SUFFICES ASSUME IInv, pc = "partition"
               PROVE  PlainTargets(stack)
    BY DEF TargetsKept, PlainTargets
  <2>1. Open = {}
    BY OpenIdle
  <2>2. QED
    BY <2>1, PlainTargetsBefore DEF IInv
<1>2. QED
  BY <1>1, Invariance, PTL

(* If gray_synth or gray_steiner returns, its result computes the operator *)
(* and applies every phase.                                                *)
THEOREM ResultCorrect == Spec => []Synthesized
<1>1. IInv => Synthesized
  BY DEF IInv
<1>2. QED
  BY <1>1, Invariance, PTL

(* gray_steiner emits CNOTs for the phases on couplings of the device      *)
(* only, from the higher end of an edge of the tree to the lower.          *)
THEOREM CouplingsRespected == Spec => CNOTsOnCouplings
<1> DEFINE OnCoupling ==
      method = "steiner" /\ pc' # "returned" /\ state' # state =>
        \E e \in graph : state' = [state EXCEPT ![e[2]] = Xor(@, state[e[1]])]
<1>1. IInv /\ [Next]_vars => [OnCoupling]_vars
  <2> SUFFICES ASSUME IInv, Next, method = "steiner", pc' # "returned", state' # state
               PROVE  \E e \in graph : state' = [state EXCEPT ![e[2]] = Xor(@, state[e[1]])]
    OBVIOUS
  <2>1. Control \/ Fill \/ Zero
    BY DEF Next, DropEmpty, TakeSingle, FillDone, EmitPhase, Split, Restart, LinearTrans
  <2>2. ~Control
    BY DEF IInv, PartInv, Control, Busy
  <2>3. pc \in {"fill", "zero"} /\ EmitCNOT(Child, Parent)
    BY <2>1, <2>2 DEF Fill, Zero
  <2>4. TreeInHand /\ pos \in 1 .. Len(s_tree) /\ graph \in Graphs
    <3>1. /\ TreeInHand /\ pos \in Nat /\ graph \in Graphs
          /\ pc = "fill" => pos >= 1
          /\ pc = "zero" => pos <= Len(s_tree)
      BY <2>3 DEF IInv, PartInv, Busy, TypeOK, InputOK
    <3>2. Len(s_tree) \in Nat
      BY <3>1 DEF TreeInHand, IsTree
    <3>3. (pc = "fill" => pos <= Len(s_tree)) /\ (pc = "zero" => pos > 0)
      BY <2>1, <2>2 DEF Fill, Zero
    <3>4. QED
      BY <2>3, <3>1, <3>2, <3>3
  <2>5. s_tree[pos] \in graph /\ <<Child, Parent>> \in graph
    <3>1. s_tree[pos] \in graph
      BY <2>4 DEF TreeInHand, IsTree
    <3>2. QED
      BY <2>4, <3>1, TreeAssumption DEF Child, Parent
  <2>6. state' = [state EXCEPT ![Parent] = Xor(@, state[Child])]
    BY <2>3 DEF EmitCNOT
  <2>7. QED
    BY <2>5, <2>6
<1>2. QED
  BY <1>1, Invariance, PTL DEF Spec, CNOTsOnCouplings

-----------------------------------------------------------------------------
(* No phase is twice on the stack, and none that is there is in hand or    *)
(* applied.                                                                *)

Waits(stk, f) == \E n \in 1 .. Len(stk) : \E t \in stk[n].terms : t.angle = f

Distinct(stk) ==
  /\ \A n \in 1 .. Len(stk) : \A t, u \in stk[n].terms : t.angle = u.angle => t = u
  /\ \A n \in 1 .. Len(stk) : \A m \in 1 .. n - 1 :
       \A t \in stk[n].terms : \A u \in stk[m].terms : t.angle # u.angle

Applied(f) == \E p \in applied : p.angle = f

Once ==
  /\ Distinct(stack)
  /\ \A f : ~(Waits(stack, f) /\ Applied(f))
  /\ Busy => ~Waits(stack, part.angle) /\ ~Applied(part.angle)

LEMMA TailOnce ==
  ASSUME TypeOK, stack # <<>>, Distinct(stack)
  PROVE  /\ Distinct(Tail(stack))
         /\ \A f : Waits(Tail(stack), f) => Waits(stack, f)
         /\ \A t \in Front.terms : Waits(stack, t.angle) /\ ~Waits(Tail(stack), t.angle)
<1>1. /\ Len(stack) \in Nat /\ Len(stack) >= 1 /\ Len(Tail(stack)) = Len(stack) - 1
      /\ \A n \in 1 .. Len(stack) - 1 : Tail(stack)[n] = stack[n + 1]
      /\ Front = stack[1]
  BY TailFacts
<1>2. \A n \in 1 .. Len(Tail(stack)) :
        n + 1 \in 1 .. Len(stack) /\ Tail(stack)[n] = stack[n + 1] /\ 1 \in 1 .. (n + 1) - 1
  BY <1>1
<1>3. ASSUME NEW n \in 1 .. Len(Tail(stack)), NEW m \in 1 .. n - 1,
             NEW t \in Tail(stack)[n].terms, NEW u \in Tail(stack)[m].terms
      PROVE  t.angle # u.angle
  <2>1. m \in 1 .. Len(Tail(stack)) /\ m + 1 \in 1 .. (n + 1) - 1
    BY <1>1
  <2>2. t \in stack[n + 1].terms /\ u \in stack[m + 1].terms /\ n + 1 \in 1 .. Len(stack)
    BY <1>2, <2>1
  <2>3. QED
    BY <2>1, <2>2 DEF Distinct
<1>4. Distinct(Tail(stack))
  BY <1>2, <1>3 DEF Distinct
<1>5. \A f : Waits(Tail(stack), f) => Waits(stack, f)
  BY <1>2 DEF Waits
<1>6. ASSUME NEW t \in Front.terms
      PROVE  Waits(stack, t.angle) /\ ~Waits(Tail(stack), t.angle)
  <2>1. 1 \in 1 .. Len(stack) /\ t \in stack[1].terms
    BY <1>1
  <2>2. ASSUME NEW n \in 1 .. Len(Tail(stack)), NEW u \in Tail(stack)[n].terms
        PROVE  u.angle # t.angle
    BY <1>2, <2>1 DEF Distinct
  <2>3. QED
    BY <2>1, <2>2 DEF Waits
<1>7. QED
  BY <1>4, <1>5, <1>6

LEMMA CNOTOnce ==
  ASSUME TypeOK, NEW c \in Qubits, NEW t \in Qubits, c # t, EmitCNOT(c, t), Distinct(stack)
  PROVE  Distinct(stack') /\ \A f : Waits(stack', f) => Waits(stack, f)
<1> DEFINE New(u) == [vec |-> Adjust(u.vec, c, t), angle |-> u.angle]
<1>1. /\ Len(stack') = Len(stack) /\ Len(stack) \in Nat
      /\ \A n \in 1 .. Len(stack) : stack'[n].terms = {New(u) : u \in stack[n].terms}
  BY CNOTFacts DEF TypeOK
<1>2. \A u : New(u).angle = u.angle
  OBVIOUS
<1> HIDE DEF New
<1>3. ASSUME NEW n \in 1 .. Len(stack), NEW u \in stack'[n].terms
      PROVE  \E w \in stack[n].terms : u = New(w) /\ u.angle = w.angle
  <2>1. PICK w \in stack[n].terms : u = New(w)
    BY <1>1, <1>3
  <2>2. u.angle = w.angle
    BY <1>2, <2>1
  <2>3. QED
    BY <2>1, <2>2
<1>4. ASSUME NEW n \in 1 .. Len(stack), NEW u \in stack'[n].terms, NEW v \in stack'[n].terms,
             u.angle = v.angle
      PROVE  u = v
  <2>1. PICK w \in stack[n].terms : u = New(w) /\ u.angle = w.angle
    BY <1>3
  <2>2. PICK x \in stack[n].terms : v = New(x) /\ v.angle = x.angle
    BY <1>3
  <2>3. w = x
    BY <1>4, <2>1, <2>2 DEF Distinct
  <2>4. QED
    BY <2>1, <2>2, <2>3
<1>5. ASSUME NEW n \in 1 .. Len(stack), NEW m \in 1 .. n - 1,
             NEW u \in stack'[n].terms, NEW v \in stack'[m].terms
      PROVE  u.angle # v.angle
  <2>1. m \in 1 .. Len(stack)
    BY <1>1
  <2>2. PICK w \in stack[n].terms : u.angle = w.angle
    BY <1>3
  <2>3. PICK x \in stack[m].terms : v.angle = x.angle
    BY <1>3, <2>1
  <2>4. QED
    BY <2>2, <2>3 DEF Distinct
<1>6. Distinct(stack')
  BY <1>1, <1>4, <1>5 DEF Distinct
<1>7. \A f : Waits(stack', f) => Waits(stack, f)
  BY <1>1, <1>3 DEF Waits
<1>8. QED
  BY <1>6, <1>7

LEMMA SplitOnce ==
  ASSUME TypeOK, Split, Distinct(stack)
  PROVE  Distinct(stack') /\ \A f : Waits(stack', f) => Waits(stack, f)
<1> DEFINE Source(n) == IF n \in {1, 2} THEN 1 ELSE n - 1
<1>1. /\ Len(stack) \in Nat /\ Len(stack) >= 1 /\ Len(stack') = Len(stack) + 1
      /\ \A n \in 3 .. Len(stack) + 1 : stack'[n] = stack[n - 1]
  BY SplitFacts
<1>2. PICK i \in Qubits : /\ stack'[1].terms = Zeros(stack[1].terms, i)
                          /\ stack'[2].terms = Ones(stack[1].terms, i)
  BY SplitFacts
<1>3. ASSUME NEW n \in 1 .. Len(stack')
      PROVE  Source(n) \in 1 .. Len(stack) /\ \A t \in stack'[n].terms : t \in stack[Source(n)].terms
  <2>1. CASE n \in {1, 2}
    <3>1. 1 \in 1 .. Len(stack)
      BY <1>1
    <3>2. QED
      BY <1>2, <2>1, <3>1 DEF Zeros, Ones
  <2>2. CASE n \notin {1, 2}
    <3>1. n \in 3 .. Len(stack) + 1 /\ n - 1 \in 1 .. Len(stack)
      BY <1>1, <2>2
    <3>2. QED
      BY <1>1, <2>2, <3>1
  <2>3. QED
    BY <2>1, <2>2
<1>4. ASSUME NEW n \in 1 .. Len(stack'), NEW m \in 1 .. n - 1,
             NEW t \in stack'[n].terms, NEW u \in stack'[m].terms
      PROVE  t.angle # u.angle
  <2>1. m \in 1 .. Len(stack')
    BY <1>1
  <2>2. t \in stack[Source(n)].terms /\ u \in stack[Source(m)].terms
    BY <1>3, <2>1
  <2>3. CASE n = 2
    <3>1. m = 1
      BY <2>3
    <3>2. i \in t.vec /\ i \notin u.vec
      BY <1>2, <2>3, <3>1 DEF Zeros, Ones
    <3>3. t \in stack[1].terms /\ u \in stack[1].terms /\ 1 \in 1 .. Len(stack)
      BY <1>1, <2>2, <2>3, <3>1
    <3>4. QED
      BY <3>2, <3>3 DEF Distinct
  <2>4. CASE n # 2
    <3>1. Source(m) \in 1 .. Source(n) - 1
      BY <1>1, <2>4
    <3>2. Source(n) \in 1 .. Len(stack)
      BY <1>3
    <3> HIDE DEF Source
    <3>3. QED
      BY <2>2, <3>1, <3>2 DEF Distinct
  <2>5. QED
    BY <2>3, <2>4
<1> HIDE DEF Source
<1>5. \A n \in 1 .. Len(stack') : \A t, u \in stack'[n].terms : t.angle = u.angle => t = u
  BY <1>3 DEF Distinct
<1>6. Distinct(stack')
  BY <1>4, <1>5 DEF Distinct
<1>7. \A f : Waits(stack', f) => Waits(stack, f)
  BY <1>3 DEF Waits
<1>8. QED
  BY <1>6, <1>7

(* One step of a loop in which CNOTs are emitted *)
LEMMA LoopStep ==
  ASSUME IInv, Control \/ Fill \/ Zero
  PROVE  /\ UNCHANGED <<input, part, applied>> /\ Busy /\ Busy'
         /\ \/ stack' = stack
            \/ \E c, t \in Qubits : c # t /\ EmitCNOT(c, t)
         /\ Control => pc = "controls" /\ method = "gray"
         /\ Fill \/ Zero => method = "steiner"
<1>1. UNCHANGED <<input, part, applied>> /\ Busy /\ Busy'
  BY DEF Control, Fill, Zero, Busy
<1>2. CASE Control
  <2>1. /\ pc = "controls" /\ method = "gray" /\ pos \in Qubits
        /\ part.target \in Qubits
    BY <1>1, <1>2, SizeAssumption DEF IInv, PartInv, Control, Qubits
  <2>2. stack' = stack \/ (pos # part.target /\ EmitCNOT(pos, part.target))
    BY <1>2 DEF Control
  <2>3. ~Fill /\ ~Zero
    BY <2>1 DEF Fill, Zero
  <2>4. QED
    BY <1>1, <2>1, <2>2, <2>3
<1>3. CASE Fill \/ Zero
  <2>1. /\ pc \in {"fill", "zero"} /\ method = "steiner" /\ ~Control /\ Len(s_tree) \in Nat
    BY <1>1, <1>3 DEF Fill, Zero, Control, IInv, PartInv, TreeInHand, IsTree
  <2>2. pos \in 1 .. Len(s_tree)
    BY <1>1, <1>3, <2>1 DEF Fill, Zero, IInv, PartInv
  <2>3. Child \in Qubits /\ Parent \in Qubits /\ Child # Parent
    BY <1>1, <2>1, <2>2, EdgeFacts
  <2>4. stack' = stack \/ EmitCNOT(Child, Parent)
    BY <1>3 DEF Fill, Zero
  <2>5. QED
    BY <1>1, <2>1, <2>3, <2>4
<1>4. QED
  BY <1>2, <1>3

LEMMA OnceStep == IInv /\ Once /\ [Next]_vars => Once'
<1> SUFFICES ASSUME IInv, Once, [Next]_vars PROVE Once'
  OBVIOUS
<1>1. TypeOK /\ Distinct(stack)
  BY DEF IInv, Once
<1>2. ASSUME Distinct(stack'), \A f : Waits(stack', f) => Waits(stack, f),
             UNCHANGED applied, Busy' => (Busy /\ part' = part)
      PROVE  Once'
  BY <1>2 DEF Once, Applied
<1>3. CASE DropEmpty
  <2>1. Distinct(stack') /\ \A f : Waits(stack', f) => Waits(stack, f)
    BY <1>1, <1>3, TailOnce DEF DropEmpty
  <2>2. UNCHANGED applied /\ ~Busy'
    BY <1>3 DEF DropEmpty, Busy
  <2>3. QED
    BY <1>2, <2>1, <2>2
<1>4. CASE TakeSingle
  <2>1. PICK t \in Front.terms : part'.angle = t.angle
    BY <1>4 DEF TakeSingle
  <2>2. /\ Distinct(stack') /\ \A f : Waits(stack', f) => Waits(stack, f)
        /\ Waits(stack, t.angle) /\ ~Waits(stack', t.angle)
    BY <1>1, <1>4, TailOnce DEF TakeSingle
  <2>3. applied' = applied
    BY <1>4 DEF TakeSingle
  <2>4. QED
    BY <2>1, <2>2, <2>3 DEF Once, Applied
<1>5. CASE Control \/ Fill \/ Zero
  <2>1. UNCHANGED <<part, applied>> /\ Busy
    BY <1>5, LoopStep
  <2>2. Distinct(stack') /\ \A f : Waits(stack', f) => Waits(stack, f)
    <3>1. CASE stack' = stack
      BY <1>1, <3>1
    <3>2. CASE \E c, t \in Qubits : c # t /\ EmitCNOT(c, t)
      BY <1>1, <3>2, CNOTOnce
    <3>3. QED
      BY <1>5, <3>1, <3>2, LoopStep
  <2>3. QED
    BY <1>2, <2>1, <2>2
<1>6. CASE FillDone
  BY <1>1, <1>2, <1>6 DEF FillDone, Busy
<1>7. CASE EmitPhase
  <2>1. stack' = stack /\ Busy /\ ~Busy'
    BY <1>7 DEF EmitPhase, Busy
  <2>2. \A f : Applied(f)' => Applied(f) \/ f = part.angle
    <3> DEFINE new == [angle |-> part.angle, parity |-> state[part.target]]
    <3>1. applied' = applied \cup {new} /\ new.angle = part.angle
      BY <1>7 DEF EmitPhase
    <3> HIDE DEF new
    <3>2. QED
      BY <3>1 DEF Applied
  <2>3. QED
    BY <2>1, <2>2 DEF Once
<1>8. CASE Split
  <2>1. Distinct(stack') /\ \A f : Waits(stack', f) => Waits(stack, f)
    BY <1>1, <1>8, SplitOnce
  <2>2. UNCHANGED applied /\ ~Busy'
    BY <1>8 DEF Split, Busy
  <2>3. QED
    BY <1>2, <2>1, <2>2
<1>9. CASE Restart
  <2>1. /\ Len(stack') = Len(stack)
        /\ \A n \in 1 .. Len(stack) : stack'[n].terms = stack[n].terms
    <3>1. /\ stack \in Seq(Partitions) /\ Len(stack) \in Nat /\ Len(stack) >= 1
          /\ stack[1] \in Partitions
      BY <1>1, <1>9, TailFacts DEF TypeOK, Restart
    <3>2. /\ stack' = [stack EXCEPT ![1] = [stack[1] EXCEPT !.remaining_indices = Qubits]]
          /\ [stack[1] EXCEPT !.remaining_indices = Qubits].terms = stack[1].terms
      BY <1>9, <3>1 DEF Restart, Partitions
    <3>3. QED
      BY <3>1, <3>2
  <2>2. Distinct(stack') /\ \A f : Waits(stack', f) => Waits(stack, f)
    <3>1. Len(stack) \in Nat
      BY <1>1 DEF TypeOK
    <3>2. \A n \in 1 .. Len(stack) : \A m \in 1 .. n - 1 : m \in 1 .. Len(stack)
      BY <3>1
    <3>3. QED
      BY <1>1, <2>1, <3>2 DEF Distinct, Waits
  <2>3. UNCHANGED applied /\ ~Busy'
    BY <1>9 DEF Restart, Busy
  <2>4. QED
    BY <1>2, <2>2, <2>3
<1>10. CASE LinearTrans
  BY <1>1, <1>2, <1>10 DEF LinearTrans, Busy
<1>11. CASE UNCHANGED vars
  BY <1>1, <1>2, <1>11 DEF vars, loop, Busy
<1>12. QED
  BY <1>3, <1>4, <1>5, <1>6, <1>7, <1>8, <1>9, <1>10, <1>11 DEF Next

LEMMA InitOnce == Init => Once
<1> SUFFICES ASSUME Init PROVE Once
  OBVIOUS
<1> DEFINE Of(p) == [vec |-> p, angle |-> p]
<1>1. /\ Len(stack) = 1 /\ stack[1].terms = {Of(p) : p \in phases}
      /\ applied = {} /\ ~Busy
  BY DEF Init, Partition, Busy
<1>2. \A t \in stack[1].terms : t = Of(t.angle)
  <2>1. ASSUME NEW p PROVE Of(p) = Of(Of(p).angle)
    OBVIOUS
  <2> HIDE DEF Of
  <2>2. QED
    BY <1>1, <2>1
<1>3. \A n \in 1 .. Len(stack) : n = 1 /\ \A m \in 1 .. n - 1 : FALSE
  BY <1>1
<1> HIDE DEF Of
<1>4. \A t, u \in stack[1].terms : t.angle = u.angle => t = u
  BY <1>2
<1>5. Distinct(stack)
  BY <1>3, <1>4 DEF Distinct
<1>6. QED
  BY <1>1, <1>5 DEF Once, Applied

LEMMA AngleCount ==
  ASSUME NEW terms, NEW angles, angles = {t.angle : t \in terms}, IsFiniteSet(angles),
         \A t, u \in terms : t.angle = u.angle => t = u
  PROVE  Cardinality(angles) = Cardinality(terms)
<1> DEFINE F == [t \in terms |-> t.angle]
<1>1. F \in [terms -> angles] /\ (\A t, u \in terms : F[t] = F[u] => t = u)
  OBVIOUS
<1>2. \A f \in angles : \E t \in terms : F[t] = f
  OBVIOUS
<1> HIDE DEF F
<1>3. F \in Bijection(terms, angles)
  BY <1>1, <1>2, Fun_IsBij
<1>4. ExistsBijection(terms, angles)
  BY <1>3, Fun_ExistsBij
<1>5. ExistsBijection(angles, terms)
  BY <1>4, Fun_ExistsBijSymmetric
<1>6. QED
  BY <1>5, FS_Bijection

(* Between them, the partitions of the stack, the term in hand and the     *)
(* phases applied have every phase exactly once, at every moment: a phase  *)
(* is neither lost nor applied twice.                                      *)
THEOREM PhasesKept == Spec => []NoPhaseLost
<1>1. IInv /\ Once => NoPhaseLost
  <2> SUFFICES ASSUME IInv, Once PROVE NoPhaseLost
    OBVIOUS
  <2> DEFINE waiting(n) == {t.angle : t \in stack[n].terms}
             inHand == IF Busy THEN {part.angle} ELSE {}
             done == {p.angle : p \in applied}
  <2>1. \A f : /\ f \in done <=> Applied(f)
               /\ f \in inHand <=> Busy /\ part.angle = f
               /\ f \in UNION {waiting(n) : n \in 1 .. Len(stack)} <=> Waits(stack, f)
    BY DEF Applied, Waits
  <2>2. \A n \in 1 .. Len(stack) : \A f \in waiting(n) : Waits(stack, f)
    BY DEF Waits
  <2>3. \A n \in 1 .. Len(stack) : \A f \in waiting(n) : \E t \in stack[n].terms : f = t.angle
    OBVIOUS
  <2>4. \A f : f \in phases <=> Applied(f) \/ (Busy /\ part.angle = f) \/ Waits(stack, f)
    BY DEF IInv, Kept, Applied, Waits
  <2> HIDE DEF inHand, done
  <2>5. phases = done \cup inHand \cup UNION {waiting(n) : n \in 1 .. Len(stack)}
    BY <2>1, <2>4
  <2>6. done \cap inHand = {}
    BY <2>1 DEF Once
  <2>7. ASSUME NEW n \in 1 .. Len(stack)
        PROVE  waiting(n) \cap (done \cup inHand) = {}
    BY <2>1, <2>2 DEF Once
  <2>8. ASSUME NEW n \in 1 .. Len(stack)
        PROVE  Cardinality(waiting(n)) = Cardinality(stack[n].terms)
    <3>1. waiting(n) \in SUBSET SUBSET Qubits
      <4>1. \A t \in stack[n].terms : t.angle \in SUBSET Qubits
        BY TermTypes DEF IInv
      <4>2. QED
        BY <4>1
    <3>2. IsFiniteSet(SUBSET Qubits)
      BY FiniteVectors, FS_SUBSET
    <3>3. PICK angles : angles = waiting(n)
      OBVIOUS
    <3>4. IsFiniteSet(angles)
      BY <3>1, <3>2, <3>3, FS_Subset
    <3>5. \A t, u \in stack[n].terms : t.angle = u.angle => t = u
      BY DEF Once, Distinct
    <3>6. QED
      BY <3>3, <3>4, <3>5, AngleCount
  <2>9. ASSUME NEW n \in 1 .. Len(stack), NEW m \in 1 .. n - 1
        PROVE  waiting(m) \cap waiting(n) = {}
    BY DEF Once, Distinct
  <2>10. QED
    BY <2>5, <2>6, <2>7, <2>8, <2>9 DEF NoPhaseLost, inHand, done
<1>2. Spec => []IInv
  BY Invariance
<1>3. QED
  BY <1>1, <1>2, InitOnce, OnceStep, PTL DEF Spec

-----------------------------------------------------------------------------
(* gray_synth always has an index left to split by.                        *)

(* The terms of a partition differ only in the indices that remain to it.  *)
Agree(stk) ==
  \A n \in 1 .. Len(stk) : \A t, u \in stk[n].terms :
    \A q \in Qubits \ stk[n].remaining_indices : q \in t.vec <=> q \in u.vec

(* A partition without a target is in front, and has had zeros only. *)
NoTargetYet(stk) ==
  \A n \in 1 .. Len(stk) : stk[n].target = None =>
    n = 1 /\ \A t \in stk[n].terms : t.vec \subseteq stk[n].remaining_indices

(* Terms that are synthesized before a partition with another target have  *)
(* a 1 only in the indices that remain to it, so that the CNOTs for them   *)
(* change its vectors in no other.                                         *)
Avoid(stk) ==
  \A n \in 1 .. Len(stk) : \A m \in 1 .. n - 1 : stk[m].target # stk[n].target =>
    \A t \in stk[m].terms : t.vec \subseteq stk[n].remaining_indices

InHandAvoids(stk, p) ==
  \A n \in 1 .. Len(stk) :
    /\ stk[n].target # None
    /\ p.target # stk[n].target => p.vec \subseteq stk[n].remaining_indices

Pieces(stk) == Agree(stk) /\ NoTargetYet(stk) /\ Avoid(stk)

GrayInv ==
  /\ phases \in PhaseSets
  /\ method = "gray" => Pieces(stack) /\ (Busy => InHandAvoids(stack, part))

LEMMA TailPieces ==
  ASSUME TypeOK, stack # <<>>, Pieces(stack)
  PROVE  /\ Pieces(Tail(stack))
         /\ \A t \in Front.terms : \A p :
              p.target = Front.target /\ p.vec = t.vec => InHandAvoids(Tail(stack), p)
<1>1. /\ Len(stack) \in Nat /\ Len(stack) >= 1 /\ Len(Tail(stack)) = Len(stack) - 1
      /\ \A n \in 1 .. Len(stack) - 1 : Tail(stack)[n] = stack[n + 1]
      /\ Front = stack[1]
  BY TailFacts
<1>2. \A n \in 1 .. Len(Tail(stack)) :
        /\ n + 1 \in 1 .. Len(stack) /\ Tail(stack)[n] = stack[n + 1]
        /\ 1 \in 1 .. (n + 1) - 1 /\ n + 1 # 1
  BY <1>1
<1>3. \A n \in 1 .. Len(Tail(stack)) : Tail(stack)[n].target # None
  BY <1>2 DEF Pieces, NoTargetYet
<1>4. Agree(Tail(stack))
  BY <1>2 DEF Pieces, Agree
<1>5. ASSUME NEW n \in 1 .. Len(Tail(stack)), NEW m \in 1 .. n - 1,
             Tail(stack)[m].target # Tail(stack)[n].target, NEW t \in Tail(stack)[m].terms
      PROVE  t.vec \subseteq Tail(stack)[n].remaining_indices
  <2>1. m \in 1 .. Len(Tail(stack)) /\ m + 1 \in 1 .. (n + 1) - 1
    BY <1>1
  <2>2. /\ t \in stack[m + 1].terms /\ n + 1 \in 1 .. Len(stack)
        /\ stack[m + 1].target # stack[n + 1].target
        /\ Tail(stack)[n] = stack[n + 1]
    BY <1>2, <1>5, <2>1
  <2>3. QED
    BY <2>1, <2>2 DEF Pieces, Avoid
<1>6. Pieces(Tail(stack))
  BY <1>3, <1>4, <1>5 DEF Pieces, NoTargetYet, Avoid
<1>7. ASSUME NEW t \in Front.terms, NEW p, p.target = Front.target, p.vec = t.vec
      PROVE  InHandAvoids(Tail(stack), p)
  <2>1. ASSUME NEW n \in 1 .. Len(Tail(stack)), p.target # Tail(stack)[n].target
        PROVE  p.vec \subseteq Tail(stack)[n].remaining_indices
    <3>1. /\ n + 1 \in 1 .. Len(stack) /\ 1 \in 1 .. (n + 1) - 1
          /\ Tail(stack)[n] = stack[n + 1]
      BY <1>2
    <3>2. stack[1].target # stack[n + 1].target /\ t \in stack[1].terms
      BY <1>1, <1>7, <2>1, <3>1
    <3>3. QED
      BY <1>7, <3>1, <3>2 DEF Pieces, Avoid
  <2>2. QED
    BY <1>3, <2>1 DEF InHandAvoids
<1>8. QED
  BY <1>6, <1>7

LEMMA SplitPieces ==
  ASSUME TypeOK, Split, Pieces(stack)
  PROVE  Pieces(stack')
<1>1. /\ Len(stack) \in Nat /\ Len(stack) >= 1 /\ Len(stack') = Len(stack) + 1
      /\ \A n \in 3 .. Len(stack) + 1 : stack'[n] = stack[n - 1]
  BY SplitFacts
<1>2. PICK i \in Qubits :
        /\ stack'[1].target = stack[1].target
        /\ stack'[1].terms = Zeros(stack[1].terms, i)
        /\ stack'[2].target = (IF stack[1].target # None THEN stack[1].target ELSE i)
        /\ stack'[2].terms = Ones(stack[1].terms, i)
        /\ stack'[1].remaining_indices = stack[1].remaining_indices \ {i}
        /\ stack'[2].remaining_indices = stack[1].remaining_indices \ {i}
  BY SplitFacts
<1>3. 1 \in 1 .. Len(stack) /\ i # None
  BY <1>1, SizeAssumption DEF Qubits, None
<1>4. \A n \in 1 .. Len(stack') : n \notin {1, 2} =>
        /\ n \in 3 .. Len(stack) + 1 /\ n - 1 \in 1 .. Len(stack) /\ n - 1 # 1
        /\ stack'[n] = stack[n - 1]
  BY <1>1
<1>5. \A t : t \in stack'[1].terms \/ t \in stack'[2].terms => t \in stack[1].terms
  BY <1>2 DEF Zeros, Ones
<1>6. Agree(stack')
  <2>1. ASSUME NEW n \in 1 .. Len(stack'), NEW t \in stack'[n].terms, NEW u \in stack'[n].terms,
               NEW q \in Qubits \ stack'[n].remaining_indices
        PROVE  q \in t.vec <=> q \in u.vec
    <3>1. CASE n \in {1, 2}
      <4>1. t \in stack[1].terms /\ u \in stack[1].terms
        BY <1>5, <3>1
      <4>2. CASE q = i
        BY <1>2, <3>1, <4>2 DEF Zeros, Ones
      <4>3. CASE q # i
        <5>1. q \in Qubits \ stack[1].remaining_indices
          BY <1>2, <3>1, <4>3
        <5>2. QED
          BY <1>3, <4>1, <5>1 DEF Pieces, Agree
      <4>4. QED
        BY <4>2, <4>3
    <3>2. CASE n \notin {1, 2}
      <4>1. n - 1 \in 1 .. Len(stack) /\ stack'[n] = stack[n - 1]
        BY <1>4, <3>2
      <4>2. QED
        BY <4>1 DEF Pieces, Agree
    <3>3. QED
      BY <3>1, <3>2
  <2>2. QED
    BY <2>1 DEF Agree
<1>7. NoTargetYet(stack')
  <2>1. ASSUME NEW n \in 1 .. Len(stack'), stack'[n].target = None
        PROVE  n = 1 /\ \A t \in stack'[n].terms : t.vec \subseteq stack'[n].remaining_indices
    <3>1. n # 2
      BY <1>2, <1>3, <2>1
    <3>2. n \in {1, 2}
      <4>1. SUFFICES ASSUME n \notin {1, 2} PROVE FALSE
        OBVIOUS
      <4>2. n - 1 \in 1 .. Len(stack) /\ n - 1 # 1 /\ stack[n - 1].target = None
        BY <1>4, <2>1, <4>1
      <4>3. QED
        BY <4>2 DEF Pieces, NoTargetYet
    <3>3. n = 1
      BY <3>1, <3>2
    <3>4. \A t \in stack[1].terms : t.vec \subseteq stack[1].remaining_indices
      BY <1>2, <1>3, <2>1, <3>3 DEF Pieces, NoTargetYet
    <3>5. QED
      BY <1>2, <3>3, <3>4 DEF Zeros
  <2>2. QED
    BY <2>1 DEF NoTargetYet
<1>8. Avoid(stack')
  <2>1. ASSUME NEW n \in 1 .. Len(stack'), NEW m \in 1 .. n - 1,
               stack'[m].target # stack'[n].target, NEW t \in stack'[m].terms
        PROVE  t.vec \subseteq stack'[n].remaining_indices
    <3>1. CASE n \in {1, 2}
      <4>1. n = 2 /\ m = 1
        BY <3>1
      <4>2. stack[1].target = None /\ t \in stack[1].terms /\ i \notin t.vec
        BY <1>2, <2>1, <4>1 DEF Zeros
      <4>3. t.vec \subseteq stack[1].remaining_indices
        BY <1>3, <4>2 DEF Pieces, NoTargetYet
      <4>4. QED
        BY <1>2, <4>1, <4>2, <4>3
    <3>2. CASE n \notin {1, 2}
      <4>1. /\ n \in 3 .. Len(stack) + 1 /\ n - 1 \in 1 .. Len(stack) /\ n - 1 # 1
            /\ stack'[n] = stack[n - 1]
        BY <1>4, <3>2
      <4>2. stack[n - 1].target # None
        BY <4>1 DEF Pieces, NoTargetYet
      <4>3. CASE m \in {1, 2}
        <5>1. t \in stack[1].terms /\ 1 \in 1 .. (n - 1) - 1
          BY <1>1, <1>5, <4>1, <4>3
        <5>2. stack[1].target # stack[n - 1].target
          BY <1>2, <2>1, <4>1, <4>2, <4>3
        <5>3. QED
          BY <4>1, <5>1, <5>2 DEF Pieces, Avoid
      <4>4. CASE m \notin {1, 2}
        <5>1. m \in 1 .. Len(stack') /\ m - 1 \in 1 .. (n - 1) - 1
          BY <1>1, <4>1, <4>4
        <5>2. stack'[m] = stack[m - 1]
          BY <1>4, <4>4, <5>1
        <5>3. t \in stack[m - 1].terms /\ stack[m - 1].target # stack[n - 1].target
          BY <2>1, <4>1, <5>2
        <5>4. QED
          BY <4>1, <5>1, <5>3 DEF Pieces, Avoid
      <4>5. QED
        BY <4>3, <4>4
    <3>3. QED
      BY <3>1, <3>2
  <2>2. QED
    BY <2>1 DEF Avoid
<1>9. QED
  BY <1>6, <1>7, <1>8 DEF Pieces

(* The CNOT from a qubit of the vector in hand to its target flips the     *)
(* same bit in all the vectors of a partition with the same target, and in *)
(* those of another only a bit that remains to it.                         *)
LEMMA ControlPieces ==
  ASSUME TypeOK, PlainTargets(stack), NEW c \in part.vec, NEW t \in Qubits,
         c \in Qubits, c # t, t = part.target, EmitCNOT(c, t), part' = part,
         Pieces(stack), InHandAvoids(stack, part)
  PROVE  Pieces(stack') /\ InHandAvoids(stack', part')
<1>1. /\ Len(stack') = Len(stack) /\ Len(stack) \in Nat
      /\ \A n \in 1 .. Len(stack) :
           /\ stack'[n].target = stack[n].target
           /\ stack'[n].remaining_indices = stack[n].remaining_indices
           /\ stack'[n].terms =
                {[vec |-> Adjust(u.vec, c, t), angle |-> u.angle] : u \in stack[n].terms}
  BY CNOTFacts DEF TypeOK
<1>2. ASSUME NEW n \in 1 .. Len(stack), NEW u \in stack'[n].terms
      PROVE  \E w \in stack[n].terms :
               /\ \A q : q # c => (q \in u.vec <=> q \in w.vec)
               /\ c \in u.vec <=> ~(c \in w.vec <=> t \in w.vec)
  <2>1. PICK w \in stack[n].terms : u.vec = Adjust(w.vec, c, t)
    BY <1>1, <1>2
  <2>2. w.vec \in SUBSET Qubits
    BY <2>1, TermTypes
  <2>3. QED
    BY <2>1, <2>2, AdjustType
<1>3. \A n \in 1 .. Len(stack) :
        /\ stack[n].target # None
        /\ t # stack[n].target => c \in stack[n].remaining_indices
  BY DEF InHandAvoids
<1>4. ASSUME NEW n \in 1 .. Len(stack), NEW u \in stack'[n].terms, NEW v \in stack'[n].terms,
             NEW q \in Qubits \ stack[n].remaining_indices
      PROVE  q \in u.vec <=> q \in v.vec
  <2>1. PICK w \in stack[n].terms :
               /\ \A p : p # c => (p \in u.vec <=> p \in w.vec)
               /\ c \in u.vec <=> ~(c \in w.vec <=> t \in w.vec)
    BY <1>2
  <2>2. PICK x \in stack[n].terms :
               /\ \A p : p # c => (p \in v.vec <=> p \in x.vec)
               /\ c \in v.vec <=> ~(c \in x.vec <=> t \in x.vec)
    BY <1>2
  <2>3. q \in w.vec <=> q \in x.vec
    BY DEF Pieces, Agree
  <2>4. CASE q # c
    BY <2>1, <2>2, <2>3, <2>4
  <2>5. CASE q = c
    <3>1. stack[n].target = t
      BY <1>3, <2>5
    <3>2. t \in w.vec /\ t \in x.vec
      BY <1>3, <3>1 DEF PlainTargets
    <3>3. QED
      BY <2>1, <2>2, <2>3, <2>5, <3>2
  <2>6. QED
    BY <2>4, <2>5
<1>5. Agree(stack')
  BY <1>1, <1>4 DEF Agree
<1>6. NoTargetYet(stack')
  BY <1>1, <1>3 DEF NoTargetYet
<1>7. ASSUME NEW n \in 1 .. Len(stack), NEW m \in 1 .. n - 1,
             stack[m].target # stack[n].target, NEW u \in stack'[m].terms
      PROVE  u.vec \subseteq stack[n].remaining_indices
  <2>1. m \in 1 .. Len(stack)
    BY <1>1
  <2>2. PICK w \in stack[m].terms :
               /\ \A p : p # c => (p \in u.vec <=> p \in w.vec)
               /\ c \in u.vec <=> ~(c \in w.vec <=> t \in w.vec)
    BY <1>2, <2>1
  <2>3. w.vec \subseteq stack[n].remaining_indices
    BY <1>7 DEF Pieces, Avoid
  <2>4. CASE t # stack[n].target
    BY <1>3, <2>2, <2>3, <2>4
  <2>5. CASE t = stack[n].target
    <3>1. t \notin w.vec
      BY <1>3, <1>7, <2>5 DEF PlainTargets
    <3>2. QED
      BY <2>2, <2>3, <3>1
  <2>6. QED
    BY <2>4, <2>5
<1>8. Avoid(stack')
  <2>1. \A n \in 1 .. Len(stack) : \A m \in 1 .. n - 1 : m \in 1 .. Len(stack)
    BY <1>1
  <2>2. QED
    BY <1>1, <1>7, <2>1 DEF Avoid
<1>9. InHandAvoids(stack', part')
  BY <1>1 DEF InHandAvoids
<1>10. QED
  BY <1>5, <1>6, <1>8, <1>9 DEF Pieces

LEMMA GrayStep == IInv /\ GrayInv /\ [Next]_vars => GrayInv'
<1> SUFFICES ASSUME IInv, GrayInv, [Next]_vars PROVE GrayInv'
  OBVIOUS
<1>1. phases' = phases /\ method' = method
  BY DEF Next, vars, input, DropEmpty, TakeSingle, Control, Fill, FillDone, Zero, EmitPhase,
         Split, Restart, LinearTrans
<1>2. SUFFICES ASSUME method = "gray"
               PROVE  Pieces(stack') /\ (Busy' => InHandAvoids(stack', part'))
  BY <1>1 DEF GrayInv
<1>3. TypeOK /\ Pieces(stack) /\ (Busy => InHandAvoids(stack, part))
  BY <1>2 DEF IInv, GrayInv
<1>4. CASE DropEmpty
  <2>1. Pieces(stack')
    BY <1>3, <1>4, TailPieces DEF DropEmpty
  <2>2. ~Busy'
    BY <1>4 DEF DropEmpty, Busy
  <2>3. QED
    BY <2>1, <2>2
<1>5. CASE TakeSingle
  <2>1. PICK t \in Front.terms : part'.target = Front.target /\ part'.vec = t.vec
    BY <1>5 DEF TakeSingle
  <2>2. /\ Pieces(stack')
        /\ \A p : p.target = Front.target /\ p.vec = t.vec => InHandAvoids(stack', p)
    BY <1>3, <1>5, <2>1, TailPieces DEF TakeSingle
  <2>3. QED
    BY <2>1, <2>2
<1>6. CASE Control
  <2>1. /\ Busy /\ Busy' /\ part' = part /\ pc = "controls"
        /\ part.vec \subseteq Qubits /\ part.target \in part.vec
    BY <1>6, LoopStep DEF IInv, PartInv
  <2>2. CASE pos # part.target /\ pos \in part.vec
    <3>1. EmitCNOT(pos, part.target)
      BY <1>6, <2>2 DEF Control
    <3>2. PlainTargets(stack)
      BY <2>1, OpenIdle, PlainTargetsBefore DEF IInv
    <3>3. pos \in Qubits /\ part.target \in Qubits
      BY <2>1, <2>2
    <3>4. PICK c, t : c = pos /\ t = part.target
      OBVIOUS
    <3>5. c \in part.vec /\ c \in Qubits /\ t \in Qubits /\ c # t /\ EmitCNOT(c, t)
      BY <2>2, <3>1, <3>3, <3>4
    <3>6. Pieces(stack') /\ InHandAvoids(stack', part')
      BY <1>3, <2>1, <3>2, <3>4, <3>5, ControlPieces
    <3>7. QED
      BY <3>6
  <2>3. CASE ~(pos # part.target /\ pos \in part.vec)
    <3>1. stack' = stack
      BY <1>6, <2>3 DEF Control
    <3>2. QED
      BY <1>3, <2>1, <3>1
  <2>4. QED
    BY <2>2, <2>3
<1>7. CASE Fill \/ Zero
  BY <1>2, <1>7, LoopStep
<1>8. CASE FillDone
  <2>1. method = "steiner"
    BY <1>8 DEF FillDone, IInv, PartInv, Busy
  <2>2. QED
    BY <1>2, <2>1
<1>9. CASE EmitPhase
  BY <1>3, <1>9 DEF EmitPhase, Busy
<1>10. CASE Split
  <2>1. Pieces(stack')
    BY <1>3, <1>10, SplitPieces
  <2>2. ~Busy'
    BY <1>10 DEF Split, Busy
  <2>3. QED
    BY <2>1, <2>2
<1>11. CASE Restart
  BY <1>2, <1>11 DEF Restart
<1>12. CASE LinearTrans
  BY <1>3, <1>12 DEF LinearTrans, Busy
<1>13. CASE UNCHANGED vars
  BY <1>3, <1>13 DEF vars, loop, Busy
<1>14. QED
  BY <1>4, <1>5, <1>6, <1>7, <1>8, <1>9, <1>10, <1>11, <1>12, <1>13 DEF Next

LEMMA InitGray == Init => GrayInv
<1> SUFFICES ASSUME Init PROVE GrayInv
  OBVIOUS
<1>1. /\ Len(stack) = 1 /\ stack[1].remaining_indices = Qubits
      /\ stack[1].terms = {[vec |-> p, angle |-> p] : p \in phases}
      /\ phases \in PhaseSets /\ ~Busy
  BY DEF Init, Partition, Busy
<1>2. \A n \in 1 .. Len(stack) : n = 1 /\ \A m \in 1 .. n - 1 : FALSE
  BY <1>1
<1>3. \A t \in stack[1].terms : t.vec \subseteq Qubits
  <2>1. phases \subseteq SUBSET Qubits
    BY <1>1, InputAssumption
  <2>2. QED
    BY <1>1, <2>1
<1>4. Pieces(stack)
  BY <1>1, <1>2, <1>3 DEF Pieces, Agree, NoTargetYet, Avoid
<1>5. QED
  BY <1>1, <1>4 DEF GrayInv

(* gray_synth never runs out of indices to pivot on while a partition has  *)
(* several vectors, or no target: the exception is never thrown, and the   *)
(* single term that is left always has a qubit to be computed on.          *)
THEOREM AlwaysAPivot == Spec => []NeverThrows
<1>1. IInv /\ GrayInv => NeverThrows
  <2> SUFFICES ASSUME IInv, GrayInv, stack # <<>>, method = "gray",
                      NEW t \in Front.terms, Front.remaining_indices = {}
               PROVE  IsSingle
    BY DEF NeverThrows
  <2>1. /\ Front = stack[1] /\ 1 \in 1 .. Len(stack) /\ TypeOK /\ Pieces(stack)
        /\ \A u \in Front.terms : u \in Terms
    BY TailFacts DEF IInv, GrayInv, Partitions
  <2>2. \A u \in Front.terms : u.vec \in SUBSET Qubits /\ Parity(state, u.vec) = u.angle
    BY <2>1 DEF IInv, TermsTracked, Terms
  <2>3. \A u \in Front.terms : u.vec = t.vec
    <3>1. ASSUME NEW u \in Front.terms PROVE u.vec = t.vec
      <4>1. \A q \in Qubits : q \in u.vec <=> q \in t.vec
        BY <2>1 DEF Pieces, Agree
      <4>2. QED
        BY <2>2, <4>1
    <3>2. QED
      BY <3>1
  <2>4. \A u \in Front.terms : u = t
    BY <2>1, <2>2, <2>3 DEF Terms
  <2>5. Front.target # None
    <3>1. SUFFICES ASSUME Front.target = None PROVE FALSE
      OBVIOUS
    <3>2. t.vec = {}
      BY <2>1, <3>1 DEF Pieces, NoTargetYet
    <3>3. Parity(state, {}) = {}
      <4>1. \A x : {q \in {} : x \in state[q]} = {}
        OBVIOUS
      <4>2. QED
        BY <4>1, OddSmall DEF Parity
    <3>4. t.angle = {}
      BY <2>2, <3>2, <3>3
    <3>5. {} \in phases
      BY <2>1, <3>4 DEF IInv, Kept
    <3>6. QED
      BY <3>5, InputAssumption DEF GrayInv
  <2>6. QED
    BY <2>4, <2>5 DEF IsSingle
<1>2. Spec => []IInv
  BY Invariance
<1>3. QED
  BY <1>1, <1>2, InitGray, GrayStep, PTL DEF Spec

=============================================================================
