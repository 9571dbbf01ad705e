------------------------- MODULE ResynthesisProofs -------------------------
(***************************************************************************)
(* Proofs about Resynthesis, for every set of programs and both passes.    *)
(***************************************************************************)
EXTENDS Resynthesis, FiniteSetTheorems, TLAPS

-----------------------------------------------------------------------------
(* Parities.                                                               *)

Odd(S) == Cardinality(S) % 2 = 1

LEMMA OddOfSum ==
  \A a, b, c \in Nat : (a + b) % 2 = 1 <=> ~((a + c) % 2 = 1 <=> (b + c) % 2 = 1)
OBVIOUS

(* Whether a symmetric difference has an odd number of elements. *)
LEMMA OddXor ==
  ASSUME NEW A, NEW B, IsFiniteSet(A), IsFiniteSet(B)
  PROVE  Odd(Xor(A, B)) <=> ~(Odd(A) <=> Odd(B))
<1> DEFINE a == Cardinality(A \ B)
           b == Cardinality(B \ A)
           c == Cardinality(A \cap B)
<1>1. /\ IsFiniteSet(A \ B) /\ IsFiniteSet(B \ A) /\ IsFiniteSet(A \cap B)
  <2>1. A \ B \subseteq A /\ B \ A \subseteq B /\ A \cap B \subseteq A
    OBVIOUS
  <2>2. QED
    BY <2>1, FS_Subset
<1>2. a \in Nat /\ b \in Nat /\ c \in Nat
  BY <1>1, FS_CardinalityType
<1>3. ASSUME NEW S, NEW T, IsFiniteSet(S), IsFiniteSet(T), S \cap T = {}
      PROVE  Cardinality(S \cup T) = Cardinality(S) + Cardinality(T)
  <2>1. Cardinality({}) = 0 /\ Cardinality(S) \in Nat /\ Cardinality(T) \in Nat
    BY <1>3, FS_EmptySet, FS_CardinalityType
  <2>2. Cardinality(S \cup T) = Cardinality(S) + Cardinality(T) - Cardinality(S \cap T)
    BY <1>3, FS_Union
  <2>3. Cardinality(S \cap T) = 0
    BY <1>3, <2>1
  <2>4. QED
    BY <2>1, <2>2, <2>3
<1>4. Cardinality(Xor(A, B)) = a + b
  <2>1. (A \ B) \cap (B \ A) = {}
    OBVIOUS
  <2>2. QED
    BY <1>1, <1>3, <2>1 DEF Xor
<1>5. Cardinality(A) = a + c
  <2>1. (A \ B) \cap (A \cap B) = {} /\ A = (A \ B) \cup (A \cap B)
    OBVIOUS
  <2>2. QED
    BY <1>1, <1>3, <2>1
<1>6. Cardinality(B) = b + c
  <2>1. (B \ A) \cap (A \cap B) = {} /\ B = (B \ A) \cup (A \cap B)
    OBVIOUS
  <2>2. QED
    BY <1>1, <1>3, <2>1
<1>7. (a + b) % 2 = 1 <=> ~((a + c) % 2 = 1 <=> (b + c) % 2 = 1)
  BY <1>2, OddOfSum
<1>8. QED
  BY <1>4, <1>5, <1>6, <1>7 DEF Odd

LEMMA OddSmall == ~Odd({}) /\ \A a : Odd({a})
<1>1. Cardinality({}) = 0 /\ \A a : Cardinality({a}) = 1
  BY FS_EmptySet, FS_Singleton
<1>2. QED
  BY <1>1 DEF Odd

(* the qubits of S whose value has the variable x *)
Carriers(v, S, x) == {q \in S : x \in v[q]}

LEMMA CarriersFinite ==
  ASSUME NEW v, NEW S \in SUBSET Names, NEW x
  PROVE  IsFiniteSet(Carriers(v, S, x))
<1>1. Carriers(v, S, x) \subseteq Names
  BY DEF Carriers
<1>2. QED
  BY <1>1, NamesAssumption, FS_Subset

LEMMA InParity ==
  ASSUME NEW v, NEW S, NEW x
  PROVE  x \in Parity(v, S) <=> Odd(Carriers(v, S, x))
<1>1. CASE x \in UNION {v[q] : q \in S}
  BY <1>1 DEF Parity, Odd, Carriers
<1>2. CASE x \notin UNION {v[q] : q \in S}
  <2>1. Carriers(v, S, x) = {}
    BY <1>2 DEF Carriers
  <2>2. QED
    BY <1>2, <2>1, OddSmall DEF Parity
<1>3. QED
  BY <1>1, <1>2

(* The parity of a set is linear. *)
LEMMA ParityXor ==
  ASSUME NEW v, NEW S \in SUBSET Names, NEW T \in SUBSET Names
  PROVE  Parity(v, Xor(S, T)) = Xor(Parity(v, S), Parity(v, T))
<1>1. ASSUME NEW x
      PROVE  x \in Parity(v, Xor(S, T)) <=> x \in Xor(Parity(v, S), Parity(v, T))
  <2>1. Carriers(v, Xor(S, T), x) = Xor(Carriers(v, S, x), Carriers(v, T, x))
    BY DEF Carriers, Xor
  <2>2. Odd(Carriers(v, Xor(S, T), x)) <=> ~(Odd(Carriers(v, S, x)) <=> Odd(Carriers(v, T, x)))
    BY <2>1, CarriersFinite, OddXor
  <2>3. QED
    BY <2>2, InParity DEF Xor
<1>2. QED
  BY <1>1

LEMMA ParityOfOne ==
  ASSUME NEW v, NEW q
  PROVE  Parity(v, {q}) = v[q]
<1>1. ASSUME NEW x PROVE x \in Parity(v, {q}) <=> x \in v[q]
  <2>1. CASE x \in v[q]
    <3>1. Carriers(v, {q}, x) = {q}
      BY <2>1 DEF Carriers
    <3>2. QED
      BY <2>1, <3>1, OddSmall, InParity
  <2>2. CASE x \notin v[q]
    <3>1. Carriers(v, {q}, x) = {}
      BY <2>2 DEF Carriers
    <3>2. QED
      BY <2>2, <3>1, OddSmall, InParity
  <2>3. QED
    BY <2>1, <2>2
<1>2. QED
  BY <1>1

LEMMA ParityType ==
  ASSUME NEW X, NEW v \in [Names -> SUBSET X], NEW S \in SUBSET Names
  PROVE  Parity(v, S) \in SUBSET X
BY DEF Parity

(* Rows after a CNOT add up to what other rows added up to before it. *)
LEMMA RowsAfterCNOT ==
  ASSUME NEW v \in [Names -> SUBSET Names], NEW c \in Names, NEW t \in Names, c # t,
         NEW w, w[t] = Xor(v[t], v[c]), \A q \in Names : q # t => w[q] = v[q],
         NEW S \in SUBSET Names, NEW U \in SUBSET Names,
         t \in S => U = Xor(S, {c}), t \notin S => U = S
  PROVE  Parity(w, S) = Parity(v, U)
<1>1. w[t] = Xor(v[t], v[c]) /\ \A q \in Names : q # t => w[q] = v[q]
  OBVIOUS
<1>2. ASSUME NEW x PROVE Odd(Carriers(w, S, x)) <=> Odd(Carriers(v, U, x))
  <2>1. CASE t \in S /\ x \in v[c]
    <3>1. \A q \in Names :
            q \in Carriers(w, S, x) <=> q \in Xor(Xor(Carriers(v, S, x), {c}), Xor({c}, {t}))
      BY <1>1, <2>1 DEF Carriers, Xor
    <3>2. Carriers(w, S, x) = Xor(Xor(Carriers(v, S, x), {c}), Xor({c}, {t}))
      <4>1. Carriers(w, S, x) \subseteq Names /\ Carriers(v, S, x) \subseteq Names
        BY DEF Carriers
      <4>2. QED
        BY <3>1, <4>1 DEF Xor
    <3>3. Carriers(v, U, x) = Xor(Carriers(v, S, x), {c})
      BY <2>1 DEF Carriers, Xor
    <3>4. IsFiniteSet(Carriers(v, U, x))
      BY CarriersFinite DEF Xor
    <3>5. ~Odd(Xor({c}, {t})) /\ IsFiniteSet(Xor({c}, {t}))
      <4>1. IsFiniteSet({c}) /\ IsFiniteSet({t})
        BY FS_Singleton
      <4>2. ~Odd(Xor({c}, {t}))
        BY <4>1, OddXor, OddSmall
      <4>3. Xor({c}, {t}) \subseteq Names
        BY DEF Xor
      <4>4. QED
        BY <4>2, <4>3, NamesAssumption, FS_Subset
    <3>6. QED
      BY <3>2, <3>3, <3>4, <3>5, OddXor
  <2>2. CASE ~(t \in S /\ x \in v[c])
    <3>1. Carriers(w, S, x) = Carriers(v, U, x)
      BY <1>1, <2>2 DEF Carriers, Xor
    <3>2. QED
      BY <3>1
  <2>3. QED
    BY <2>1, <2>2
<1>3. ASSUME NEW x PROVE x \in Parity(w, S) <=> x \in Parity(v, U)
  BY <1>2, InParity
<1>4. QED
  BY <1>3

-----------------------------------------------------------------------------
(* What is collected, as the effect of a circuit.                          *)

RowsType   == [Names -> SUBSET Names]
ValuesType == [Names -> Values]

LEMMA AfterCircuitType ==
  ASSUME NEW v \in ValuesType, NEW rows \in RowsType
  PROVE  AfterCircuit(v, rows) \in ValuesType
<1>1. \A q \in Names : Parity(v, rows[q]) \in Values
  <2>1. \A S \in SUBSET Names : Parity(v, S) \in SUBSET Variables
    BY ParityType DEF ValuesType, Values
  <2>2. QED
    BY <2>1 DEF RowsType, Values
<1>2. QED
  BY <1>1 DEF AfterCircuit, ValuesType

LEMMA IdentityType == Identity \in RowsType
BY DEF Identity, RowsType

LEMMA AfterIdentity ==
  ASSUME NEW v \in ValuesType
  PROVE  AfterCircuit(v, Identity) = v
<1>1. \A q \in Names : Parity(v, Identity[q]) = v[q]
  BY ParityOfOne DEF Identity
<1>2. v = [q \in Names |-> v[q]]
  BY DEF ValuesType
<1>3. QED
  BY <1>1, <1>2 DEF AfterCircuit

LEMMA AfterCollectedCNOT ==
  ASSUME NEW v \in ValuesType, NEW rows \in RowsType, NEW c \in Names, NEW t \in Names
  PROVE  AfterCircuit(v, [rows EXCEPT ![t] = Xor(@, rows[c])])
           = [AfterCircuit(v, rows) EXCEPT ![t] = Xor(@, AfterCircuit(v, rows)[c])]
<1> DEFINE new == [rows EXCEPT ![t] = Xor(@, rows[c])]
<1>1. Parity(v, new[t]) = Xor(Parity(v, rows[t]), Parity(v, rows[c]))
  <2>1. new[t] = Xor(rows[t], rows[c]) /\ rows[t] \in SUBSET Names /\ rows[c] \in SUBSET Names
    BY DEF RowsType
  <2>2. QED
    BY <2>1, ParityXor
<1>2. \A q \in Names : q # t => new[q] = rows[q]
  BY DEF RowsType
<1>3. QED
  <2> HIDE DEF new
  <2>1. AfterCircuit(v, new) = [AfterCircuit(v, rows) EXCEPT ![t] = Xor(@, AfterCircuit(v, rows)[c])]
    BY <1>1, <1>2 DEF AfterCircuit
  <2>2. QED
    BY <2>1 DEF new

LEMMA PhasesOfType ==
  ASSUME NEW sc \in Scopes, NEW v \in ValuesType, NEW terms \in SUBSET Term
  PROVE  PhasesOf(sc, v, terms) \subseteq Scopes \X Values \X Ids
<1>1. ASSUME NEW t \in terms, NEW id \in t.angle
      PROVE  <<sc, Parity(v, t.vec), id>> \in Scopes \X Values \X Ids
  <2>1. t.vec \in SUBSET Names /\ id \in Ids
    BY DEF Term
  <2>2. Parity(v, t.vec) \in SUBSET Variables
    BY <2>1, ParityType DEF ValuesType, Values
  <2>3. QED
    BY <2>1, <2>2 DEF Values
<1>2. QED
  BY <1>1 DEF PhasesOf

LEMMA InPhasesOf ==
  ASSUME NEW sc, NEW v, NEW terms, NEW x
  PROVE  x \in PhasesOf(sc, v, terms)
           <=> \E t \in terms : \E id \in t.angle : x = <<sc, Parity(v, t.vec), id>>
BY DEF PhasesOf

LEMMA AddPhaseType ==
  ASSUME NEW terms \in SUBSET Term, NEW row \in SUBSET Names, NEW id \in Ids
  PROVE  AddPhase(terms, row, id) \in SUBSET Term
<1>1. {id} \cup UNION {t.angle : t \in {u \in terms : u.vec = row}} \in SUBSET Ids
  BY DEF Term
<1>2. QED
  BY <1>1 DEF AddPhase, Term

(* Adding up angles at a parity adds one phase, at the parity's value. *)
LEMMA AfterCollectedPhase ==
  ASSUME NEW sc, NEW v, NEW terms, NEW row, NEW id
  PROVE  PhasesOf(sc, v, AddPhase(terms, row, id))
           = PhasesOf(sc, v, terms) \cup {<<sc, Parity(v, row), id>>}
<1> DEFINE same == {t \in terms : t.vec = row}
           sum  == [vec |-> row, angle |-> {id} \cup UNION {t.angle : t \in same}]
<1>1. AddPhase(terms, row, id) = (terms \ same) \cup {sum}
  BY DEF AddPhase
<1>2. sum.vec = row /\ sum.angle = {id} \cup UNION {t.angle : t \in same}
  OBVIOUS
<1>3. ASSUME NEW x
      PROVE  (\E i \in sum.angle : x = <<sc, Parity(v, sum.vec), i>>)
               <=> \/ x = <<sc, Parity(v, row), id>>
                   \/ \E t \in same : \E i \in t.angle : x = <<sc, Parity(v, t.vec), i>>
  <2> HIDE DEF sum
  <2>1. \A t \in same : t.vec = row
    OBVIOUS
  <2> HIDE DEF same
  <2>2. QED
    BY <1>2, <2>1
<1>4. ASSUME NEW x
      PROVE  x \in PhasesOf(sc, v, AddPhase(terms, row, id))
               <=> x \in PhasesOf(sc, v, terms) \cup {<<sc, Parity(v, row), id>>}
  <2>1. x \in PhasesOf(sc, v, AddPhase(terms, row, id))
          <=> \/ \E t \in terms \ same : \E i \in t.angle : x = <<sc, Parity(v, t.vec), i>>
              \/ \E i \in sum.angle : x = <<sc, Parity(v, sum.vec), i>>
    <3> HIDE DEF sum, same
    <3>1. QED
      BY <1>1, InPhasesOf
  <2>2. x \in PhasesOf(sc, v, terms)
          <=> \/ \E t \in terms \ same : \E i \in t.angle : x = <<sc, Parity(v, t.vec), i>>
              \/ \E t \in same : \E i \in t.angle : x = <<sc, Parity(v, t.vec), i>>
    <3>1. terms = (terms \ same) \cup same
      OBVIOUS
    <3> HIDE DEF same
    <3>2. QED
      BY <3>1, InPhasesOf
  <2>3. QED
    BY <1>3, <2>1, <2>2
<1>5. QED
  BY <1>4

-----------------------------------------------------------------------------
(* The inductive invariant: types, and what the synthesis relies on, also  *)
(* for the main body while a gate body is visited.                         *)

Invertible(rows) == \A S \in (SUBSET Names) \ {{}} : Parity(rows, S) # {}

Splittable(terms) ==
  /\ {} \notin {t.vec : t \in terms}
  /\ \A t, u \in terms : t.vec = u.vec => t = u

IInv ==
  /\ TypeOK
  /\ todo \in Seq(Statement)
  /\ Invertible(permutation) /\ Invertible(outer[1])
  /\ Splittable(pending) /\ Splittable(outer[2])

LEMMA IdentityInvertible == Invertible(Identity)
<1> SUFFICES ASSUME NEW S \in (SUBSET Names) \ {{}} PROVE Parity(Identity, S) # {}
  BY DEF Invertible
<1>1. PICK x \in S : TRUE
  OBVIOUS
<1>2. Carriers(Identity, S, x) = {x}
  BY DEF Carriers, Identity
<1>3. QED
  BY <1>2, InParity, OddSmall

LEMMA CNOTInvertible ==
  ASSUME NEW rows \in RowsType, NEW c \in Names, NEW t \in Names, c # t, Invertible(rows)
  PROVE  Invertible([rows EXCEPT ![t] = Xor(@, rows[c])])
<1> SUFFICES ASSUME NEW S \in (SUBSET Names) \ {{}}
             PROVE  Parity([rows EXCEPT ![t] = Xor(@, rows[c])], S) # {}
  BY DEF Invertible
<1> DEFINE U == IF t \in S THEN Xor(S, {c}) ELSE S
           new == [rows EXCEPT ![t] = Xor(@, rows[c])]
<1>1. U \in (SUBSET Names) \ {{}}
  BY DEF Xor
<1>2. Parity(new, S) = Parity(rows, U)
  <2>1. rows \in [Names -> SUBSET Names] /\ S \in SUBSET Names
    BY DEF RowsType
  <2>2. new[t] = Xor(rows[t], rows[c]) /\ \A q \in Names : q # t => new[q] = rows[q]
    BY <2>1
  <2>3. (t \in S => U = Xor(S, {c})) /\ (t \notin S => U = S)
    OBVIOUS
  <2> HIDE DEF new, U
  <2>4. QED
    BY <1>1, <2>1, <2>2, <2>3, RowsAfterCNOT
<1>3. QED
  BY <1>1, <1>2 DEF Invertible

LEMMA RowsNotZero ==
  ASSUME NEW rows \in RowsType, Invertible(rows), NEW q \in Names
  PROVE  rows[q] # {}
<1>1. Parity(rows, {q}) = rows[q]
  BY ParityOfOne
<1>2. QED
  BY <1>1 DEF Invertible

LEMMA AddPhaseSplittable ==
  ASSUME NEW terms, Splittable(terms), NEW row, row # {}, NEW id
  PROVE  Splittable(AddPhase(terms, row, id))
BY DEF Splittable, AddPhase

LEMMA HeadOfTodo ==
  ASSUME todo \in Seq(Statement), todo # <<>>
  PROVE  Head(todo) \in Statement /\ Tail(todo) \in Seq(Statement)
OBVIOUS

LEMMA CNOTArguments ==
  ASSUME NEW s \in Statement, IsCNOT(s)
  PROVE  s.args[1] \in Names /\ s.args[2] \in Names /\ s.args[1] # s.args[2]
BY DEF Statement, IsCNOT

LEMMA PhaseArgument ==
  ASSUME NEW s \in Statement, s.op = "phase"
  PROVE  s.args[1] \in Names /\ s.id \in Ids
BY DEF Statement

LEMMA AfterCNOTType ==
  ASSUME NEW v \in ValuesType, NEW s \in Statement, IsCNOT(s)
  PROVE  AfterCNOT(v, s) \in ValuesType
<1>1. s.args[1] \in Names /\ s.args[2] \in Names
  BY CNOTArguments
<1>2. Xor(v[s.args[2]], v[s.args[1]]) \in Values
  BY <1>1 DEF ValuesType, Values, Xor
<1>3. QED
  BY <1>1, <1>2 DEF AfterCNOT, ValuesType

LEMMA AfterOtherType ==
  ASSUME NEW v \in ValuesType, NEW s \in Statement
  PROVE  AfterOther(v, s) \in ValuesType
<1>1. s.id \in Ids
  BY DEF Statement
<1>2. \A q \in Names : {<<q, s.id>>} \in Values
  BY <1>1 DEF Values, Variables
<1>3. QED
  BY <1>2 DEF AfterOther, ValuesType

LEMMA InitIInv == Init => IInv
<1> SUFFICES ASSUME Init PROVE IInv
  OBVIOUS
<1>1. todo \in Seq(Statement)
  BY ProgramAssumption DEF Init
<1>2. Start \in ValuesType
  <2>1. \A q \in Names : {<<q, 0>>} \in Values
    BY DEF Values, Variables
  <2>2. QED
    BY <2>1 DEF Start, ValuesType
<1>3. TypeOK
  BY <1>2, IdentityType, ScopesAssumption DEF Init, TypeOK, RowsType, ValuesType
<1>4. Splittable({})
  BY DEF Splittable
<1>5. QED
  BY <1>1, <1>3, <1>4, IdentityInvertible DEF Init, IInv

(* Visiting a statement keeps the types. *)
LEMMA StepTypes ==
  ASSUME IInv, todo # <<>>, NEW s, s = Head(todo),
         CollectCNOT(s) \/ CollectPhase(s) \/ Flush(s) \/ Enter(s) \/ Leave(s) \/ End(s)
  PROVE  TypeOK'
<1>1. s \in Statement
  BY HeadOfTodo DEF IInv
<1>2. /\ scope \in Scopes /\ permutation \in RowsType /\ pending \in SUBSET Term
      /\ outer \in RowsType \X SUBSET Term
      /\ value \in [Scopes -> ValuesType]
      /\ phases \subseteq Scopes \X Values \X Ids
  BY DEF IInv, TypeOK, RowsType, ValuesType
<1> DEFINE now == AfterCircuit(value[scope], permutation)
<1>3. value[scope] \in ValuesType /\ now \in ValuesType
  BY <1>2, AfterCircuitType
<1>4. PhasesOf(scope, value[scope], pending) \subseteq Scopes \X Values \X Ids
  BY <1>2, <1>3, PhasesOfType
<1> HIDE DEF now
<1>5. SUFFICES /\ scope' \in Scopes /\ permutation' \in RowsType /\ pending' \in SUBSET Term
               /\ outer' \in RowsType \X SUBSET Term
               /\ value' \in [Scopes -> ValuesType]
               /\ phases' \subseteq Scopes \X Values \X Ids
  BY DEF TypeOK, RowsType, ValuesType
<1>6. CASE CollectCNOT(s)
  <2>1. IsCNOT(s)
    BY <1>6 DEF CollectCNOT, Collects, IsCNOT
  <2>2. s.args[1] \in Names /\ s.args[2] \in Names
    BY <1>1, <2>1, CNOTArguments
  <2>3. Xor(permutation[s.args[2]], permutation[s.args[1]]) \in SUBSET Names
    BY <1>2, <2>2 DEF RowsType, Xor
  <2>4. permutation' \in RowsType
    BY <1>2, <1>6, <2>2, <2>3 DEF CollectCNOT, RowsType
  <2>5. QED
    BY <1>2, <1>6, <2>4 DEF CollectCNOT, output
<1>7. CASE CollectPhase(s)
  <2>1. s.op = "phase"
    BY <1>7 DEF CollectPhase
  <2>2. s.args[1] \in Names /\ s.id \in Ids
    BY <1>1, <2>1, PhaseArgument
  <2>3. permutation[s.args[1]] \in SUBSET Names
    BY <1>2, <2>2 DEF RowsType
  <2>4. pending' \in SUBSET Term
    BY <1>2, <1>7, <2>2, <2>3, AddPhaseType DEF CollectPhase
  <2>5. QED
    BY <1>2, <1>7, <2>4 DEF CollectPhase, output
<1>8. CASE Flush(s)
  <2>1. permutation' \in RowsType /\ pending' \in SUBSET Term /\ UNCHANGED <<scope, outer>>
    BY <1>8, IdentityType DEF Flush, Reset
  <2>2. CASE ~Runs(s, bit)
    BY <1>2, <1>8, <2>1, <2>2 DEF Flush, output
  <2>3. CASE Runs(s, bit)
    <3>1. AfterOther(now, s) \in ValuesType
      BY <1>1, <1>3, AfterOtherType
    <3>2. IsCNOT(s) => AfterCNOT(now, s) \in ValuesType
      BY <1>1, <1>3, AfterCNOTType
    <3>3. /\ \/ value' = [value EXCEPT ![scope] = AfterCNOT(now, s)] /\ IsCNOT(s)
             \/ value' = [value EXCEPT ![scope] = AfterOther(now, s)]
          /\ phases' = phases \cup PhasesOf(scope, value[scope], pending)
      BY <1>8, <2>3 DEF Flush, now
    <3>4. value' \in [Scopes -> ValuesType]
      BY <1>2, <3>1, <3>2, <3>3
    <3>5. QED
      BY <1>2, <1>4, <2>1, <3>3, <3>4
  <2>4. QED
    BY <2>2, <2>3
<1>9. CASE Enter(s)
  <2>1. s.args[1] \in Scopes
    BY <1>1, <1>9 DEF Enter, Statement
  <2>2. QED
    BY <1>2, <1>9, <2>1, IdentityType DEF Enter, Reset, collected, output
<1>10. CASE Leave(s)
  <2>1. value' \in [Scopes -> ValuesType]
    BY <1>2, <1>3, <1>10 DEF Leave, now
  <2>2. permutation' \in RowsType /\ pending' \in SUBSET Term
    BY <1>2, <1>10 DEF Leave
  <2>3. QED
    BY <1>2, <1>4, <1>10, <2>1, <2>2, IdentityType, ScopesAssumption DEF Leave
<1>11. CASE End(s)
  <2>1. value' \in [Scopes -> ValuesType]
    BY <1>2, <1>3, <1>11 DEF End, now
  <2>2. QED
    BY <1>2, <1>4, <1>11, <2>1, IdentityType DEF End, Reset
<1>12. QED
  BY <1>6, <1>7, <1>8, <1>9, <1>10, <1>11

LEMMA NextIInv == IInv /\ [Next]_vars => IInv'
<1> SUFFICES ASSUME IInv, [Next]_vars PROVE IInv'
  OBVIOUS
<1>1. CASE UNCHANGED vars
  BY <1>1 DEF vars, collected, output, IInv, TypeOK
<1>2. CASE Next
  <2> DEFINE s == Head(todo)
  <2>1. /\ todo # <<>> /\ todo' = Tail(todo)
        /\ CollectCNOT(s) \/ CollectPhase(s) \/ Flush(s) \/ Enter(s) \/ Leave(s) \/ End(s)
    BY <1>2 DEF Next
  <2>2. s \in Statement /\ todo' \in Seq(Statement)
    BY <2>1, HeadOfTodo DEF IInv
  <2>3. TypeOK'
    BY <2>1, StepTypes
  <2>4. permutation \in RowsType
    BY DEF IInv, TypeOK, RowsType
  <2> HIDE DEF s
  <2>5. Splittable({})
    BY DEF Splittable
  <2>6. /\ Invertible(permutation') /\ Invertible(outer'[1])
        /\ Splittable(pending') /\ Splittable(outer'[2])
    <3>1. CASE CollectCNOT(s)
      <4>1. IsCNOT(s)
        BY <3>1 DEF CollectCNOT, Collects, IsCNOT
      <4>2. s.args[1] \in Names /\ s.args[2] \in Names /\ s.args[1] # s.args[2]
        BY <2>2, <4>1, CNOTArguments
      <4>3. Invertible([permutation EXCEPT ![s.args[2]] = Xor(@, permutation[s.args[1]])])
        BY <2>4, <4>2, CNOTInvertible DEF IInv
      <4>4. QED
        BY <3>1, <4>3 DEF CollectCNOT, IInv
    <3>2. CASE CollectPhase(s)
      <4>1. s.args[1] \in Names
        BY <2>2, <3>2, PhaseArgument DEF CollectPhase
      <4>2. permutation[s.args[1]] # {}
        BY <2>4, <4>1, RowsNotZero DEF IInv
      <4>3. Splittable(AddPhase(pending, permutation[s.args[1]], s.id))
        BY <4>2, AddPhaseSplittable DEF IInv
      <4>4. QED
        BY <3>2, <4>3 DEF CollectPhase, IInv
    <3>3. CASE Flush(s)
      BY <2>5, <3>3, IdentityInvertible DEF Flush, Reset, IInv
    <3>4. CASE Enter(s)
      BY <2>5, <3>4, IdentityInvertible DEF Enter, Reset, collected, IInv
    <3>5. CASE Leave(s)
      BY <2>5, <3>5, IdentityInvertible DEF Leave, IInv
    <3>6. CASE End(s)
      BY <2>5, <3>6, IdentityInvertible DEF End, Reset, IInv
    <3>7. QED
      BY <2>1, <3>1, <3>2, <3>3, <3>4, <3>5, <3>6
  <2>7. QED
    BY <2>2, <2>3, <2>6 DEF IInv
<1>3. QED
  BY <1>1, <1>2

THEOREM Invariance == Spec => []IInv
BY InitIInv, NextIInv, PTL DEF Spec

(* The parities handed to the synthesis differ and are not zero. *)
THEOREM PhasesCanBeSplit == Spec => []TermsSplittable
<1>1. IInv => TermsSplittable
  BY DEF IInv, Splittable, TermsSplittable
<1>2. QED
  BY <1>1, Invariance, PTL

(* The operator handed to the synthesis can be inverted. *)
THEOREM OperatorStaysInvertible == Spec => []OperatorInvertible
<1>1. IInv => OperatorInvertible
  BY DEF IInv, Invertible, OperatorInvertible
<1>2. QED
  BY <1>1, Invariance, PTL

-----------------------------------------------------------------------------
(* The passes do what the program does, if no statement stands under an    *)
(* if.                                                                     *)

Unconditional == \A p \in Programs : \A n \in DOMAIN p : p[n].cond = FALSE

IfInv == \A n \in DOMAIN todo : todo[n].cond = FALSE

V == ValueOfProgram
PhasesHere      == PhasesOf(scope, value[scope], pending)
PhasesElsewhere == UNION {PhasesOf(sc, value[sc], Terms(sc)) : sc \in Scopes \ {scope}}

InScope == scope \in Scopes
Split   == PhasesOfProgram = phases \cup PhasesHere \cup PhasesElsewhere

LEMMA PhasesSplit == InScope => Split
<1> SUFFICES ASSUME scope \in Scopes
             PROVE  PhasesOfProgram = phases \cup PhasesHere \cup PhasesElsewhere
  BY DEF InScope, Split
<1>1. Terms(scope) = pending
  BY DEF Terms
<1>2. Scopes = (Scopes \ {scope}) \cup {scope}
  OBVIOUS
<1>3. ASSUME NEW x
      PROVE  (\E sc \in Scopes : x \in PhasesOf(sc, value[sc], Terms(sc)))
               <=> x \in PhasesHere \cup PhasesElsewhere
  BY <1>1, <1>2 DEF PhasesHere, PhasesElsewhere
<1>4. QED
  BY <1>3 DEF PhasesOfProgram

(* The phases of a scope are those applied in it and those collected there. *)
LEMMA PhasesInScope ==
  ASSUME scope \in Scopes
  PROVE  {p \in PhasesOfProgram : p[1] = scope}
           = {p \in phases \cup PhasesHere : p[1] = scope}
<1>1. ASSUME NEW p \in PhasesElsewhere PROVE p[1] # scope
  <2>1. PICK sc \in Scopes \ {scope} : p \in PhasesOf(sc, value[sc], Terms(sc))
    BY DEF PhasesElsewhere
  <2>2. p[1] = sc
    BY <2>1, InPhasesOf
  <2>3. QED
    BY <2>1, <2>2
<1>2. QED
  BY <1>1, PhasesSplit DEF InScope, Split

LEMMA ValueTypes ==
  ASSUME IInv
  PROVE  /\ scope \in Scopes /\ permutation \in RowsType
         /\ value \in [Scopes -> ValuesType]
         /\ value[scope] \in ValuesType
         /\ V[scope] = AfterCircuit(value[scope], permutation)
         /\ V[scope] \in ValuesType
<1>1. scope \in Scopes /\ permutation \in RowsType /\ value \in [Scopes -> ValuesType]
  BY DEF IInv, TypeOK, RowsType, ValuesType
<1>2. value[scope] \in ValuesType
  BY <1>1
<1>3. V[scope] = AfterCircuit(value[scope], permutation)
  BY <1>1 DEF V, ValueOfProgram, Rows
<1>4. QED
  BY <1>1, <1>2, <1>3, AfterCircuitType

LEMMA CNOTRefines ==
  ASSUME IInv, NEW s \in Statement, CollectCNOT(s)
  PROVE  /\ V' = [V EXCEPT ![scope] = AfterCNOT(@, s)]
         /\ PhasesOfProgram' = PhasesOfProgram
         /\ UNCHANGED <<scope, events>>
<1>1. IsCNOT(s)
  BY DEF CollectCNOT, Collects, IsCNOT
<1>2. s.args[1] \in Names /\ s.args[2] \in Names
  BY <1>1, CNOTArguments
<1>3. UNCHANGED <<scope, pending, outer, value, phases, events>>
  BY DEF CollectCNOT, output
<1>4. permutation' = [permutation EXCEPT ![s.args[2]] = Xor(@, permutation[s.args[1]])]
  BY DEF CollectCNOT
<1>5. AfterCircuit(value[scope], permutation') = AfterCNOT(V[scope], s)
  <2>1. value[scope] \in ValuesType /\ permutation \in RowsType
    BY ValueTypes
  <2>2. V[scope] = AfterCircuit(value[scope], permutation)
    BY ValueTypes
  <2>3. \A c, t \in Names :
          AfterCircuit(value[scope], [permutation EXCEPT ![t] = Xor(@, permutation[c])])
            = [AfterCircuit(value[scope], permutation)
                 EXCEPT ![t] = Xor(@, AfterCircuit(value[scope], permutation)[c])]
    BY <2>1, AfterCollectedCNOT
  <2>4. QED
    BY <1>2, <1>4, <2>2, <2>3 DEF AfterCNOT
<1>6. V'[scope] = AfterCNOT(V[scope], s)
  BY <1>3, <1>5, ValueTypes DEF V, ValueOfProgram, Rows
<1>7. \A sc \in Scopes : sc # scope => V'[sc] = V[sc]
  BY <1>3 DEF V, ValueOfProgram, Rows
<1>8. V' = [V EXCEPT ![scope] = AfterCNOT(@, s)]
  BY <1>6, <1>7, ValueTypes DEF V, ValueOfProgram
<1>9. PhasesOfProgram' = PhasesOfProgram
  BY <1>3 DEF PhasesOfProgram, Terms
<1>10. QED
  BY <1>3, <1>8, <1>9

LEMMA PhaseRefines ==
  ASSUME IInv, NEW s \in Statement, CollectPhase(s)
  PROVE  /\ V' = V
         /\ PhasesOfProgram' = PhasesOfProgram \cup {<<scope, V[scope][s.args[1]], s.id>>}
         /\ UNCHANGED <<scope, events>>
<1>1. s.args[1] \in Names
  BY PhaseArgument DEF CollectPhase
<1>2. UNCHANGED <<scope, permutation, outer, value, phases, events>>
  BY DEF CollectPhase, output
<1>3. V' = V
  BY <1>2 DEF V, ValueOfProgram, Rows
<1>4. pending' = AddPhase(pending, permutation[s.args[1]], s.id)
  BY DEF CollectPhase
<1>5. Parity(value[scope], permutation[s.args[1]]) = V[scope][s.args[1]]
  BY <1>1, ValueTypes DEF AfterCircuit
<1>6. PhasesHere' = PhasesHere \cup {<<scope, V[scope][s.args[1]], s.id>>}
  BY <1>2, <1>4, <1>5, AfterCollectedPhase DEF PhasesHere
<1>7. PhasesElsewhere' = PhasesElsewhere
  BY <1>2 DEF PhasesElsewhere, Terms
<1>8. Split /\ Split'
  <2>1. InScope /\ InScope'
    BY <1>2, ValueTypes DEF InScope
  <2>2. QED
    BY <2>1, PhasesSplit, PTL
<1>9. QED
  BY <1>2, <1>3, <1>6, <1>7, <1>8 DEF Split

(* Emitting the circuit for what was collected in the scope changes        *)
(* nothing but that it is no longer collected.                             *)
LEMMA EmptiedScope ==
  ASSUME IInv, IInv', scope' = scope, outer' = outer, Reset,
         phases' = phases \cup PhasesHere,
         NEW new, value' = [value EXCEPT ![scope] = new]
  PROVE  /\ V' = [V EXCEPT ![scope] = new]
         /\ PhasesOfProgram' = PhasesOfProgram
<1>1. permutation' = Identity /\ pending' = {} /\ scope \in Scopes
  BY ValueTypes DEF Reset
<1>2. value'[scope] = new
  BY <1>1, ValueTypes
<1>3. V'[scope] = new
  <2>1. new \in ValuesType
    BY <1>1, <1>2 DEF IInv, TypeOK, ValuesType
  <2>2. V'[scope] = AfterCircuit(value'[scope], permutation')
    BY <1>1 DEF V, ValueOfProgram, Rows
  <2>3. QED
    BY <1>1, <1>2, <2>1, <2>2, AfterIdentity
<1>4. \A sc \in Scopes : sc # scope => V'[sc] = V[sc]
  BY ValueTypes DEF V, ValueOfProgram, Rows
<1>5. V' = [V EXCEPT ![scope] = new]
  BY <1>3, <1>4 DEF V, ValueOfProgram
<1>6. PhasesHere' = {}
  BY <1>1 DEF PhasesHere, PhasesOf
<1>7. PhasesElsewhere' = PhasesElsewhere
  <2>1. \A sc \in Scopes \ {scope} : value'[sc] = value[sc] /\ Terms(sc)' = Terms(sc)
    BY ValueTypes DEF Terms
  <2>2. QED
    BY <2>1 DEF PhasesElsewhere
<1>8. Split /\ Split'
  <2>1. InScope /\ InScope'
    BY <1>1 DEF InScope
  <2>2. QED
    BY <2>1, PhasesSplit, PTL
<1>9. QED
  BY <1>5, <1>6, <1>7, <1>8 DEF Split

LEMMA NoIf ==
  IInv /\ IfInv /\ todo # <<>> => ~Head(todo).cond
BY DEF IInv, IfInv

LEMMA InitIfInv == ASSUME Unconditional PROVE Init => IfInv
BY DEF Unconditional, Init, IfInv

LEMMA NextIfInv == IInv /\ IfInv /\ [Next]_vars => IfInv'
<1> SUFFICES ASSUME IInv, IfInv, [Next]_vars PROVE IfInv'
  OBVIOUS
<1>1. CASE UNCHANGED vars
  BY <1>1 DEF vars, IfInv
<1>2. CASE Next
  <2>1. todo \in Seq(Statement) /\ todo # <<>> /\ todo' = Tail(todo)
    BY <1>2 DEF Next, IInv
  <2>2. \A n \in DOMAIN Tail(todo) : n + 1 \in DOMAIN todo /\ Tail(todo)[n] = todo[n + 1]
    BY <2>1
  <2>3. QED
    BY <2>1, <2>2 DEF IfInv
<1>3. QED
  BY <1>1, <1>2

LEMMA SameDefinitions ==
  /\ Ideal!Statement = Statement
  /\ Ideal!Start = Start
BY DEF Ideal!Statement, Statement, Ideal!Start, Start

LEMMA InitRefines == Init => Ideal!Init
<1> SUFFICES ASSUME Init PROVE Ideal!Init
  OBVIOUS
<1>1. IInv
  BY InitIInv
<1>2. todo \in Seq(Ideal!Statement)
  BY <1>1, SameDefinitions DEF IInv
<1>3. \A sc \in Scopes : Rows(sc) = Identity /\ Terms(sc) = {}
  BY DEF Init, Rows, Terms
<1>4. V = [sc \in Scopes |-> Ideal!Start]
  <2>1. \A sc \in Scopes : value[sc] = Start /\ value[sc] \in ValuesType
    BY <1>1 DEF Init, IInv, TypeOK, ValuesType
  <2>2. \A sc \in Scopes : AfterCircuit(value[sc], Rows(sc)) = Start
    BY <1>3, <2>1, AfterIdentity
  <2>3. QED
    BY <2>2, SameDefinitions DEF V, ValueOfProgram
<1>5. PhasesOfProgram = {}
  <2>1. \A sc \in Scopes : PhasesOf(sc, value[sc], Terms(sc)) = {}
    BY <1>3 DEF PhasesOf
  <2>2. QED
    BY <2>1 DEF PhasesOfProgram, Init
<1>6. QED
  BY <1>2, <1>4, <1>5 DEF Init, Ideal!Init, V

(* A statement that is kept, after what was collected before it *)
LEMMA FlushRefines ==
  ASSUME IInv, IInv', NEW s \in Statement, Flush(s), ~s.cond
  PROVE  Ideal!CNOT(s) \/ Ideal!Other(s)
<1>1. Runs(s, bit) /\ Ideal!Runs(s, bit)
  BY DEF Runs, Ideal!Runs
<1>2. scope' = scope /\ outer' = outer /\ Reset
  BY DEF Flush
<1>3. phases' = phases \cup PhasesHere
  BY <1>1 DEF Flush, PhasesHere
<1>4. CASE IsCNOT(s)
  <2>1. value' = [value EXCEPT ![scope] = AfterCNOT(V[scope], s)] /\ events' = events
    BY <1>1, <1>4, ValueTypes DEF Flush
  <2>2. V' = [V EXCEPT ![scope] = AfterCNOT(V[scope], s)] /\ PhasesOfProgram' = PhasesOfProgram
    BY <1>2, <1>3, <2>1, EmptiedScope
  <2>3. QED
    BY <1>1, <1>2, <1>4, <2>1, <2>2
    DEF Ideal!CNOT, Ideal!IsCNOT, IsCNOT, Ideal!AfterCNOT, AfterCNOT, Ideal!Xor, Xor, V
<1>5. CASE ~IsCNOT(s)
  <2>1. /\ s.op = "other"
        /\ value' = [value EXCEPT ![scope] = AfterOther(V[scope], s)]
        /\ events' = Append(events, Event(s, V[scope], {p \in phases \cup PhasesHere : p[1] = scope}))
    BY <1>1, <1>3, <1>5, ValueTypes DEF Flush, PhasesHere
  <2>2. V' = [V EXCEPT ![scope] = AfterOther(V[scope], s)] /\ PhasesOfProgram' = PhasesOfProgram
    BY <1>2, <1>3, <2>1, EmptiedScope
  <2>3. {p \in PhasesOfProgram : p[1] = scope} = {p \in phases \cup PhasesHere : p[1] = scope}
    BY PhasesInScope, ValueTypes
  <2>4. events' = Append(events, Event(s, V[scope], {p \in PhasesOfProgram : p[1] = scope}))
    BY <2>1, <2>3
  <2>5. QED
    BY <1>1, <1>2, <2>1, <2>2, <2>4
    DEF Ideal!Other, Ideal!AfterOther, AfterOther, Ideal!Event, Event, V
<1>6. QED
  BY <1>4, <1>5

(* Nothing is collected in a gate body that is not being visited.          *)
LEMMA EnterRefines ==
  ASSUME IInv, NEW s \in Statement, Enter(s)
  PROVE  Ideal!Enter(s)
<1>1. /\ s.op = "enter" /\ scope = "main" /\ scope' = s.args[1] /\ scope' # "main"
      /\ permutation' = Identity /\ pending' = {} /\ outer' = <<permutation, pending>>
      /\ value' = value /\ phases' = phases /\ events' = events
  BY DEF Enter, Reset, collected, output, Statement
<1>2. \A sc \in Scopes : Rows(sc)' = Rows(sc) /\ Terms(sc)' = Terms(sc)
  BY <1>1 DEF Rows, Terms
<1>3. V' = V /\ PhasesOfProgram' = PhasesOfProgram
  BY <1>1, <1>2 DEF V, ValueOfProgram, PhasesOfProgram
<1>4. QED
  BY <1>1, <1>3 DEF Ideal!Enter, V

LEMMA EndRefines ==
  ASSUME IInv, IInv', NEW s \in Statement, End(s)
  PROVE  Ideal!Skip(s)
<1>1. /\ s.op = "end" /\ scope' = scope /\ outer' = outer /\ events' = events /\ Reset
      /\ phases' = phases \cup PhasesHere
      /\ value' = [value EXCEPT ![scope] = V[scope]]
  BY ValueTypes DEF End, PhasesHere
<1>2. V' = [V EXCEPT ![scope] = V[scope]] /\ PhasesOfProgram' = PhasesOfProgram
  BY <1>1, EmptiedScope
<1>3. V' = V
  BY <1>2 DEF V, ValueOfProgram
<1>4. QED
  BY <1>1, <1>2, <1>3 DEF Ideal!Skip, V

LEMMA LeaveRefines ==
  ASSUME IInv, IInv', NEW s \in Statement, Leave(s)
  PROVE  Ideal!Leave(s)
<1>1. /\ s.op = "leave" /\ scope # "main" /\ scope' = "main" /\ scope \in Scopes
      /\ permutation' = outer[1] /\ pending' = outer[2] /\ events' = events
      /\ phases' = phases \cup PhasesHere
      /\ value' = [value EXCEPT ![scope] = V[scope]]
  BY ValueTypes DEF Leave, PhasesHere
<1>2. PICK body \in Scopes : body = scope
  BY <1>1
<1>3. \A sc \in Scopes \ {body} :
        Rows(sc)' = Rows(sc) /\ Terms(sc)' = Terms(sc) /\ value'[sc] = value[sc]
  BY <1>1, <1>2, ValueTypes DEF Rows, Terms
<1>4. Rows(body)' = Identity /\ Terms(body)' = {} /\ value'[body] = V[body]
  BY <1>1, <1>2, ValueTypes DEF Rows, Terms
<1>5. V' = V
  <2>1. V'[body] = AfterCircuit(V[body], Identity)
    BY <1>4 DEF V, ValueOfProgram
  <2>2. V'[body] = V[body]
    BY <1>2, <2>1, ValueTypes, AfterIdentity
  <2>3. \A sc \in Scopes \ {body} : V'[sc] = V[sc]
    BY <1>3 DEF V, ValueOfProgram
  <2>4. QED
    BY <2>2, <2>3 DEF V, ValueOfProgram
<1>6. PhasesOfProgram' = PhasesOfProgram
  <2>1. PhasesOf(body, value'[body], Terms(body)') = {}
    BY <1>4 DEF PhasesOf
  <2>2. \A sc \in Scopes \ {body} :
          PhasesOf(sc, value'[sc], Terms(sc)') = PhasesOf(sc, value[sc], Terms(sc))
    BY <1>3
  <2>3. PhasesOfProgram' = phases' \cup PhasesElsewhere
    BY <1>2, <2>1, <2>2 DEF PhasesOfProgram, PhasesElsewhere
  <2>4. Split
    BY <1>1, PhasesSplit DEF InScope
  <2>5. QED
    BY <1>1, <2>3, <2>4 DEF Split
<1>7. QED
  BY <1>1, <1>5, <1>6 DEF Ideal!Leave, V

LEMMA StepRefines ==
  ASSUME IInv, IInv', IfInv, NEW s \in Statement, ~s.cond,
         CollectCNOT(s) \/ CollectPhase(s) \/ Flush(s) \/ Enter(s) \/ Leave(s) \/ End(s)
  PROVE  \/ Ideal!Skip(s) \/ Ideal!CNOT(s) \/ Ideal!Phase(s)
         \/ Ideal!Other(s) \/ Ideal!Enter(s) \/ Ideal!Leave(s)
<1>1. Ideal!Runs(s, bit)
  BY DEF Ideal!Runs
<1>2. CASE CollectCNOT(s)
  <2>1. Ideal!IsCNOT(s)
    BY <1>2 DEF CollectCNOT, Collects, Ideal!IsCNOT
  <2>2. Ideal!CNOT(s)
    BY <1>1, <1>2, <2>1, CNOTRefines
    DEF Ideal!CNOT, Ideal!AfterCNOT, AfterCNOT, Ideal!Xor, Xor, V
  <2>3. QED
    BY <2>2
<1>3. CASE CollectPhase(s)
  <2>1. s.op = "phase"
    BY <1>3 DEF CollectPhase
  <2>2. Ideal!Phase(s)
    BY <1>1, <1>3, <2>1, PhaseRefines DEF Ideal!Phase, V
  <2>3. QED
    BY <2>2
<1>4. QED
  BY <1>2, <1>3, FlushRefines, EnterRefines, LeaveRefines, EndRefines

LEMMA NextRefines == IInv /\ IInv' /\ IfInv /\ [Next]_vars => [Ideal!Next]_(Ideal!vars)
<1> SUFFICES ASSUME IInv, IInv', IfInv, [Next]_vars PROVE [Ideal!Next]_(Ideal!vars)
  OBVIOUS
<1>1. CASE UNCHANGED vars
  <2>1. /\ todo' = todo /\ bit' = bit /\ scope' = scope /\ permutation' = permutation
        /\ pending' = pending /\ outer' = outer /\ value' = value /\ phases' = phases
        /\ events' = events
    BY <1>1 DEF vars, collected, output
  <2>2. ValueOfProgram' = ValueOfProgram
    BY <2>1 DEF ValueOfProgram, Rows
  <2>3. PhasesOfProgram' = PhasesOfProgram
    BY <2>1 DEF PhasesOfProgram, Terms
  <2>4. QED
    BY <2>1, <2>2, <2>3 DEF Ideal!vars
<1>2. CASE Next
  <2> DEFINE s == Head(todo)
  <2>1. /\ todo # <<>> /\ todo' = Tail(todo) /\ bit' = bit
        /\ CollectCNOT(s) \/ CollectPhase(s) \/ Flush(s) \/ Enter(s) \/ Leave(s) \/ End(s)
    BY <1>2 DEF Next
  <2>2. s \in Statement /\ ~s.cond
    BY <2>1, HeadOfTodo, NoIf DEF IInv
  <2>3. \/ Ideal!Skip(s) \/ Ideal!CNOT(s) \/ Ideal!Phase(s)
        \/ Ideal!Other(s) \/ Ideal!Enter(s) \/ Ideal!Leave(s)
    <3> HIDE DEF s
    <3>1. QED
      BY <2>1, <2>2, StepRefines
  <2>4. QED
    BY <2>1, <2>3 DEF Ideal!Next
<1>3. QED
  BY <1>1, <1>2

(* For every program without if statements, whatever its gates, and for    *)
(* both passes: the circuit emitted does what the program does, in order.  *)
THEOREM Refinement == ASSUME Unconditional PROVE Spec => ImplementsProgram
<1>1. Init => Ideal!Init
  BY InitRefines
<1>2. Init => IfInv
  BY InitIfInv
<1>3. IInv /\ IfInv /\ [Next]_vars => IfInv'
  BY NextIfInv
<1>4. IInv /\ IInv' /\ IfInv /\ [Next]_vars => [Ideal!Next]_(Ideal!vars)
  BY NextRefines
<1>5. QED
  BY <1>1, <1>2, <1>3, <1>4, Invariance, PTL DEF Spec, ImplementsProgram, Ideal!Spec

=============================================================================
