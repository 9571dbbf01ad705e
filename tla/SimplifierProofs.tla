-------------------------- MODULE SimplifierProofs --------------------------
(***************************************************************************)
(* Proofs about Simplifier for every set of programs: what is erased never *)
(* changes what the qubits see of a program, and when nothing more is      *)
(* erased nothing is left to cancel.                                       *)
(***************************************************************************)
EXTENDS Simplifier, FiniteSetTheorems, SequenceTheorems, WellFoundedInduction, TLAPS

LEMMA LeastElement ==
  ASSUME NEW U \in SUBSET Nat, U # {}
  PROVE  \E n \in U : \A m \in U : ~(m < n)
<1>1. IsWellFoundedOn(OpToRel(<, Nat), Nat)
  BY NatLessThanWellFounded
<1>2. \E n \in U : \A m \in U : ~(<<m, n>> \in OpToRel(<, Nat))
  BY <1>1, WFMin
<1>3. QED
  BY <1>2 DEF OpToRel

(* Induction from M to N, for a set in place of a predicate. *)
LEMMA Induction ==
  ASSUME NEW M \in Nat, NEW N \in Nat, NEW S, M \in S,
         \A n \in M .. N - 1 : n \in S => n + 1 \in S
  PROVE  \A n \in M .. N : n \in S
<1> DEFINE Missing == {n \in M .. N : n \notin S}
<1>1. SUFFICES ASSUME Missing # {} PROVE FALSE
  OBVIOUS
<1>2. PICK n \in Missing : \A m \in Missing : ~(m < n)
  <2>1. Missing \in SUBSET Nat
    OBVIOUS
  <2>2. QED
    BY <2>1, <1>1, LeastElement
<1>3. n - 1 \in M .. N - 1 /\ n - 1 \in S
  BY <1>2
<1>4. n - 1 + 1 = n
  BY <1>2
<1>5. QED
  BY <1>2, <1>3, <1>4

LEMMA SequenceEnds ==
  ASSUME NEW S, NEW s \in Seq(S)
  PROVE  /\ \A e \in S : /\ Append(s, e) \in Seq(S) /\ Append(s, e) # <<>>
                         /\ Last(Append(s, e)) = e /\ Front(Append(s, e)) = s
                         /\ Len(Append(s, e)) = Len(s) + 1
         /\ s # <<>> => Last(s) \in S /\ Front(s) \in Seq(S) /\ Append(Front(s), Last(s)) = s
         /\ Front(s) \in Seq(S)
<1>1. ASSUME NEW e \in S
      PROVE  /\ Append(s, e) \in Seq(S) /\ Append(s, e) # <<>>
             /\ Last(Append(s, e)) = e /\ Front(Append(s, e)) = s
             /\ Len(Append(s, e)) = Len(s) + 1
  <2>1. PICK N \in Nat : N = Len(s)
    OBVIOUS
  <2>2. Append(s, e) \in Seq(S) /\ Len(Append(s, e)) = N + 1 /\ Append(s, e)[N + 1] = e
    BY <2>1
  <2>3. Front(Append(s, e)) = SubSeq(Append(s, e), 1, N)
    BY <2>1, <2>2 DEF Front
  <2>4. SubSeq(Append(s, e), 1, N) = s
    <3>1. SubSeq(Append(s, e), 1, N) \in Seq(S) /\ Len(SubSeq(Append(s, e), 1, N)) = N
      BY <2>1, <2>2
    <3>2. \A i \in 1 .. N : SubSeq(Append(s, e), 1, N)[i] = s[i]
      BY <2>1, <2>2
    <3>3. QED
      BY <2>1, <3>1, <3>2
  <2>5. QED
    BY <2>1, <2>2, <2>3, <2>4 DEF Last
<1>2. Front(s) \in Seq(S)
  BY DEF Front
<1>3. ASSUME s # <<>>
      PROVE  Last(s) \in S /\ Front(s) \in Seq(S) /\ Append(Front(s), Last(s)) = s
  <2>1. PICK N \in Nat : N = Len(s) /\ N # 0
    BY <1>3
  <2>2. Last(s) = s[N] /\ N \in 1 .. Len(s) /\ s[N] \in S
    BY <2>1 DEF Last
  <2>3. Front(s) = SubSeq(s, 1, N - 1) /\ Front(s) \in Seq(S)
    BY <2>1, <1>2 DEF Front
  <2>4. Len(Front(s)) = N - 1 /\ \A i \in 1 .. N - 1 : Front(s)[i] = s[i]
    BY <2>1, <2>3
  <2>5. Append(Front(s), s[N]) = s
    BY <2>1, <2>2, <2>3, <2>4
  <2>6. QED
    BY <2>2, <2>3, <2>5
<1>4. QED
  BY <1>1, <1>2, <1>3

-----------------------------------------------------------------------------
(* Gates on wires.  A gate is what the wires show of a statement; Lay adds *)
(* it at the end of its wires and Lift takes the last one off them.        *)

Gates == {g \in [op : STRING, args : Seq(Arguments), cond : BOOLEAN] :
            g.op \notin {"none", "zero", "decl"} /\ g.args # <<>>}

Wirings == [Qubits -> Seq(Gates)]

NothingSeen == [q \in Qubits |-> <<>>]

Lay(w, g) ==
  [q \in Qubits |-> IF q \in QubitsOf(g) THEN Append(w[q], g) ELSE w[q]]

Lift(w, g) ==
  [q \in Qubits |-> IF q \in QubitsOf(g) THEN Front(w[q]) ELSE w[q]]

Tops(w, g) == \A q \in QubitsOf(g) : w[q] # <<>> /\ Last(w[q]) = g

LEMMA GateFacts ==
  ASSUME NEW g \in Gates
  PROVE  /\ QubitsOf(g) \in SUBSET Qubits /\ QubitsOf(g) # {}
         /\ g.op \in STRING /\ g.op \notin {"none", "zero", "decl"}
         /\ Seen(g) = g
<1>1. g.op \in STRING /\ g.op \notin {"none", "zero", "decl"} /\ g.args \in Seq(Arguments) /\ g.args # <<>>
  BY DEF Gates
<1>2. QubitsOf(g) = UNION {Touches[a] : a \in Range(g.args)}
  BY <1>1 DEF QubitsOf
<1>3. Range(g.args) \in SUBSET Arguments /\ Range(g.args) # {}
  <2>1. Len(g.args) \in Nat /\ Len(g.args) # 0 /\ DOMAIN g.args = 1 .. Len(g.args)
    BY <1>1
  <2>2. 1 \in DOMAIN g.args /\ \A n \in DOMAIN g.args : g.args[n] \in Arguments
    BY <1>1, <2>1
  <2>3. QED
    BY <2>2 DEF Range
<1>4. PICK a \in Arguments : a \in Range(g.args)
  BY <1>3
<1>5. PICK q : q \in Touches[a]
  BY TouchesAssumption
<1>6. Seen(g) = g
  BY DEF Seen, Gates
<1>7. QED
  BY <1>1, <1>2, <1>3, <1>4, <1>5, <1>6 DEF Qubits

LEMMA Involution ==
  ASSUME NEW a \in STRING, NEW b \in STRING, b = CancelsWith(a), b # "none"
  PROVE  a = CancelsWith(b)
BY DEF CancelsWith

LEMMA UndoesFacts ==
  ASSUME NEW g \in Gates, NEW h \in Gates, Undoes(g, h)
  PROVE  /\ Undoes(h, g) /\ QubitsOf(h) = QubitsOf(g)
         /\ \A h2 \in Gates : Undoes(g, h2) => h2 = h
<1>1. ~g.cond /\ ~h.cond /\ h.op = CancelsWith(g.op) /\ h.args = g.args
  BY DEF Undoes
<1>2. g.op = CancelsWith(h.op)
  BY <1>1, GateFacts, Involution
<1>3. QubitsOf(h) = QubitsOf(g)
  BY <1>1, GateFacts DEF QubitsOf
<1>4. ASSUME NEW h2 \in Gates, Undoes(g, h2) PROVE h2 = h
  <2>1. h2.op = h.op /\ h2.args = h.args /\ ~h2.cond /\ ~h.cond
    BY <1>1, <1>4 DEF Undoes
  <2>2. h2.cond = h.cond
    BY <2>1 DEF Gates
  <2>3. QED
    BY <2>1, <2>2 DEF Gates
<1>5. QED
  BY <1>1, <1>2, <1>3, <1>4 DEF Undoes

LEMMA LayFacts ==
  ASSUME NEW w \in Wirings, NEW g \in Gates
  PROVE  /\ Lay(w, g) \in Wirings /\ Lift(w, g) \in Wirings
         /\ Tops(Lay(w, g), g)
         /\ \A h \in Gates : QubitsOf(h) = QubitsOf(g) => Lift(Lay(w, g), h) = w
<1>1. QubitsOf(g) \in SUBSET Qubits
  BY GateFacts
<1>2. \A q \in Qubits : w[q] \in Seq(Gates)
  BY DEF Wirings
<1>3. \A q \in Qubits : /\ Append(w[q], g) \in Seq(Gates) /\ Append(w[q], g) # <<>>
                        /\ Last(Append(w[q], g)) = g /\ Front(Append(w[q], g)) = w[q]
                        /\ Front(w[q]) \in Seq(Gates)
  BY <1>2, SequenceEnds
<1>4. Lay(w, g) \in Wirings /\ Lift(w, g) \in Wirings
  BY <1>2, <1>3 DEF Wirings, Lay, Lift
<1>5. Tops(Lay(w, g), g)
  BY <1>1, <1>3 DEF Tops, Lay
<1>6. ASSUME NEW h \in Gates, QubitsOf(h) = QubitsOf(g)
      PROVE  Lift(Lay(w, g), h) = w
  <2>1. \A q \in Qubits : Lift(Lay(w, g), h)[q] = w[q]
    BY <1>3, <1>6 DEF Lift, Lay
  <2>2. Lift(Lay(w, g), h) \in [Qubits -> Seq(Gates)] /\ w \in [Qubits -> Seq(Gates)]
    <3>1. \A q \in Qubits : Lift(Lay(w, g), h)[q] \in Seq(Gates)
      BY <1>2, <2>1
    <3>2. Lift(Lay(w, g), h) = [q \in Qubits |-> Lift(Lay(w, g), h)[q]]
      BY DEF Lift
    <3>3. QED
      BY <3>1, <3>2 DEF Wirings
  <2>3. QED
    BY <2>1, <2>2
<1>7. QED
  BY <1>4, <1>5, <1>6

LEMMA CancelsTop ==
  ASSUME NEW w \in Wirings, NEW g \in Gates
  PROVE  Cancels(w, g) <=> \E h \in Gates : Undoes(g, h) /\ Tops(w, h)
<1>1. QubitsOf(g) \in SUBSET Qubits /\ QubitsOf(g) # {}
  BY GateFacts
<1>2. ASSUME Cancels(w, g) PROVE \E h \in Gates : Undoes(g, h) /\ Tops(w, h)
  <2>1. \A q \in QubitsOf(g) : w[q] # <<>> /\ Undoes(g, Last(w[q])) /\ Last(w[q]) \in Gates
    <3> SUFFICES ASSUME NEW q \in QubitsOf(g)
                 PROVE  w[q] # <<>> /\ Undoes(g, Last(w[q])) /\ Last(w[q]) \in Gates
      OBVIOUS
    <3>1. w[q] \in Seq(Gates)
      BY <1>1 DEF Wirings
    <3>2. QED
      BY <1>2, <3>1, SequenceEnds DEF Cancels
  <2>2. PICK p \in QubitsOf(g) : TRUE
    BY <1>1
  <2>3. PICK h \in Gates : h = Last(w[p]) /\ Undoes(g, h)
    BY <2>1
  <2>4. QubitsOf(h) = QubitsOf(g) /\ \A h2 \in Gates : Undoes(g, h2) => h2 = h
    BY <2>3, UndoesFacts
  <2>5. Tops(w, h)
    BY <2>1, <2>4 DEF Tops
  <2>6. QED
    BY <2>3, <2>5
<1>3. ASSUME NEW h \in Gates, Undoes(g, h), Tops(w, h) PROVE Cancels(w, g)
  <2>1. QubitsOf(h) = QubitsOf(g)
    BY <1>3, UndoesFacts
  <2>2. QED
    BY <1>3, <2>1 DEF Tops, Cancels
<1>4. QED
  BY <1>2, <1>3

LEMMA PushGate ==
  ASSUME NEW w \in Wirings, NEW g \in Gates
  PROVE  Push(w, g) = IF Cancels(w, g) THEN Lift(w, g) ELSE Lay(w, g)
<1>1. Seen(g) = g /\ g.op \notin {"zero", "decl"}
  BY GateFacts
<1>2. CASE Cancels(w, g)
  BY <1>1, <1>2 DEF Push, Lift
<1>3. CASE ~Cancels(w, g)
  BY <1>1, <1>3 DEF Push, Lay
<1>4. QED
  BY <1>2, <1>3

(* Whether a gate cancels depends on its own wires only. *)
LEMMA CancelsOn ==
  ASSUME NEW v, NEW w, NEW g, \A q \in QubitsOf(g) : v[q] = w[q]
  PROVE  Cancels(v, g) = Cancels(w, g)
BY DEF Cancels

LEMMA PushElsewhere ==
  ASSUME NEW w \in Wirings, NEW g \in Gates
  PROVE  /\ Push(w, g) \in Wirings
         /\ \A q \in Qubits \ QubitsOf(g) : Push(w, g)[q] = w[q]
<1>1. Push(w, g) = Lift(w, g) \/ Push(w, g) = Lay(w, g)
  BY PushGate
<1>2. Lift(w, g) \in Wirings /\ Lay(w, g) \in Wirings
  BY LayFacts
<1>3. QED
  BY <1>1, <1>2 DEF Lift, Lay

(* Gates on different wires commute. *)
LEMMA PushesCommute ==
  ASSUME NEW w \in Wirings, NEW g \in Gates, NEW h \in Gates,
         QubitsOf(g) \cap QubitsOf(h) = {}
  PROVE  Push(Push(w, g), h) = Push(Push(w, h), g)
<1>1. QubitsOf(g) \in SUBSET Qubits /\ QubitsOf(h) \in SUBSET Qubits
  BY GateFacts
<1>2. /\ Push(w, g) \in Wirings /\ \A q \in Qubits \ QubitsOf(g) : Push(w, g)[q] = w[q]
      /\ Push(w, h) \in Wirings /\ \A q \in Qubits \ QubitsOf(h) : Push(w, h)[q] = w[q]
  BY PushElsewhere
<1>3. Cancels(Push(w, g), h) = Cancels(w, h) /\ Cancels(Push(w, h), g) = Cancels(w, g)
  BY <1>1, <1>2, CancelsOn
<1>4. PICK gh \in Wirings, hg \in Wirings : gh = Push(Push(w, g), h) /\ hg = Push(Push(w, h), g)
  BY <1>2, PushElsewhere
<1>5. ASSUME NEW q \in Qubits PROVE gh[q] = hg[q]
  <2>1. CASE q \in QubitsOf(g)
    <3>1. gh[q] = Push(w, g)[q]
      BY <1>2, <1>4, <2>1, PushElsewhere
    <3>2. hg[q] = IF Cancels(w, g) THEN Lift(Push(w, h), g)[q] ELSE Lay(Push(w, h), g)[q]
      BY <1>2, <1>3, <1>4, PushGate
    <3>3. Push(w, g)[q] = IF Cancels(w, g) THEN Lift(w, g)[q] ELSE Lay(w, g)[q]
      BY PushGate
    <3>4. Push(w, h)[q] = w[q]
      BY <1>2, <2>1
    <3>5. QED
      BY <2>1, <3>1, <3>2, <3>3, <3>4 DEF Lift, Lay
  <2>2. CASE q \notin QubitsOf(g) /\ q \in QubitsOf(h)
    <3>1. hg[q] = Push(w, h)[q]
      BY <1>2, <1>4, <2>2, PushElsewhere
    <3>2. gh[q] = IF Cancels(w, h) THEN Lift(Push(w, g), h)[q] ELSE Lay(Push(w, g), h)[q]
      BY <1>2, <1>3, <1>4, PushGate
    <3>3. Push(w, h)[q] = IF Cancels(w, h) THEN Lift(w, h)[q] ELSE Lay(w, h)[q]
      BY PushGate
    <3>4. Push(w, g)[q] = w[q]
      BY <1>2, <2>2
    <3>5. QED
      BY <2>2, <3>1, <3>2, <3>3, <3>4 DEF Lift, Lay
  <2>3. CASE q \notin QubitsOf(g) /\ q \notin QubitsOf(h)
    BY <1>2, <1>4, <2>3, PushElsewhere
  <2>4. QED
    BY <2>1, <2>2, <2>3
<1>6. gh = hg
  BY <1>5 DEF Wirings
<1>7. QED
  BY <1>4, <1>6

-----------------------------------------------------------------------------
(* Wires that laying gates, without cancelling any, can lead to: what is   *)
(* last on all its wires was laid last, up to gates on other wires.        *)

ClosedUnderLay(S) ==
  NothingSeen \in S /\ \A v \in S : \A g \in Gates : ~Cancels(v, g) => Lay(v, g) \in S

Good == {w \in Wirings : \A S \in SUBSET Wirings : ClosedUnderLay(S) => w \in S}

LEMMA GoodIsClosed == ClosedUnderLay(Good) /\ Good \in SUBSET Wirings
<1>1. NothingSeen \in Wirings
  BY DEF Wirings, NothingSeen
<1>2. NothingSeen \in Good
  BY <1>1 DEF Good, ClosedUnderLay
<1>3. ASSUME NEW v \in Good, NEW g \in Gates, ~Cancels(v, g) PROVE Lay(v, g) \in Good
  <2>1. Lay(v, g) \in Wirings
    BY LayFacts DEF Good
  <2>2. ASSUME NEW S \in SUBSET Wirings, ClosedUnderLay(S) PROVE Lay(v, g) \in S
    BY <1>3, <2>2 DEF Good, ClosedUnderLay
  <2>3. QED
    BY <2>1, <2>2 DEF Good
<1>4. QED
  BY <1>2, <1>3 DEF ClosedUnderLay, Good

Exposes(w) ==
  \A g \in Gates : Tops(w, g) => \E v \in Good : w = Lay(v, g) /\ ~Cancels(v, g)

LEMMA GoodExposes ==
  ASSUME NEW w \in Good
  PROVE  Exposes(w)
<1> DEFINE S == {v \in Good : Exposes(v)}
<1>1. NothingSeen \in S
  <2>1. ASSUME NEW g \in Gates, Tops(NothingSeen, g) PROVE FALSE
    <3>1. PICK q \in Qubits : q \in QubitsOf(g)
      BY GateFacts
    <3>2. QED
      BY <2>1, <3>1 DEF Tops, NothingSeen
  <2>2. QED
    BY <2>1, GoodIsClosed DEF Exposes, ClosedUnderLay
<1>2. ASSUME NEW v \in S, NEW x \in Gates, ~Cancels(v, x) PROVE Lay(v, x) \in S
  <2>0. v \in Good /\ v \in Wirings /\ Exposes(v)
    BY GoodIsClosed
  <2>1. Lay(v, x) \in Good
    BY <1>2, <2>0, GoodIsClosed DEF ClosedUnderLay
  <2>2. ASSUME NEW g \in Gates, Tops(Lay(v, x), g)
        PROVE  \E u \in Good : Lay(v, x) = Lay(u, g) /\ ~Cancels(u, g)
    <3>1. QubitsOf(g) \in SUBSET Qubits /\ QubitsOf(x) \in SUBSET Qubits
      BY GateFacts
    <3>2. CASE QubitsOf(g) \cap QubitsOf(x) = {}
      <4>1. Tops(v, g)
        BY <2>2, <3>1, <3>2 DEF Tops, Lay
      <4>2. PICK u \in Good : v = Lay(u, g) /\ ~Cancels(u, g)
        BY <2>0, <4>1 DEF Exposes
      <4>3. u \in Wirings
        BY GoodIsClosed
      <4>4. Cancels(u, x) = Cancels(v, x)
        <5>1. \A q \in QubitsOf(x) : u[q] = v[q]
          BY <3>1, <3>2, <4>2 DEF Lay
        <5>2. QED
          BY <5>1, CancelsOn
      <4>5. Lay(u, x) \in Good
        BY <1>2, <4>4, GoodIsClosed DEF ClosedUnderLay
      <4>6. Cancels(Lay(u, x), g) = Cancels(u, g)
        <5>1. \A q \in QubitsOf(g) : Lay(u, x)[q] = u[q]
          BY <3>1, <3>2 DEF Lay
        <5>2. QED
          BY <5>1, CancelsOn
      <4>7. Lay(v, x) = Lay(Lay(u, x), g)
        BY <3>2, <4>2 DEF Lay
      <4>8. QED
        BY <4>2, <4>5, <4>6, <4>7
    <3>3. CASE QubitsOf(g) \cap QubitsOf(x) # {}
      <4>1. PICK q \in Qubits : q \in QubitsOf(g) /\ q \in QubitsOf(x)
        BY <3>1, <3>3
      <4>2. Last(Lay(v, x)[q]) = g
        BY <2>2, <4>1 DEF Tops
      <4>3. Last(Lay(v, x)[q]) = x
        BY <2>0, <4>1, LayFacts DEF Tops
      <4>4. QED
        BY <1>2, <2>0, <4>2, <4>3
    <3>4. QED
      BY <3>2, <3>3
  <2>3. QED
    BY <2>1, <2>2 DEF Exposes
<1>3. S \in SUBSET Wirings
  BY GoodIsClosed
<1>4. ClosedUnderLay(S)
  BY <1>1, <1>2 DEF ClosedUnderLay
<1>5. QED
  BY <1>3, <1>4 DEF Good

(* A gate and then its inverse leave the wires as they were. *)
LEMMA PushGood ==
  ASSUME NEW w \in Good, NEW g \in Gates
  PROVE  /\ Push(w, g) \in Good
         /\ \A h \in Gates : Undoes(h, g) => Push(Push(w, g), h) = w
<1>0. w \in Wirings
  BY GoodIsClosed
<1>1. CASE ~Cancels(w, g)
  <2>1. Push(w, g) = Lay(w, g) /\ Lay(w, g) \in Good /\ Lay(w, g) \in Wirings
    BY <1>0, <1>1, PushGate, GoodIsClosed DEF ClosedUnderLay
  <2>2. ASSUME NEW h \in Gates, Undoes(h, g) PROVE Push(Lay(w, g), h) = w
    <3>1. QubitsOf(g) = QubitsOf(h)
      BY <2>2, UndoesFacts
    <3>2. Tops(Lay(w, g), g)
      BY <1>0, LayFacts
    <3>3. Cancels(Lay(w, g), h)
      BY <2>1, <2>2, <3>2, CancelsTop
    <3>4. Push(Lay(w, g), h) = Lift(Lay(w, g), h)
      BY <2>1, <3>3, PushGate
    <3>5. QED
      BY <1>0, <3>1, <3>4, LayFacts
  <2>3. QED
    BY <2>1, <2>2
<1>2. CASE Cancels(w, g)
  <2>1. PICK t \in Gates : Undoes(g, t) /\ Tops(w, t)
    BY <1>0, <1>2, CancelsTop
  <2>2. PICK v \in Good : w = Lay(v, t) /\ ~Cancels(v, t)
    BY <2>1, GoodExposes DEF Exposes
  <2>3. v \in Wirings /\ QubitsOf(t) = QubitsOf(g)
    BY <2>1, GoodIsClosed, UndoesFacts
  <2>4. Push(w, g) = v
    <3>1. Push(w, g) = Lift(w, g)
      BY <1>0, <1>2, PushGate
    <3>2. QED
      BY <2>2, <2>3, <3>1, LayFacts
  <2>5. ASSUME NEW h \in Gates, Undoes(h, g) PROVE Push(v, h) = w
    <3>1. h = t
      <4>1. Undoes(g, h)
        BY <2>5, UndoesFacts
      <4>2. QED
        BY <2>1, <4>1, UndoesFacts
    <3>2. QED
      BY <2>2, <2>3, <3>1, PushGate
  <2>6. QED
    BY <2>4, <2>5
<1>3. QED
  BY <1>1, <1>2

-----------------------------------------------------------------------------
(* Bodies.  A run is what the wires show after each statement of a body,   *)
(* the erased ones left out.                                               *)

IsGate(s) ==
  /\ s.op \in STRING \ {"none", "zero", "decl"} /\ s.cond \in BOOLEAN
  /\ s.args \in Seq(Arguments) \ {<<>>}

Real(s) == s.op \notin {"zero", "decl"}

IsBody(body) ==
  /\ body \in Seq(Range(body))
  /\ \A n \in 1 .. Len(body) : Real(body[n]) => IsGate(body[n])

(* The properties that a step of a run needs of a gate are those of Seen. *)
LEMMA PushStatement ==
  ASSUME NEW w \in Good, NEW s, Real(s) => IsGate(s)
  PROVE  /\ Push(w, s) \in Good
         /\ ~Real(s) => Push(w, s) = w
         /\ Real(s) => /\ Seen(s) \in Gates /\ Push(w, s) = Push(w, Seen(s))
                       /\ QubitsOf(Seen(s)) = QubitsOf(s)
<1>1. CASE ~Real(s)
  BY <1>1 DEF Real, Push
<1>2. CASE Real(s)
  <2>1. Seen(s) \in Gates
    BY <1>2 DEF IsGate, Gates, Seen
  <2>2. QubitsOf(Seen(s)) = QubitsOf(s)
    BY DEF QubitsOf, Seen
  <2>3. \A t : Undoes(Seen(s), t) = Undoes(s, t)
    BY DEF Undoes, Seen
  <2>4. Cancels(w, Seen(s)) = Cancels(w, s)
    BY <2>2, <2>3 DEF Cancels
  <2>5. Seen(Seen(s)) = Seen(s) /\ Seen(s).op = s.op
    BY DEF Seen
  <2>6. Push(w, s) = Push(w, Seen(s))
    BY <1>2, <2>2, <2>4, <2>5 DEF Push, Real
  <2>7. QED
    BY <1>2, <2>1, <2>2, <2>6, PushGood
<1>3. QED
  BY <1>1, <1>2

Step(w, s, E) == IF s.uid \in E THEN w ELSE Push(w, s)

IsRunTo(f, body, E, N) ==
  /\ f \in [0 .. N -> Good] /\ f[0] = NothingSeen
  /\ \A n \in 1 .. N : f[n] = Step(f[n - 1], body[n], E)

IsRun(f, body, E) == IsRunTo(f, body, E, Len(body))

LEMMA StepGood ==
  ASSUME NEW body, IsBody(body), NEW n \in 1 .. Len(body), NEW w \in Good, NEW E
  PROVE  Step(w, body[n], E) \in Good
BY PushStatement DEF IsBody, Step

LEMMA RunExists ==
  ASSUME NEW body, IsBody(body), NEW E
  PROVE  \E f : IsRun(f, body, E)
<1>0. PICK N \in Nat : N = Len(body)
  BY DEF IsBody
<1> DEFINE reached == {n \in 0 .. N : \E f : IsRunTo(f, body, E, n)}
<1>1. 0 \in reached
  <2> DEFINE f == [m \in 0 .. 0 |-> NothingSeen]
  <2>1. NothingSeen \in Good
    BY GoodIsClosed DEF ClosedUnderLay
  <2>2. f \in [0 .. 0 -> Good] /\ f[0] = NothingSeen /\ 1 .. 0 = {}
    BY <2>1
  <2>3. IsRunTo(f, body, E, 0)
    BY <2>2 DEF IsRunTo
  <2>4. QED
    BY <2>3
<1>2. \A n \in 0 .. N - 1 : n \in reached => n + 1 \in reached
  <2> SUFFICES ASSUME NEW n \in 0 .. N - 1, n \in reached PROVE n + 1 \in reached
    OBVIOUS
  <2>1. PICK f : IsRunTo(f, body, E, n)
    OBVIOUS
  <2> DEFINE next == Step(f[n], body[n + 1], E)
             g == [m \in 0 .. n + 1 |-> IF m <= n THEN f[m] ELSE next]
  <2>2. next \in Good /\ \A m \in 0 .. n : f[m] \in Good
    <3>1. f[n] \in Good /\ n + 1 \in 1 .. Len(body) /\ \A m \in 0 .. n : f[m] \in Good
      BY <1>0, <2>1 DEF IsRunTo
    <3>2. QED
      BY <3>1, StepGood
  <2> HIDE DEF next
  <2>3. g \in [0 .. n + 1 -> Good] /\ g[0] = NothingSeen
    BY <2>1, <2>2 DEF IsRunTo
  <2>4. ASSUME NEW m \in 1 .. n + 1 PROVE g[m] = Step(g[m - 1], body[m], E)
    <3>1. CASE m <= n
      <4>1. m \in 1 .. n /\ m - 1 <= n /\ m - 1 \in 0 .. n + 1 /\ m \in 0 .. n + 1
        BY <3>1
      <4>2. f[m] = Step(f[m - 1], body[m], E)
        BY <2>1, <4>1 DEF IsRunTo
      <4>3. g[m] = f[m] /\ g[m - 1] = f[m - 1]
        BY <3>1, <4>1
      <4>4. QED
        BY <4>2, <4>3
    <3>2. CASE ~(m <= n)
      <4>1. m = n + 1 /\ m - 1 = n /\ n \in 0 .. n + 1 /\ m \in 0 .. n + 1
        BY <3>2
      <4>2. g[m] = next /\ g[n] = f[n]
        BY <3>2, <4>1
      <4>3. QED
        BY <4>1, <4>2 DEF next
    <3>3. QED
      BY <3>1, <3>2
  <2> HIDE DEF g
  <2>5. IsRunTo(g, body, E, n + 1)
    BY <2>3, <2>4 DEF IsRunTo
  <2>6. QED
    BY <2>5
<1> HIDE DEF reached
<1>3. \A n \in 0 .. N : n \in reached
  BY <1>1, <1>2, Induction
<1>4. QED
  BY <1>0, <1>3 DEF reached, IsRun

(* Two runs that start alike and leave out the same go on alike. *)
Agree(f, body, E, g, other, F, M, N) ==
  /\ f[M] = g[M]
  /\ \A n \in M + 1 .. N : /\ f[n] = Step(f[n - 1], body[n], E)
                           /\ g[n] = Step(g[n - 1], other[n], F)
                           /\ body[n] = other[n]
                           /\ body[n].uid \in E <=> body[n].uid \in F

LEMMA RunsAgree ==
  ASSUME NEW body, NEW other, NEW M \in Nat, NEW N \in Nat, NEW E, NEW F, NEW f, NEW g,
         M <= N, Agree(f, body, E, g, other, F, M, N)
  PROVE  \A n \in M .. N : f[n] = g[n]
<1> DEFINE same == {n \in M .. N : f[n] = g[n]}
<1>1. M \in same
  BY DEF Agree
<1>2. \A n \in M .. N - 1 : n \in same => n + 1 \in same
  <2> SUFFICES ASSUME NEW n \in M .. N - 1, n \in same PROVE n + 1 \in same
    OBVIOUS
  <2>1. n + 1 \in M + 1 .. N /\ n + 1 - 1 = n /\ n + 1 \in M .. N
    OBVIOUS
  <2>2. /\ f[n + 1] = Step(f[n], body[n + 1], E) /\ g[n + 1] = Step(g[n], other[n + 1], F)
        /\ body[n + 1] = other[n + 1] /\ (body[n + 1].uid \in E <=> body[n + 1].uid \in F)
    BY <2>1 DEF Agree
  <2>3. f[n + 1] = g[n + 1]
    BY <2>2 DEF Step
  <2>4. QED
    BY <2>1, <2>3
<1> HIDE DEF same
<1>3. \A n \in M .. N : n \in same
  BY <1>1, <1>2, Induction
<1>4. QED
  BY <1>3 DEF same

LEMMA RunIsUnique ==
  ASSUME NEW body, NEW E, NEW N \in Nat, NEW f, NEW g,
         IsRunTo(f, body, E, N), IsRunTo(g, body, E, N)
  PROVE  \A n \in 0 .. N : f[n] = g[n]
<1>1. f[0] = g[0] /\ 0 <= N /\ 0 + 1 = 1
  BY DEF IsRunTo
<1>2. \A n \in 0 + 1 .. N : /\ f[n] = Step(f[n - 1], body[n], E)
                            /\ g[n] = Step(g[n - 1], body[n], E)
  BY <1>1 DEF IsRunTo
<1>3. Agree(f, body, E, g, body, E, 0, N)
  BY <1>1, <1>2 DEF Agree
<1>4. QED
  BY <1>1, <1>3, RunsAgree

(* Reduced is the end of the run that leaves out nothing. *)
LEMMA ReducedIsRun ==
  ASSUME NEW body, IsBody(body), NEW f, IsRun(f, body, {})
  PROVE  Reduced(body) = f[Len(body)] /\ Reduced(body) \in Good
<1>0. PICK N \in Nat : N = Len(body)
  BY DEF IsBody
<1> DEFINE cell(h, n) == IF n = 0 THEN NothingSeen ELSE Push(h[n - 1], body[n])
           upTo == CHOOSE upTo : upTo = [n \in 0 .. N |-> cell(upTo, n)]
<1>1. \A n \in 0 .. N : f[n] = cell(f, n)
  <2> SUFFICES ASSUME NEW n \in 0 .. N PROVE f[n] = cell(f, n)
    OBVIOUS
  <2>1. CASE n = 0
    BY <1>0, <2>1 DEF IsRun, IsRunTo
  <2>2. CASE n # 0
    <3>1. n \in 1 .. N
      BY <2>2
    <3>2. f[n] = Step(f[n - 1], body[n], {})
      BY <1>0, <3>1 DEF IsRun, IsRunTo
    <3>3. QED
      BY <2>2, <3>2 DEF Step
  <2>3. QED
    BY <2>1, <2>2
<1>2. f \in [0 .. N -> Good]
  BY <1>0 DEF IsRun, IsRunTo
<1>3. upTo = [n \in 0 .. N |-> cell(upTo, n)]
  <2> HIDE DEF cell
  <2>1. f = [n \in 0 .. N |-> cell(f, n)]
    BY <1>1, <1>2
  <2>2. QED
    BY <2>1
<1>4. Reduced(body) = upTo[N]
  BY <1>0 DEF Reduced, NothingSeen
<1>5. PICK u : u = upTo
  OBVIOUS
<1> HIDE DEF upTo
<1> DEFINE same == {n \in 0 .. N : u[n] = f[n]}
<1>6. 0 \in same
  <2>1. 0 \in 0 .. N
    OBVIOUS
  <2>2. u[0] = cell(u, 0) /\ f[0] = cell(f, 0)
    BY <1>1, <1>3, <1>5, <2>1
  <2>3. QED
    BY <2>1, <2>2
<1>7. \A n \in 0 .. N - 1 : n \in same => n + 1 \in same
  <2> SUFFICES ASSUME NEW n \in 0 .. N - 1, n \in same PROVE n + 1 \in same
    OBVIOUS
  <2>1. n + 1 \in 0 .. N /\ n + 1 - 1 = n /\ n + 1 # 0
    OBVIOUS
  <2>2. u[n + 1] = cell(u, n + 1) /\ f[n + 1] = cell(f, n + 1)
    BY <1>1, <1>3, <1>5, <2>1
  <2>3. QED
    BY <2>1, <2>2
<1> HIDE DEF same
<1>8. \A n \in 0 .. N : n \in same
  BY <1>6, <1>7, Induction
<1>9. N \in 0 .. N
  OBVIOUS
<1>10. u[N] = f[N] /\ f[N] \in Good
  BY <1>2, <1>8, <1>9 DEF same
<1>11. QED
  BY <1>0, <1>4, <1>5, <1>10

LEMMA ReducedEmpty == Reduced(<<>>) = NothingSeen
<1>1. <<>> \in Seq(Range(<<>>)) /\ Len(<<>>) = 0
  OBVIOUS
<1>2. IsBody(<<>>)
  BY <1>1 DEF IsBody
<1>3. PICK f : IsRun(f, <<>>, {})
  BY <1>2, RunExists
<1>4. f[0] = NothingSeen
  BY <1>1, <1>3 DEF IsRun, IsRunTo
<1>5. QED
  BY <1>1, <1>2, <1>3, <1>4, ReducedIsRun

LEMMA ReducedAppend ==
  ASSUME NEW body, IsBody(body), NEW s, Real(s) => IsGate(s)
  PROVE  IsBody(Append(body, s)) /\ Reduced(Append(body, s)) = Push(Reduced(body), s)
<1>0. PICK N \in Nat : N = Len(body)
  BY DEF IsBody
<1>1. PICK more : more = Append(body, s)
  OBVIOUS
<1>2. /\ Len(more) = N + 1 /\ more[N + 1] = s /\ \A n \in 1 .. N : more[n] = body[n]
      /\ more \in Seq(Range(body) \cup {s}) /\ DOMAIN more = 1 .. N + 1
  <2>1. body \in Seq(Range(body) \cup {s}) /\ s \in Range(body) \cup {s}
    BY DEF IsBody
  <2>2. QED
    BY <1>0, <1>1, <2>1
<1>3. IsBody(more)
  <2>1. \A n \in 1 .. N + 1 : more[n] \in Range(more)
    BY <1>2 DEF Range
  <2>2. more \in Seq(Range(more))
    BY <1>2, <2>1
  <2>3. \A n \in 1 .. N + 1 : n = N + 1 \/ n \in 1 .. N
    OBVIOUS
  <2>4. \A n \in 1 .. N + 1 : Real(more[n]) => IsGate(more[n])
    BY <1>0, <1>2, <2>3 DEF IsBody
  <2>5. QED
    BY <1>2, <2>2, <2>4 DEF IsBody
<1>4. PICK f : IsRun(f, more, {})
  BY <1>3, RunExists
<1>5. PICK g : IsRun(g, body, {})
  BY RunExists
<1>6. /\ f[0] = NothingSeen /\ \A n \in 1 .. N + 1 : f[n] = Step(f[n - 1], more[n], {})
      /\ g[0] = NothingSeen /\ \A n \in 1 .. N : g[n] = Step(g[n - 1], body[n], {})
  BY <1>0, <1>2, <1>4, <1>5 DEF IsRun, IsRunTo
<1>7. \A n \in 0 .. N : f[n] = g[n]
  <2>1. 0 <= N /\ f[0] = g[0] /\ 0 + 1 = 1
    BY <1>6
  <2>2. \A n \in 0 + 1 .. N : /\ f[n] = Step(f[n - 1], more[n], {})
                              /\ g[n] = Step(g[n - 1], body[n], {})
                              /\ more[n] = body[n]
    <3>1. \A n \in 0 + 1 .. N : n \in 1 .. N /\ n \in 1 .. N + 1
      OBVIOUS
    <3>2. QED
      BY <1>2, <1>6, <3>1
  <2>3. Agree(f, more, {}, g, body, {}, 0, N)
    BY <2>1, <2>2 DEF Agree
  <2>4. QED
    BY <2>1, <2>3, RunsAgree
<1>8. f[N + 1] = Push(f[N], s)
  <2>1. N + 1 \in 1 .. N + 1 /\ N + 1 - 1 = N
    OBVIOUS
  <2>2. f[N + 1] = Step(f[N], s, {})
    BY <1>2, <1>6, <2>1
  <2>3. QED
    BY <2>2 DEF Step
<1>9. Reduced(more) = f[N + 1] /\ Reduced(body) = g[N] /\ f[N] = g[N]
  BY <1>0, <1>2, <1>3, <1>4, <1>5, <1>7, ReducedIsRun
<1>10. QED
  BY <1>1, <1>3, <1>8, <1>9

-----------------------------------------------------------------------------
(* Removing statements from a body. *)

UidsDiffer(body) ==
  \A m, n \in 1 .. Len(body) : body[m].uid = body[n].uid => m = n

(* k is what is kept of the first statements of a body. *)
IsKept(k, body, E, N) ==
  /\ k \in [0 .. N -> Seq(Range(body))] /\ k[0] = <<>>
  /\ \A n \in 1 .. N :
       k[n] = IF body[n].uid \in E THEN k[n - 1] ELSE Append(k[n - 1], body[n])

LEMMA KeptExists ==
  ASSUME NEW body, IsBody(body), NEW E
  PROVE  \E k : IsKept(k, body, E, Len(body)) /\ Without(body, E) = k[Len(body)]
<1>0. PICK N \in Nat : N = Len(body)
  BY DEF IsBody
<1>1. \A n \in 1 .. N : body[n] \in Range(body)
  BY <1>0 DEF IsBody
<1> DEFINE cell(h, n) == IF n = 0 THEN <<>>
                         ELSE IF body[n].uid \in E THEN h[n - 1]
                         ELSE Append(h[n - 1], body[n])
           reached == {n \in 0 .. N : \E k \in [0 .. n -> Seq(Range(body))] : \A m \in 0 .. n : k[m] = cell(k, m)}
<1>2. 0 \in reached
  <2>1. PICK k \in [0 .. 0 -> Seq(Range(body))] : k[0] = <<>>
    <3>1. [m \in 0 .. 0 |-> <<>>] \in [0 .. 0 -> Seq(Range(body))] /\ [m \in 0 .. 0 |-> <<>>][0] = <<>>
      OBVIOUS
    <3>2. QED
      BY <3>1
  <2>2. \A m \in 0 .. 0 : k[m] = cell(k, m)
    BY <2>1
  <2> HIDE DEF cell
  <2>3. 0 \in 0 .. N
    OBVIOUS
  <2>4. QED
    BY <2>2, <2>3
<1>3. \A n \in 0 .. N - 1 : n \in reached => n + 1 \in reached
  <2> SUFFICES ASSUME NEW n \in 0 .. N - 1, n \in reached PROVE n + 1 \in reached
    OBVIOUS
  <2>1. PICK k \in [0 .. n -> Seq(Range(body))] : \A m \in 0 .. n : k[m] = cell(k, m)
    OBVIOUS
  <2> DEFINE next == cell(k, n + 1)
             g == [m \in 0 .. n + 1 |-> IF m <= n THEN k[m] ELSE next]
  <2>2. next \in Seq(Range(body)) /\ \A m \in 0 .. n : k[m] \in Seq(Range(body))
    <3>1. k[n] \in Seq(Range(body)) /\ n + 1 # 0 /\ n + 1 - 1 = n /\ body[n + 1] \in Range(body)
      BY <1>1
    <3>2. QED
      BY <3>1
  <2> HIDE DEF next
  <2>3. g \in [0 .. n + 1 -> Seq(Range(body))]
    BY <2>2
  <2>4. ASSUME NEW m \in 0 .. n + 1 PROVE g[m] = cell(g, m)
    <3>1. CASE m <= n
      <4>0. m \in 0 .. n
        BY <3>1
      <4>1. m # 0 => m - 1 <= n /\ m - 1 \in 0 .. n + 1
        BY <3>1
      <4>2. g[m] = k[m] /\ (m # 0 => g[m - 1] = k[m - 1])
        BY <3>1, <4>1
      <4>3. k[m] = cell(k, m)
        <5> HIDE DEF g, cell
        <5>1. QED
          BY <2>1, <4>0
      <4> HIDE DEF g
      <4>4. QED
        BY <4>2, <4>3
    <3>2. CASE ~(m <= n)
      <4>1. m = n + 1 /\ m - 1 = n /\ n \in 0 .. n + 1 /\ n <= n /\ m # 0
        BY <3>2
      <4>2. g[m] = next /\ g[n] = k[n]
        BY <3>2, <4>1
      <4> HIDE DEF g
      <4>3. QED
        BY <4>1, <4>2 DEF next
    <3>3. QED
      BY <3>1, <3>2
  <2>5. n + 1 \in 0 .. N
    OBVIOUS
  <2> HIDE DEF g, cell
  <2>6. QED
    BY <2>3, <2>4, <2>5
<1>4. \A n \in 0 .. N : n \in reached
  <2> HIDE DEF reached, cell
  <2>1. QED
    BY <1>2, <1>3, Induction
<1>5. PICK k \in [0 .. N -> Seq(Range(body))] : \A m \in 0 .. N : k[m] = cell(k, m)
  BY <1>4
<1> DEFINE kept == CHOOSE kept : kept = [n \in 0 .. N |-> cell(kept, n)]
<1>6. kept = [n \in 0 .. N |-> cell(kept, n)]
  <2> HIDE DEF cell
  <2>1. k = [n \in 0 .. N |-> cell(k, n)]
    BY <1>5
  <2>2. QED
    BY <2>1
<1>7. Without(body, E) = kept[N]
  BY <1>0 DEF Without
<1>8. PICK u : u = kept
  OBVIOUS
<1> HIDE DEF kept, reached
<1> DEFINE same == {n \in 0 .. N : u[n] = k[n]}
<1>9. 0 \in same
  <2>1. 0 \in 0 .. N
    OBVIOUS
  <2>2. u[0] = cell(u, 0) /\ k[0] = cell(k, 0)
    BY <1>5, <1>6, <1>8, <2>1
  <2>3. QED
    BY <2>1, <2>2
<1>10. \A n \in 0 .. N - 1 : n \in same => n + 1 \in same
  <2> SUFFICES ASSUME NEW n \in 0 .. N - 1, n \in same PROVE n + 1 \in same
    OBVIOUS
  <2>1. n + 1 \in 0 .. N /\ n + 1 - 1 = n /\ n + 1 # 0
    OBVIOUS
  <2>2. u[n + 1] = cell(u, n + 1) /\ k[n + 1] = cell(k, n + 1)
    BY <1>5, <1>6, <1>8, <2>1
  <2>3. QED
    BY <2>1, <2>2
<1>11. \A n \in 0 .. N : n \in same
  <2> HIDE DEF same, cell
  <2>1. QED
    BY <1>9, <1>10, Induction
<1>12. N \in 0 .. N
  OBVIOUS
<1>13. Without(body, E) = k[N]
  BY <1>7, <1>8, <1>11, <1>12
<1>14. IsKept(k, body, E, N)
  <2>1. k[0] = <<>>
    BY <1>5
  <2>2. \A n \in 1 .. N : n \in 0 .. N /\ n # 0
    OBVIOUS
  <2>3. QED
    BY <1>5, <2>1, <2>2 DEF IsKept
<1>15. QED
  BY <1>0, <1>13, <1>14

(* What the qubits see without the erased statements is the end of the run *)
(* that leaves them out.                                                   *)
LEMMA WithoutIsRun ==
  ASSUME NEW body, IsBody(body), NEW E, NEW f, IsRun(f, body, E)
  PROVE  IsBody(Without(body, E)) /\ Reduced(Without(body, E)) = f[Len(body)]
<1>0. PICK N \in Nat : N = Len(body)
  BY DEF IsBody
<1>1. PICK k : IsKept(k, body, E, N) /\ Without(body, E) = k[N]
  BY <1>0, KeptExists
<1> DEFINE right == {n \in 0 .. N : IsBody(k[n]) /\ Reduced(k[n]) = f[n]}
<1>2. 0 \in right
  <2>1. IsBody(<<>>)
    <3>1. <<>> \in Seq(Range(<<>>)) /\ Len(<<>>) = 0
      OBVIOUS
    <3>2. QED
      BY <3>1 DEF IsBody
  <2>2. k[0] = <<>> /\ f[0] = NothingSeen /\ 0 \in 0 .. N
    BY <1>0, <1>1 DEF IsKept, IsRun, IsRunTo
  <2>3. QED
    BY <2>1, <2>2, ReducedEmpty
<1>3. \A n \in 0 .. N - 1 : n \in right => n + 1 \in right
  <2> SUFFICES ASSUME NEW n \in 0 .. N - 1, n \in right PROVE n + 1 \in right
    OBVIOUS
  <2>1. n + 1 \in 1 .. N /\ n + 1 - 1 = n /\ n + 1 \in 0 .. N
    OBVIOUS
  <2>2. /\ k[n + 1] = IF body[n + 1].uid \in E THEN k[n] ELSE Append(k[n], body[n + 1])
        /\ f[n + 1] = IF body[n + 1].uid \in E THEN f[n] ELSE Push(f[n], body[n + 1])
    BY <1>0, <1>1, <2>1 DEF IsKept, IsRun, IsRunTo, Step
  <2>3. Real(body[n + 1]) => IsGate(body[n + 1])
    BY <1>0, <2>1 DEF IsBody
  <2>4. /\ IsBody(Append(k[n], body[n + 1]))
        /\ Reduced(Append(k[n], body[n + 1])) = Push(f[n], body[n + 1])
    BY <2>3, ReducedAppend
  <2>5. QED
    BY <2>1, <2>2, <2>4
<1> HIDE DEF right
<1>4. \A n \in 0 .. N : n \in right
  BY <1>2, <1>3, Induction
<1>5. N \in 0 .. N
  OBVIOUS
<1>6. QED
  BY <1>0, <1>1, <1>4, <1>5 DEF right

(* and which statements are kept *)
Keeps(kept, body, E, n) ==
  /\ \A i \in 1 .. Len(kept) : \E m \in 1 .. n : kept[i] = body[m] /\ body[m].uid \notin E
  /\ \A m \in 1 .. n : body[m].uid \notin E => \E i \in 1 .. Len(kept) : kept[i] = body[m]
  /\ UidsDiffer(kept)

LEMMA WithoutKeeps ==
  ASSUME NEW body, IsBody(body), UidsDiffer(body), NEW E
  PROVE  Keeps(Without(body, E), body, E, Len(body)) /\ Without(body, E) \in Seq(Range(body))
<1>0. PICK N \in Nat : N = Len(body)
  BY DEF IsBody
<1>1. PICK k : IsKept(k, body, E, N) /\ Without(body, E) = k[N]
  BY <1>0, KeptExists
<1>2. \A n \in 0 .. N : k[n] \in Seq(Range(body))
  BY <1>1 DEF IsKept
<1> DEFINE right == {n \in 0 .. N : Keeps(k[n], body, E, n)}
<1>3. 0 \in right
  <2>1. k[0] = <<>> /\ Len(<<>>) = 0 /\ 0 \in 0 .. N
    BY <1>1 DEF IsKept
  <2>2. Keeps(<<>>, body, E, 0)
    BY <2>1 DEF Keeps, UidsDiffer
  <2>3. QED
    BY <2>1, <2>2
<1>4. \A n \in 0 .. N - 1 : n \in right => n + 1 \in right
  <2> SUFFICES ASSUME NEW n \in 0 .. N - 1, n \in right PROVE n + 1 \in right
    OBVIOUS
  <2>1. n + 1 \in 1 .. N /\ n + 1 - 1 = n /\ n + 1 \in 0 .. N /\ n \in 0 .. N
    OBVIOUS
  <2>2. k[n + 1] = IF body[n + 1].uid \in E THEN k[n] ELSE Append(k[n], body[n + 1])
    BY <1>1, <2>1 DEF IsKept
  <2>3. Keeps(k[n], body, E, n)
    OBVIOUS
  <2>4. \A m \in 1 .. n + 1 : m = n + 1 \/ m \in 1 .. n
    OBVIOUS
  <2>5. CASE body[n + 1].uid \in E
    <3>1. k[n + 1] = k[n]
      BY <2>2, <2>5
    <3>2. \A i \in 1 .. Len(k[n]) : \E m \in 1 .. n + 1 : k[n][i] = body[m] /\ body[m].uid \notin E
      <4>1. \A m \in 1 .. n : m \in 1 .. n + 1
        OBVIOUS
      <4>2. QED
        BY <2>3, <4>1 DEF Keeps
    <3>3. \A m \in 1 .. n + 1 : body[m].uid \notin E => \E i \in 1 .. Len(k[n]) : k[n][i] = body[m]
      BY <2>3, <2>4, <2>5 DEF Keeps
    <3>4. Keeps(k[n], body, E, n + 1)
      BY <2>3, <3>2, <3>3 DEF Keeps
    <3>5. QED
      BY <2>1, <3>1, <3>4
  <2>6. CASE body[n + 1].uid \notin E
    <3>1. PICK L \in Nat : L = Len(k[n])
      BY <1>2, <2>1
    <3>2. PICK kept, s : kept = Append(k[n], s) /\ s = body[n + 1] /\ k[n + 1] = kept
      BY <2>2, <2>6
    <3>3. /\ Len(kept) = L + 1 /\ kept[L + 1] = s /\ \A i \in 1 .. L : kept[i] = k[n][i]
      <4>1. k[n] \in Seq(Range(body)) /\ s \in Range(body)
        BY <1>0, <1>2, <2>1, <3>2 DEF IsBody
      <4>2. QED
        BY <3>1, <3>2, <4>1
    <3>4. \A i \in 1 .. L + 1 : i = L + 1 \/ i \in 1 .. L
      OBVIOUS
    <3>5. L + 1 \in 1 .. L + 1 /\ \A i \in 1 .. L : i \in 1 .. L + 1
      OBVIOUS
    <3>6. \A m \in 1 .. n : m \in 1 .. n + 1 /\ m # n + 1 /\ m \in 1 .. N
      OBVIOUS
    <3>7. ASSUME NEW i \in 1 .. L + 1
          PROVE  \E m \in 1 .. n + 1 : kept[i] = body[m] /\ body[m].uid \notin E
      <4>1. CASE i = L + 1
        <5>1. n + 1 \in 1 .. n + 1
          OBVIOUS
        <5>2. QED
          BY <2>6, <3>2, <3>3, <4>1, <5>1
      <4>2. CASE i \in 1 .. L
        BY <2>3, <3>1, <3>3, <3>6, <4>2 DEF Keeps
      <4>3. QED
        BY <3>4, <4>1, <4>2
    <3>8. ASSUME NEW m \in 1 .. n + 1, body[m].uid \notin E
          PROVE  \E i \in 1 .. L + 1 : kept[i] = body[m]
      <4>1. CASE m = n + 1
        BY <3>2, <3>3, <3>5, <4>1
      <4>2. CASE m \in 1 .. n
        BY <2>3, <3>1, <3>3, <3>5, <3>8, <4>2 DEF Keeps
      <4>3. QED
        BY <2>4, <4>1, <4>2
    <3>9. \A i \in 1 .. L : kept[i].uid # s.uid
      <4> SUFFICES ASSUME NEW i \in 1 .. L, kept[i].uid = s.uid PROVE FALSE
        OBVIOUS
      <4>1. PICK m \in 1 .. n : k[n][i] = body[m]
        BY <2>3, <3>1 DEF Keeps
      <4>2. body[m].uid = body[n + 1].uid
        BY <3>2, <3>3, <4>1
      <4>3. m = n + 1
        BY <1>0, <2>1, <3>6, <4>2 DEF UidsDiffer
      <4>4. QED
        BY <3>6, <4>3
    <3>10. UidsDiffer(kept)
      <4> SUFFICES ASSUME NEW i \in 1 .. L + 1, NEW j \in 1 .. L + 1, kept[i].uid = kept[j].uid
                   PROVE  i = j
        BY <3>3 DEF UidsDiffer
      <4>1. CASE i \in 1 .. L /\ j \in 1 .. L
        BY <2>3, <3>1, <3>3, <4>1 DEF Keeps, UidsDiffer
      <4>2. CASE ~(i \in 1 .. L /\ j \in 1 .. L)
        BY <3>3, <3>4, <3>9, <4>2
      <4>3. QED
        BY <4>1, <4>2
    <3>11. Keeps(kept, body, E, n + 1)
      BY <3>3, <3>7, <3>8, <3>10 DEF Keeps
    <3>12. QED
      BY <2>1, <3>2, <3>11
  <2>7. QED
    BY <2>5, <2>6
<1> HIDE DEF right
<1>5. \A n \in 0 .. N : n \in right
  BY <1>3, <1>4, Induction
<1>6. N \in 0 .. N
  OBVIOUS
<1>7. QED
  BY <1>0, <1>1, <1>2, <1>5, <1>6 DEF right

-----------------------------------------------------------------------------
(* What the erasure of one more statement, or of two, changes. *)

(* From statement M to statement N, those left out are the same. *)
SameErased(body, E, F, M, N) ==
  \A n \in M + 1 .. N : body[n].uid \in E <=> body[n].uid \in F

AlikeFrom(f, g, body, E, F, M, N) ==
  /\ IsRun(f, body, E) /\ IsRun(g, body, F) /\ f[M] = g[M]
  /\ N <= Len(body) /\ SameErased(body, E, F, M, N)

LEMMA SameErasedAgree ==
  ASSUME NEW body, IsBody(body), NEW E, NEW F, NEW f, NEW g,
         NEW M \in Nat, NEW N \in Nat, M <= N, AlikeFrom(f, g, body, E, F, M, N)
  PROVE  \A n \in M .. N : f[n] = g[n]
<1>0. PICK L \in Nat : L = Len(body)
  BY DEF IsBody
<1>1. /\ \A n \in 1 .. L : f[n] = Step(f[n - 1], body[n], E)
      /\ \A n \in 1 .. L : g[n] = Step(g[n - 1], body[n], F)
  BY <1>0 DEF AlikeFrom, IsRun, IsRunTo
<1>2. \A n \in M + 1 .. N : n \in 1 .. L
  BY <1>0 DEF AlikeFrom
<1>3. Agree(f, body, E, g, body, F, M, N)
  BY <1>1, <1>2 DEF Agree, SameErased, AlikeFrom
<1>4. QED
  BY <1>3, RunsAgree

(* Statements m and n undo each other, with nothing in between on their    *)
(* qubits that is not erased.                                              *)
UndoneBetween(body, E, m, n) ==
  /\ m \in 1 .. Len(body) /\ n \in 1 .. Len(body) /\ m < n
  /\ body[m].uid \notin E /\ body[n].uid \notin E
  /\ Real(body[m]) /\ Real(body[n]) /\ Undoes(body[n], body[m])
  /\ \A k \in m + 1 .. n - 1 :
       \/ body[k].uid \in E \/ ~Real(body[k])
       \/ QubitsOf(body[k]) \cap QubitsOf(body[m]) = {}

LEMMA PairErased ==
  ASSUME NEW body, IsBody(body), UidsDiffer(body), NEW E, NEW m, NEW n,
         UndoneBetween(body, E, m, n), NEW F, F = E \cup {body[m].uid, body[n].uid},
         NEW f, IsRun(f, body, E), NEW g, IsRun(g, body, F)
  PROVE  f[Len(body)] = g[Len(body)]
<1>0. PICK N \in Nat : N = Len(body)
  BY DEF IsBody
<1>1. /\ m \in 1 .. N /\ n \in 1 .. N /\ m < n
      /\ body[m].uid \notin E /\ body[n].uid \notin E
      /\ body[m].uid \in F /\ body[n].uid \in F
  BY <1>0 DEF UndoneBetween
<1>2. \A k \in 1 .. N : k # m /\ k # n => (body[k].uid \in E <=> body[k].uid \in F)
  BY <1>0, <1>1 DEF UidsDiffer
<1>3. /\ f[0] = NothingSeen /\ \A k \in 0 .. N : f[k] \in Good
      /\ \A k \in 1 .. N : f[k] = Step(f[k - 1], body[k], E)
  BY <1>0 DEF IsRun, IsRunTo
<1>4. /\ g[0] = NothingSeen /\ \A k \in 0 .. N : g[k] \in Good
      /\ \A k \in 1 .. N : g[k] = Step(g[k - 1], body[k], F)
  BY <1>0 DEF IsRun, IsRunTo
<1>5. \A k \in 1 .. N : Real(body[k]) => IsGate(body[k])
  BY <1>0 DEF IsBody
<1>6. PICK x \in Gates, y \in Gates : /\ x = Seen(body[m]) /\ y = Seen(body[n])
                                      /\ QubitsOf(x) = QubitsOf(body[m])
                                      /\ \A w \in Good : Push(w, body[m]) = Push(w, x)
                                      /\ \A w \in Good : Push(w, body[n]) = Push(w, y)
  <2>1. Real(body[m]) /\ Real(body[n]) /\ IsGate(body[m]) /\ IsGate(body[n])
    BY <1>1, <1>5 DEF UndoneBetween
  <2>2. NothingSeen \in Good
    BY GoodIsClosed DEF ClosedUnderLay
  <2>3. Seen(body[m]) \in Gates /\ Seen(body[n]) \in Gates
    BY <2>1, <2>2, PushStatement
  <2>4. /\ QubitsOf(Seen(body[m])) = QubitsOf(body[m])
        /\ \A w \in Good : Push(w, body[m]) = Push(w, Seen(body[m]))
        /\ \A w \in Good : Push(w, body[n]) = Push(w, Seen(body[n]))
    BY <2>1, <2>2, PushStatement
  <2>5. QED
    BY <2>3, <2>4
<1>7. Undoes(y, x)
  BY <1>6 DEF UndoneBetween, Undoes, Seen
<1>8. f[m - 1] = g[m - 1]
  <2>1. m - 1 \in Nat /\ 0 \in Nat /\ 0 <= m - 1 /\ m - 1 <= Len(body) /\ m - 1 \in 0 .. m - 1
    BY <1>0, <1>1
  <2>2. \A k \in 0 + 1 .. m - 1 : k \in 1 .. N /\ k # m /\ k # n
    BY <1>1
  <2>3. SameErased(body, E, F, 0, m - 1)
    BY <1>2, <2>2 DEF SameErased
  <2>4. AlikeFrom(f, g, body, E, F, 0, m - 1)
    BY <1>3, <1>4, <2>1, <2>3 DEF AlikeFrom
  <2>5. \A k \in 0 .. m - 1 : f[k] = g[k]
    BY <2>1, <2>4, SameErasedAgree
  <2>6. QED
    BY <2>1, <2>5
<1> DEFINE ahead == {k \in m .. n - 1 : f[k] = Push(g[k], x)}
<1>9. m \in ahead
  <2>1. m - 1 \in 0 .. N /\ m \in m .. n - 1
    BY <1>1
  <2>2. f[m] = Push(f[m - 1], body[m]) /\ g[m] = g[m - 1]
    BY <1>1, <1>3, <1>4 DEF Step
  <2>3. g[m - 1] \in Good
    BY <1>4, <2>1
  <2>4. f[m] = Push(g[m], x)
    BY <1>6, <1>8, <2>2, <2>3
  <2>5. QED
    BY <2>1, <2>4
<1>10. \A k \in m .. n - 1 - 1 : k \in ahead => k + 1 \in ahead
  <2> SUFFICES ASSUME NEW k \in m .. n - 1 - 1, k \in ahead PROVE k + 1 \in ahead
    OBVIOUS
  <2>1. /\ k + 1 \in 1 .. N /\ k + 1 - 1 = k /\ k \in 0 .. N /\ k + 1 # m /\ k + 1 # n
        /\ k + 1 \in m + 1 .. n - 1 /\ k + 1 \in m .. n - 1
    BY <1>1
  <2>2. f[k + 1] = Step(f[k], body[k + 1], E) /\ g[k + 1] = Step(g[k], body[k + 1], F)
    <3> HIDE DEF ahead
    <3>1. PICK j \in 1 .. N : j = k + 1 /\ j - 1 = k
      BY <2>1
    <3>2. f[j] = Step(f[j - 1], body[j], E) /\ g[j] = Step(g[j - 1], body[j], F)
      BY <1>3, <1>4
    <3>3. QED
      BY <3>1, <3>2
  <2>3. body[k + 1].uid \in E <=> body[k + 1].uid \in F
    BY <1>2, <2>1
  <2>4. g[k] \in Good /\ f[k] \in Good /\ f[k] = Push(g[k], x) /\ g[k] \in Wirings
    BY <1>3, <1>4, <2>1, GoodIsClosed
  <2>5. CASE body[k + 1].uid \in E
    <3>1. f[k + 1] = f[k] /\ g[k + 1] = g[k]
      BY <2>2, <2>3, <2>5 DEF Step
    <3>2. QED
      BY <2>1, <2>4, <3>1
  <2>6. CASE body[k + 1].uid \notin E /\ ~Real(body[k + 1])
    <3>1. f[k + 1] = f[k] /\ g[k + 1] = g[k]
      BY <2>2, <2>3, <2>6 DEF Step, Push, Real
    <3>2. QED
      BY <2>1, <2>4, <3>1
  <2>7. CASE body[k + 1].uid \notin E /\ Real(body[k + 1])
    <3>1. f[k + 1] = Push(f[k], body[k + 1]) /\ g[k + 1] = Push(g[k], body[k + 1])
      BY <2>2, <2>3, <2>7 DEF Step
    <3>2. PICK s : s = body[k + 1]
      OBVIOUS
    <3>3. /\ Seen(s) \in Gates /\ QubitsOf(Seen(s)) = QubitsOf(s)
          /\ Push(g[k], s) = Push(g[k], Seen(s)) /\ Push(f[k], s) = Push(f[k], Seen(s))
      BY <1>5, <2>1, <2>4, <2>7, <3>2, PushStatement
    <3>4. QubitsOf(x) \cap QubitsOf(Seen(s)) = {}
      BY <1>6, <2>1, <2>7, <3>2, <3>3 DEF UndoneBetween
    <3>5. Push(Push(g[k], x), Seen(s)) = Push(Push(g[k], Seen(s)), x)
      BY <2>4, <3>3, <3>4, PushesCommute
    <3>6. f[k + 1] = Push(g[k + 1], x)
      BY <2>4, <3>1, <3>2, <3>3, <3>5
    <3>7. QED
      BY <2>1, <3>6
  <2>8. QED
    BY <2>5, <2>6, <2>7
<1>11. f[n - 1] = Push(g[n - 1], x)
  <2> HIDE DEF ahead
  <2>1. m \in Nat /\ n - 1 \in Nat /\ n - 1 \in m .. n - 1
    BY <1>1
  <2>2. \A k \in m .. n - 1 : k \in ahead
    BY <1>9, <1>10, <2>1, Induction
  <2>3. QED
    BY <2>1, <2>2 DEF ahead
<1>12. f[n] = g[n]
  <2>1. n - 1 \in 0 .. N
    BY <1>1
  <2>2. f[n] = Push(f[n - 1], body[n]) /\ g[n] = g[n - 1]
    BY <1>1, <1>3, <1>4 DEF Step
  <2>3. g[n - 1] \in Good /\ f[n - 1] \in Good
    BY <1>3, <1>4, <2>1
  <2>4. Push(Push(g[n - 1], x), y) = g[n - 1]
    BY <1>7, <2>3, PushGood
  <2>5. QED
    BY <1>6, <1>11, <2>2, <2>3, <2>4
<1>13. \A k \in n .. N : f[k] = g[k]
  <2>1. n \in Nat /\ n <= N /\ N <= Len(body)
    BY <1>0, <1>1
  <2>2. \A k \in n + 1 .. N : k \in 1 .. N /\ k # m /\ k # n
    BY <1>1
  <2>3. SameErased(body, E, F, n, N)
    BY <1>2, <2>2 DEF SameErased
  <2>4. AlikeFrom(f, g, body, E, F, n, N)
    BY <1>12, <2>1, <2>3 DEF AlikeFrom
  <2>5. QED
    BY <2>1, <2>4, SameErasedAgree
<1>14. N \in n .. N
  BY <1>1
<1>15. QED
  BY <1>0, <1>13, <1>14

LEMMA ZeroErased ==
  ASSUME NEW body, IsBody(body), UidsDiffer(body), NEW E,
         NEW n \in 1 .. Len(body), ~Real(body[n]), NEW F, F = E \cup {body[n].uid},
         NEW f, IsRun(f, body, E), NEW g, IsRun(g, body, F)
  PROVE  f[Len(body)] = g[Len(body)]
<1>0. PICK N \in Nat : N = Len(body)
  BY DEF IsBody
<1>1. n \in 1 .. N
  BY <1>0
<1>2. \A k \in 1 .. N : k # n => (body[k].uid \in E <=> body[k].uid \in F)
  BY <1>0, <1>1 DEF UidsDiffer
<1>3. f[0] = NothingSeen /\ \A k \in 1 .. N : f[k] = Step(f[k - 1], body[k], E)
  BY <1>0 DEF IsRun, IsRunTo
<1>4. g[0] = NothingSeen /\ \A k \in 1 .. N : g[k] = Step(g[k - 1], body[k], F)
  BY <1>0 DEF IsRun, IsRunTo
<1>5. f[n - 1] = g[n - 1]
  <2>1. n - 1 \in Nat /\ 0 \in Nat /\ 0 <= n - 1 /\ n - 1 <= Len(body) /\ n - 1 \in 0 .. n - 1
    BY <1>0, <1>1
  <2>2. \A k \in 0 + 1 .. n - 1 : k \in 1 .. N /\ k # n
    BY <1>1
  <2>3. SameErased(body, E, F, 0, n - 1)
    BY <1>2, <2>2 DEF SameErased
  <2>4. AlikeFrom(f, g, body, E, F, 0, n - 1)
    BY <1>3, <1>4, <2>1, <2>3 DEF AlikeFrom
  <2>5. \A k \in 0 .. n - 1 : f[k] = g[k]
    BY <2>1, <2>4, SameErasedAgree
  <2>6. QED
    BY <2>1, <2>5
<1>6. f[n] = g[n]
  <2>1. Step(f[n - 1], body[n], E) = f[n - 1] /\ Step(g[n - 1], body[n], F) = g[n - 1]
    BY DEF Step, Push, Real
  <2>2. QED
    BY <1>1, <1>3, <1>4, <1>5, <2>1
<1>7. \A k \in n .. N : f[k] = g[k]
  <2>1. n \in Nat /\ n <= N /\ N <= Len(body)
    BY <1>0, <1>1
  <2>2. \A k \in n + 1 .. N : k \in 1 .. N /\ k # n
    BY <1>1
  <2>3. SameErased(body, E, F, n, N)
    BY <1>2, <2>2 DEF SameErased
  <2>4. AlikeFrom(f, g, body, E, F, n, N)
    BY <1>6, <2>1, <2>3 DEF AlikeFrom
  <2>5. QED
    BY <2>1, <2>4, SameErasedAgree
<1>8. N \in n .. N
  BY <1>1
<1>9. QED
  BY <1>0, <1>7, <1>8

LEMMA ErasureElsewhere ==
  ASSUME NEW body, IsBody(body), NEW E, NEW F,
         \A n \in 1 .. Len(body) : body[n].uid \in E <=> body[n].uid \in F
  PROVE  Reduced(Without(body, F)) = Reduced(Without(body, E))
<1>0. PICK N \in Nat : N = Len(body)
  BY DEF IsBody
<1>1. PICK f : IsRun(f, body, E)
  BY RunExists
<1>2. PICK g : IsRun(g, body, F)
  BY RunExists
<1>3. f[0] = g[0]
  BY <1>1, <1>2 DEF IsRun, IsRunTo
<1>4. 0 <= N /\ N <= Len(body) /\ 0 \in Nat /\ N \in 0 .. N /\ 0 + 1 = 1
  BY <1>0
<1>5. SameErased(body, E, F, 0, N)
  BY <1>0, <1>4 DEF SameErased
<1>6. \A n \in 0 .. N : f[n] = g[n]
  <2>1. AlikeFrom(f, g, body, E, F, 0, N)
    BY <1>1, <1>2, <1>3, <1>4, <1>5 DEF AlikeFrom
  <2>2. QED
    BY <1>4, <2>1, SameErasedAgree
<1>7. QED
  BY <1>0, <1>1, <1>2, <1>4, <1>6, WithoutIsRun

LEMMA ErasurePair ==
  ASSUME NEW body, IsBody(body), UidsDiffer(body), NEW E, NEW m, NEW n,
         UndoneBetween(body, E, m, n)
  PROVE  Reduced(Without(body, E \cup {body[m].uid, body[n].uid})) = Reduced(Without(body, E))
<1>1. PICK F : F = E \cup {body[m].uid, body[n].uid}
  OBVIOUS
<1>2. PICK f : IsRun(f, body, E)
  BY RunExists
<1>3. PICK g : IsRun(g, body, F)
  BY RunExists
<1>4. f[Len(body)] = g[Len(body)]
  BY <1>1, <1>2, <1>3, PairErased
<1>5. QED
  BY <1>1, <1>2, <1>3, <1>4, WithoutIsRun

LEMMA ErasureZero ==
  ASSUME NEW body, IsBody(body), UidsDiffer(body), NEW E,
         NEW n \in 1 .. Len(body), ~Real(body[n])
  PROVE  Reduced(Without(body, E \cup {body[n].uid})) = Reduced(Without(body, E))
<1>1. PICK F : F = E \cup {body[n].uid}
  OBVIOUS
<1>2. PICK f : IsRun(f, body, E)
  BY RunExists
<1>3. PICK g : IsRun(g, body, F)
  BY RunExists
<1>4. f[Len(body)] = g[Len(body)]
  BY <1>1, <1>2, <1>3, ZeroErased
<1>5. QED
  BY <1>1, <1>2, <1>3, <1>4, WithoutIsRun

-----------------------------------------------------------------------------
(* Well-formed programs, and the table of last uses. *)

Legal(s, b, p) ==
  /\ s.uid \in Nat /\ s.op \in STRING \ {"none"} /\ s.cond \in BOOLEAN
  /\ s.op = "decl" => b = "main" /\ s.args[1] \in DOMAIN p \ {"main"}
  /\ s.op # "decl" => s.args \in Seq(Arguments) \ {<<>>}

LEMMA WellFormedBodies ==
  ASSUME NEW p, WellFormed(p), NEW b \in DOMAIN p
  PROVE  /\ Len(p[b]) \in Nat /\ DOMAIN p[b] = 1 .. Len(p[b])
         /\ IsBody(p[b]) /\ UidsDiffer(p[b])
         /\ \A n \in 1 .. Len(p[b]) : Legal(p[b][n], b, p)
         /\ \A c \in DOMAIN p \ {b} : \A m \in 1 .. Len(p[b]), n \in 1 .. Len(p[c]) :
              p[b][m].uid # p[c][n].uid
<1>1. \A c \in DOMAIN p : p[c] \in Seq(Range(p[c]))
  BY DEF WellFormed
<1>2. \A c \in DOMAIN p : Len(p[c]) \in Nat /\ DOMAIN p[c] = 1 .. Len(p[c])
  BY <1>1
<1>3. ASSUME NEW n \in 1 .. Len(p[b]) PROVE Legal(p[b][n], b, p)
  <2>1. PICK s : s = p[b][n] /\ s \in Range(p[b])
    BY <1>1, <1>2
  <2>2. /\ s.uid \in Nat /\ s.op \in STRING \ {"none"} /\ s.cond \in BOOLEAN
        /\ IF s.op = "decl" THEN b = "main" /\ s.args[1] \in DOMAIN p \ {"main"}
           ELSE s.args \in Seq(Arguments) \ {<<>>}
    BY <2>1 DEF WellFormed
  <2>3. QED
    BY <2>1, <2>2 DEF Legal
<1>4. \A c \in DOMAIN p : \A m \in DOMAIN p[b], n \in DOMAIN p[c] :
        p[b][m].uid = p[c][n].uid => b = c /\ m = n
  BY DEF WellFormed
<1>5. UidsDiffer(p[b])
  BY <1>2, <1>4 DEF UidsDiffer
<1>6. \A c \in DOMAIN p \ {b} : \A m \in 1 .. Len(p[b]), n \in 1 .. Len(p[c]) :
        p[b][m].uid # p[c][n].uid
  BY <1>2, <1>4
<1>7. IsBody(p[b])
  <2>1. \A n \in 1 .. Len(p[b]) : Real(p[b][n]) => IsGate(p[b][n])
    BY <1>3 DEF Legal, Real, IsGate
  <2>2. QED
    BY <1>1, <2>1 DEF IsBody
<1>8. QED
  BY <1>2, <1>3, <1>5, <1>6, <1>7

LEMMA CancelsWithGates ==
  ASSUME NEW op
  PROVE  CancelsWith(op) \notin {"zero", "decl", ""}
BY DEF CancelsWith

Uses(s, a) == Real(s) /\ a \in Range(s.args)

(* t holds, after n statements of a body, the last that used an argument,  *)
(* unless it is erased                                                     *)
LastUses(body, n, t, E) ==
  \A a \in Arguments : t[a] # NoStatement =>
    \E m \in 1 .. n :
      /\ t[a] = body[m] /\ Uses(body[m], a) /\ body[m].uid \notin E
      /\ \A k \in m + 1 .. n : ~Uses(body[k], a)

(* and it holds one for every argument that was used *)
AllKept(body, n, t) ==
  \A a \in Arguments : \A m \in 1 .. n : Uses(body[m], a) => t[a] # NoStatement

LEMMA GateArguments ==
  ASSUME NEW s, IsGate(s)
  PROVE  /\ DOMAIN s.args = 1 .. Len(s.args) /\ 1 \in DOMAIN s.args /\ s.args # <<>>
         /\ \A n \in DOMAIN s.args : s.args[n] \in Range(s.args)
         /\ Range(s.args) \in SUBSET Arguments
         /\ \A a \in Range(s.args) : \E n \in DOMAIN s.args : s.args[n] = a
         /\ s # NoStatement
<1>1. s.args \in Seq(Arguments) /\ s.args # <<>>
  BY DEF IsGate
<1>2. DOMAIN s.args = 1 .. Len(s.args) /\ Len(s.args) \in Nat /\ Len(s.args) # 0
  BY <1>1
<1>3. 1 \in DOMAIN s.args /\ \A n \in DOMAIN s.args : s.args[n] \in Arguments
  BY <1>1, <1>2
<1>4. s # NoStatement
  <2>1. NoStatement.args = <<>>
    BY DEF NoStatement
  <2>2. QED
    BY <1>1, <2>1
<1>5. QED
  BY <1>1, <1>2, <1>3, <1>4 DEF Range

(* What merging with the table means in the body. *)
MergesAt(body, m, n, E, t) ==
  /\ m \in 1 .. n - 1 /\ body[m].uid \notin E /\ Real(body[m])
  /\ ~body[n].cond /\ body[m].op = CancelsWith(body[n].op) /\ body[m].args = body[n].args
  /\ t[body[n].args[1]] = body[m]
  /\ \A k \in m + 1 .. n - 1 : \A a \in Range(body[n].args) : ~Uses(body[k], a)

LEMMA MergesMeans ==
  ASSUME NEW body, IsBody(body), UidsDiffer(body), NEW n \in 1 .. Len(body), Real(body[n]),
         LastUses(body, n - 1, last, erasures), Merges(body[n])
  PROVE  \E m \in 1 .. n - 1 : MergesAt(body, m, n, erasures, last)
<1>0. PICK s : s = body[n]
  OBVIOUS
<1>00. PICK N \in Nat : N = n - 1 /\ n \in Nat /\ n <= Len(body) /\ Len(body) \in Nat
  BY DEF IsBody
<1>1. IsGate(s) /\ LastUses(body, N, last, erasures)
  BY <1>0, <1>00 DEF IsBody
<1>2. /\ 1 \in DOMAIN s.args /\ s.args # <<>> /\ Range(s.args) \in SUBSET Arguments
      /\ \A i \in DOMAIN s.args : s.args[i] \in Range(s.args)
      /\ \A a \in Range(s.args) : \E i \in DOMAIN s.args : s.args[i] = a
  BY <1>1, GateArguments
<1>3. /\ ~s.cond
      /\ \A i \in DOMAIN s.args : /\ last[s.args[i]].uid = last[s.args[1]].uid
                                  /\ last[s.args[i]].op = CancelsWith(s.op)
                                  /\ last[s.args[i]].args = s.args
  BY <1>0, <1>00 DEF Merges
<1>4. ASSUME NEW i \in DOMAIN s.args
      PROVE  \E m \in 1 .. N : /\ last[s.args[i]] = body[m] /\ Real(body[m]) /\ body[m].uid \notin erasures
                               /\ \A k \in m + 1 .. N : ~Uses(body[k], s.args[i])
  <2>0. NoStatement.args = <<>>
    BY DEF NoStatement
  <2>1. last[s.args[i]] # NoStatement
    BY <1>2, <1>3, <2>0
  <2>2. QED
    BY <1>1, <1>2, <2>1 DEF LastUses, Uses
<1>5. PICK m \in 1 .. N : /\ last[s.args[1]] = body[m] /\ Real(body[m]) /\ body[m].uid \notin erasures
  BY <1>2, <1>4
<1>6. ASSUME NEW i \in DOMAIN s.args, NEW k \in m + 1 .. N PROVE ~Uses(body[k], s.args[i])
  <2>1. PICK mi \in 1 .. N : last[s.args[i]] = body[mi] /\ \A j \in mi + 1 .. N : ~Uses(body[j], s.args[i])
    BY <1>4
  <2>2. body[mi].uid = body[m].uid
    BY <1>3, <1>5, <2>1
  <2>3. mi \in 1 .. Len(body) /\ m \in 1 .. Len(body)
    BY <1>0, <1>00
  <2>4. mi = m
    BY <2>2, <2>3 DEF UidsDiffer
  <2>5. QED
    BY <2>1, <2>4
<1>7. body[m].op = CancelsWith(s.op) /\ body[m].args = s.args
  BY <1>2, <1>3, <1>5
<1>8. \A k \in m + 1 .. N : \A a \in Range(s.args) : ~Uses(body[k], a)
  BY <1>2, <1>6
<1>9. MergesAt(body, m, n, erasures, last)
  BY <1>0, <1>00, <1>3, <1>5, <1>7, <1>8 DEF MergesAt
<1>10. QED
  BY <1>0, <1>00, <1>9

(* The tables after a statement. *)
LEMMA TableAfterMerge ==
  ASSUME NEW body, IsBody(body), UidsDiffer(body), NEW n \in 1 .. Len(body), Real(body[n]),
         LastUses(body, n - 1, last, erasures), NEW m, MergesAt(body, m, n, erasures, last)
  PROVE  LastUses(body, n, Forget(body[n]), erasures \cup {body[n].uid, body[m].uid})
<1>0. PICK s : s = body[n]
  OBVIOUS
<1>00. PICK N \in Nat : N = n - 1 /\ n \in Nat /\ n <= Len(body) /\ Len(body) \in Nat
  BY DEF IsBody
<1>1. LastUses(body, N, last, erasures) /\ m \in 1 .. N /\ body[m].args = s.args
  BY <1>0, <1>00 DEF MergesAt
<1>2. SUFFICES ASSUME NEW a \in Arguments, Forget(s)[a] # NoStatement
      PROVE  \E j \in 1 .. n :
               /\ Forget(s)[a] = body[j] /\ Uses(body[j], a)
               /\ body[j].uid \notin erasures \cup {s.uid, body[m].uid}
               /\ \A k \in j + 1 .. n : ~Uses(body[k], a)
  BY <1>0, <1>00 DEF LastUses
<1>3. a \notin Range(s.args) /\ Forget(s)[a] = last[a]
  BY <1>2 DEF Forget
<1>4. PICK j \in 1 .. N : /\ last[a] = body[j] /\ Uses(body[j], a) /\ body[j].uid \notin erasures
                          /\ \A k \in j + 1 .. N : ~Uses(body[k], a)
  BY <1>1, <1>2, <1>3 DEF LastUses
<1>5. j # m
  BY <1>1, <1>3, <1>4 DEF Uses
<1>6. j \in 1 .. Len(body) /\ m \in 1 .. Len(body) /\ n \in 1 .. Len(body) /\ j # n /\ j \in 1 .. n
  BY <1>0, <1>00, <1>1
<1>7. body[j].uid # s.uid /\ body[j].uid # body[m].uid
  BY <1>0, <1>00, <1>5, <1>6 DEF UidsDiffer
<1>8. \A k \in j + 1 .. n : k \in j + 1 .. N \/ k = n
  BY <1>0, <1>00
<1>9. ~Uses(s, a)
  BY <1>3 DEF Uses
<1>10. QED
  BY <1>0, <1>00, <1>3, <1>4, <1>6, <1>7, <1>8, <1>9

LEMMA TableAfterUse ==
  ASSUME NEW body, IsBody(body), NEW n \in 1 .. Len(body), Real(body[n]), body[n].uid \notin erasures,
         LastUses(body, n - 1, last, erasures), NEW t,
         t = [a \in Arguments |-> IF a \in Range(body[n].args) THEN body[n] ELSE last[a]]
  PROVE  /\ LastUses(body, n, t, erasures)
         /\ AllKept(body, n - 1, last) => AllKept(body, n, t)
<1>0. PICK s : s = body[n]
  OBVIOUS
<1>00. PICK N \in Nat : N = n - 1 /\ n \in Nat /\ n <= Len(body) /\ Len(body) \in Nat
  BY DEF IsBody
<1>1. IsGate(s) /\ s # NoStatement /\ LastUses(body, N, last, erasures)
  BY <1>0, <1>00, GateArguments DEF IsBody
<1>2. \A a \in Arguments : t[a] = IF a \in Range(s.args) THEN s ELSE last[a]
  BY <1>0, <1>00
<1>3. ASSUME NEW a \in Arguments, t[a] # NoStatement
      PROVE  \E j \in 1 .. n : /\ t[a] = body[j] /\ Uses(body[j], a) /\ body[j].uid \notin erasures
                               /\ \A k \in j + 1 .. n : ~Uses(body[k], a)
  <2>1. CASE a \in Range(s.args)
    <3>1. n \in 1 .. n /\ n + 1 .. n = {}
      BY <1>0, <1>00
    <3>2. QED
      BY <1>0, <1>00, <1>2, <2>1, <3>1 DEF Uses
  <2>2. CASE a \notin Range(s.args)
    <3>1. PICK j \in 1 .. N : /\ last[a] = body[j] /\ Uses(body[j], a) /\ body[j].uid \notin erasures
                              /\ \A k \in j + 1 .. N : ~Uses(body[k], a)
      BY <1>1, <1>2, <1>3, <2>2 DEF LastUses
    <3>2. j \in 1 .. n /\ \A k \in j + 1 .. n : k \in j + 1 .. N \/ k = n
      BY <1>0, <1>00
    <3>3. ~Uses(s, a)
      BY <2>2 DEF Uses
    <3>4. QED
      BY <1>0, <1>00, <1>2, <2>2, <3>1, <3>2, <3>3
  <2>3. QED
    BY <2>1, <2>2
<1>4. LastUses(body, n, t, erasures)
  BY <1>3 DEF LastUses
<1>5. ASSUME AllKept(body, N, last), NEW a \in Arguments, NEW m \in 1 .. n, Uses(body[m], a)
      PROVE  t[a] # NoStatement
  <2>1. m = n \/ m \in 1 .. N
    BY <1>0, <1>00
  <2>2. CASE a \in Range(s.args)
    BY <1>1, <1>2, <2>2
  <2>3. CASE a \notin Range(s.args)
    BY <1>0, <1>00, <1>2, <1>5, <2>1, <2>3 DEF AllKept, Uses
  <2>4. QED
    BY <2>2, <2>3
<1>6. QED
  BY <1>0, <1>00, <1>4, <1>5 DEF AllKept

(* A statement that uses nothing, and erasures elsewhere, leave it right. *)
LEMMA TableAfterOther ==
  ASSUME NEW body, NEW n \in Nat \ {0}, ~Real(body[n]), NEW E, NEW t,
         LastUses(body, n - 1, t, E)
  PROVE  /\ LastUses(body, n, t, E)
         /\ AllKept(body, n - 1, t) => AllKept(body, n, t)
<1>0. PICK N \in Nat : N = n - 1
  OBVIOUS
<1>1. LastUses(body, N, t, E)
  BY <1>0
<1>2. ASSUME NEW a \in Arguments, t[a] # NoStatement
      PROVE  \E j \in 1 .. n : /\ t[a] = body[j] /\ Uses(body[j], a) /\ body[j].uid \notin E
                               /\ \A k \in j + 1 .. n : ~Uses(body[k], a)
  <2>1. PICK j \in 1 .. N : /\ t[a] = body[j] /\ Uses(body[j], a) /\ body[j].uid \notin E
                            /\ \A k \in j + 1 .. N : ~Uses(body[k], a)
    BY <1>1, <1>2 DEF LastUses
  <2>2. j \in 1 .. n /\ \A k \in j + 1 .. n : k \in j + 1 .. N \/ k = n
    BY <1>0
  <2>3. QED
    BY <2>1, <2>2 DEF Uses
<1>3. ASSUME AllKept(body, N, t), NEW a \in Arguments, NEW m \in 1 .. n, Uses(body[m], a)
      PROVE  t[a] # NoStatement
  <2>1. m # n
    BY <1>3 DEF Uses
  <2>2. m \in 1 .. N
    BY <1>0, <2>1
  <2>3. QED
    BY <1>3, <2>2 DEF AllKept
<1>4. QED
  BY <1>0, <1>2, <1>3 DEF LastUses, AllKept

LEMMA TableAfterErasure ==
  ASSUME NEW body, NEW n \in Nat, NEW t, NEW E, NEW F, LastUses(body, n, t, E),
         \A m \in 1 .. n : body[m].uid \in F => body[m].uid \in E
  PROVE  LastUses(body, n, t, F)
BY DEF LastUses

-----------------------------------------------------------------------------
(* How far the pass is, in every body. *)

Declares(n, g) == bodies["main"][n].op = "decl" /\ bodies["main"][n].args[1] = g

InMain == IF where = "main" THEN at - 1 ELSE outer[1] - 1

(* the number of its statements that were visited in this pass *)
Reach(b) ==
  IF b = "main" THEN InMain
  ELSE IF b = where THEN at - 1
  ELSE IF \E n \in 1 .. InMain : Declares(n, b) THEN Len(bodies[b])
  ELSE 0

Shape ==
  /\ program \in Programs /\ WellFormed(bodies) /\ DOMAIN bodies = DOMAIN program
  /\ where \in DOMAIN bodies /\ at \in 1 .. Len(bodies[where]) + 1
  /\ where # "main" => /\ visiting
                       /\ outer[1] \in 2 .. Len(bodies["main"]) + 1
                       /\ Declares(outer[1] - 1, where)
  /\ ~visiting => at = Len(bodies["main"]) + 1

(* What is erased was visited, and is no declaration. *)
ErasedInv ==
  \A uid \in erasures :
    \E b \in DOMAIN bodies : \E n \in 1 .. Reach(b) :
      bodies[b][n].op # "decl" /\ bodies[b][n].uid = uid

LEMMA ShapeFacts ==
  Shape => /\ "main" \in DOMAIN bodies
           /\ \A b \in DOMAIN bodies : Len(bodies[b]) \in Nat
           /\ \A b \in DOMAIN bodies : IsBody(bodies[b]) /\ UidsDiffer(bodies[b])
           /\ \A b \in DOMAIN bodies : \A n \in 1 .. Len(bodies[b]) : Legal(bodies[b][n], b, bodies)
           /\ at \in Nat
           /\ where # "main" => outer[1] \in Nat
<1> SUFFICES ASSUME Shape
             PROVE  /\ "main" \in DOMAIN bodies
                    /\ \A b \in DOMAIN bodies : Len(bodies[b]) \in Nat
                    /\ \A b \in DOMAIN bodies : IsBody(bodies[b]) /\ UidsDiffer(bodies[b])
                    /\ \A b \in DOMAIN bodies : \A n \in 1 .. Len(bodies[b]) :
                         Legal(bodies[b][n], b, bodies)
                    /\ at \in Nat
                    /\ where # "main" => outer[1] \in Nat
  OBVIOUS
<1>1. WellFormed(bodies) /\ where \in DOMAIN bodies
  BY DEF Shape
<1>2. "main" \in DOMAIN bodies
  BY <1>1 DEF WellFormed
<1>3. \A b \in DOMAIN bodies :
        /\ Len(bodies[b]) \in Nat /\ IsBody(bodies[b]) /\ UidsDiffer(bodies[b])
        /\ \A n \in 1 .. Len(bodies[b]) : Legal(bodies[b][n], b, bodies)
  BY <1>1, WellFormedBodies
<1>4. at \in Nat
  BY <1>1, <1>3 DEF Shape
<1>5. where # "main" => outer[1] \in Nat
  BY <1>2, <1>3 DEF Shape
<1>6. QED
  BY <1>2, <1>3, <1>4, <1>5

LEMMA ReachFacts ==
  ASSUME Shape
  PROVE  /\ \A b \in DOMAIN bodies : Reach(b) \in 0 .. Len(bodies[b])
         /\ Reach(where) = at - 1
         /\ where # "main" => Reach("main") = outer[1] - 1
<1>1. /\ "main" \in DOMAIN bodies /\ where \in DOMAIN bodies
      /\ \A b \in DOMAIN bodies : Len(bodies[b]) \in Nat
      /\ at \in 1 .. Len(bodies[where]) + 1
      /\ where # "main" => outer[1] \in 2 .. Len(bodies["main"]) + 1
  BY ShapeFacts DEF Shape
<1>2. InMain \in 0 .. Len(bodies["main"])
  BY <1>1 DEF InMain
<1>3. Reach(where) = at - 1 /\ (where # "main" => Reach("main") = outer[1] - 1)
  BY DEF Reach, InMain
<1>4. at - 1 \in 0 .. Len(bodies[where])
  BY <1>1
<1>5. ASSUME NEW b \in DOMAIN bodies PROVE Reach(b) \in 0 .. Len(bodies[b])
  <2>1. CASE b = "main"
    BY <1>2, <2>1 DEF Reach
  <2>2. CASE b # "main" /\ b = where
    BY <1>3, <1>4, <2>2
  <2>3. CASE b # "main" /\ b # where
    <3>1. Reach(b) = Len(bodies[b]) \/ Reach(b) = 0
      BY <2>3 DEF Reach
    <3>2. QED
      BY <1>1, <3>1
  <2>4. QED
    BY <2>1, <2>2, <2>3
<1>6. QED
  BY <1>3, <1>5

(* What was not visited is not erased, nor is a declaration. *)
LEMMA NotErased ==
  ASSUME Shape, ErasedInv, NEW b \in DOMAIN bodies, NEW n \in 1 .. Len(bodies[b]),
         n > Reach(b) \/ bodies[b][n].op = "decl"
  PROVE  bodies[b][n].uid \notin erasures
<1> SUFFICES ASSUME bodies[b][n].uid \in erasures PROVE FALSE
  OBVIOUS
<1>1. PICK c \in DOMAIN bodies :
        \E k \in 1 .. Reach(c) : bodies[c][k].op # "decl" /\ bodies[c][k].uid = bodies[b][n].uid
  BY DEF ErasedInv
<1>2. PICK k \in 1 .. Reach(c) : bodies[c][k].op # "decl" /\ bodies[c][k].uid = bodies[b][n].uid
  BY <1>1
<1>3. Reach(c) \in 0 .. Len(bodies[c]) /\ Reach(b) \in 0 .. Len(bodies[b])
  BY ReachFacts
<1>4. Len(bodies[c]) \in Nat /\ Len(bodies[b]) \in Nat /\ UidsDiffer(bodies[b]) /\ WellFormed(bodies)
  BY ShapeFacts DEF Shape
<1>5. k \in 1 .. Len(bodies[c])
  BY <1>3, <1>4
<1>6. c = b
  BY <1>2, <1>4, <1>5, WellFormedBodies
<1>7. k = n
  BY <1>2, <1>4, <1>5, <1>6 DEF UidsDiffer
<1>8. QED
  BY <1>2, <1>3, <1>4, <1>6, <1>7

(* How every step moves on. *)
LEMMA VisitMoves ==
  ASSUME Shape, VisitStatement
  PROVE  /\ Shape'
         /\ \A b \in DOMAIN bodies : Reach(b)' = IF b = where THEN at ELSE Reach(b)
         /\ at \in 1 .. Len(bodies[where]) /\ bodies[where][at].op # "decl"
<1>1. /\ bodies' = bodies /\ program' = program /\ where' = where /\ outer' = outer
      /\ visiting' = visiting /\ visiting /\ at' = at + 1 /\ bodies[where][at].op # "decl"
      /\ ~(at > Len(bodies[where]))
  BY DEF VisitStatement, ast, AtEnd
<1>2. /\ "main" \in DOMAIN bodies /\ where \in DOMAIN bodies
      /\ \A b \in DOMAIN bodies : Len(bodies[b]) \in Nat
      /\ at \in Nat /\ (where # "main" => outer[1] \in Nat)
      /\ at \in 1 .. Len(bodies[where]) + 1
  BY ShapeFacts DEF Shape
<1>3. at \in 1 .. Len(bodies[where]) /\ at' \in 1 .. Len(bodies[where]) + 1 /\ at' - 1 = at
  BY <1>1, <1>2
<1>4. \A n, g : Declares(n, g)' <=> Declares(n, g)
  BY <1>1 DEF Declares
<1>5. Shape'
  <2>1. WellFormed(bodies)' <=> WellFormed(bodies)
    BY <1>1 DEF WellFormed
  <2>2. QED
    BY <1>1, <1>3, <1>4, <2>1 DEF Shape, Declares
<1>6. InMain' = IF where = "main" THEN at ELSE InMain
  BY <1>1, <1>3 DEF InMain
<1>7. ASSUME NEW b \in DOMAIN bodies PROVE Reach(b)' = IF b = where THEN at ELSE Reach(b)
  <2>1. CASE b = where
    BY <1>1, <1>3, <1>6, <2>1 DEF Reach
  <2>2. CASE b # where /\ b = "main"
    BY <1>1, <1>6, <2>2 DEF Reach
  <2>3. CASE b # where /\ b # "main"
    <3>1. (\E n \in 1 .. InMain' : Declares(n, b)) <=> (\E n \in 1 .. InMain : Declares(n, b))
      <4>1. CASE where # "main"
        BY <1>6, <4>1
      <4>2. CASE where = "main"
        <5>1. ~Declares(at, b)
          BY <1>1, <4>2 DEF Declares
        <5>2. \A n \in 1 .. at : n = at \/ n \in 1 .. at - 1
          BY <1>2
        <5>3. \A n \in 1 .. at - 1 : n \in 1 .. at
          BY <1>2
        <5>4. InMain' = at /\ InMain = at - 1
          BY <1>6, <4>2 DEF InMain
        <5>5. QED
          BY <5>1, <5>2, <5>3, <5>4
      <4>3. QED
        BY <4>1, <4>2
    <3>2. (\E n \in 1 .. InMain : Declares(n, b))' <=> (\E n \in 1 .. InMain : Declares(n, b))
      BY <1>4, <3>1
    <3>3. QED
      BY <1>1, <2>3, <3>2 DEF Reach
  <2>4. QED
    BY <2>1, <2>2, <2>3
<1>8. QED
  BY <1>1, <1>3, <1>5, <1>7

LEMMA EnterMoves ==
  ASSUME Shape, EnterGate
  PROVE  /\ Shape' /\ where = "main" /\ where' # "main"
         /\ \A b \in DOMAIN bodies : Reach(b)' = IF b = "main" THEN at ELSE Reach(b)
         /\ at \in 1 .. Len(bodies["main"]) /\ bodies["main"][at].op = "decl"
<1>1. /\ bodies' = bodies /\ program' = program /\ where' = bodies[where][at].args[1]
      /\ outer' = <<at + 1, last>> /\ outer'[1] = at + 1
      /\ visiting' = visiting /\ visiting /\ at' = 1 /\ bodies[where][at].op = "decl"
      /\ ~(at > Len(bodies[where]))
  BY DEF EnterGate, ast, AtEnd
<1>2. /\ "main" \in DOMAIN bodies /\ where \in DOMAIN bodies
      /\ \A b \in DOMAIN bodies : Len(bodies[b]) \in Nat
      /\ at \in 1 .. Len(bodies[where]) + 1
      /\ \A b \in DOMAIN bodies : \A n \in 1 .. Len(bodies[b]) : Legal(bodies[b][n], b, bodies)
  BY ShapeFacts DEF Shape
<1>3. at \in 1 .. Len(bodies[where])
  BY <1>1, <1>2
<1>4. PICK g \in DOMAIN bodies \ {"main"} : g = where' /\ where = "main" /\ Declares(at, g)
  BY <1>1, <1>2, <1>3 DEF Legal, Declares
<1>5. \A n \in 1 .. Len(bodies["main"]) : Declares(n, g) => n = at
  <2>1. DOMAIN bodies["main"] = 1 .. Len(bodies["main"])
    BY <1>2, WellFormedBodies DEF Shape
  <2>2. WellFormed(bodies)
    BY DEF Shape
  <2>3. \A m, n \in DOMAIN bodies["main"] :
          bodies["main"][m].op = "decl" /\ bodies["main"][n].op = "decl"
            /\ bodies["main"][m].args[1] = bodies["main"][n].args[1] => m = n
    BY <2>2 DEF WellFormed
  <2>4. at \in DOMAIN bodies["main"]
    BY <1>3, <1>4, <2>1
  <2>5. QED
    BY <1>4, <2>1, <2>3, <2>4 DEF Declares
<1>6. \A n, h : Declares(n, h)' <=> Declares(n, h)
  BY <1>1 DEF Declares
<1>7. Shape'
  <2>1. WellFormed(bodies)' <=> WellFormed(bodies)
    BY <1>1 DEF WellFormed
  <2>2. at' \in 1 .. Len(bodies[g]) + 1
    BY <1>1, <1>2
  <2>3. outer'[1] \in 2 .. Len(bodies["main"]) + 1 /\ outer'[1] - 1 = at
    BY <1>1, <1>3, <1>4
  <2>4. Declares(outer[1] - 1, where)'
    BY <1>4, <1>6, <2>3
  <2>5. QED
    BY <1>1, <1>4, <2>1, <2>2, <2>3, <2>4 DEF Shape
<1>8. InMain' = at /\ InMain = at - 1
  BY <1>1, <1>2, <1>4 DEF InMain
<1>9. ASSUME NEW b \in DOMAIN bodies PROVE Reach(b)' = IF b = "main" THEN at ELSE Reach(b)
  <2>1. CASE b = "main"
    BY <1>8, <2>1 DEF Reach
  <2>2. CASE b # "main" /\ b = g
    <3>1. Reach(b)' = 0
      BY <1>1, <1>4, <2>2 DEF Reach
    <3>2. \A n \in 1 .. InMain : ~Declares(n, g)
      <4>1. \A n \in 1 .. at - 1 : n \in 1 .. Len(bodies["main"]) /\ n # at
        BY <1>3, <1>4
      <4>2. QED
        BY <1>5, <1>8, <4>1
    <3>3. Reach(b) = 0
      BY <1>4, <2>2, <3>2 DEF Reach
    <3>4. QED
      BY <2>2, <3>1, <3>3
  <2>3. CASE b # "main" /\ b # g
    <3>1. ~Declares(at, b)
      BY <1>4, <2>3 DEF Declares
    <3>2. \A n \in 1 .. at : n = at \/ n \in 1 .. at - 1
      BY <1>2
    <3>3. \A n \in 1 .. at - 1 : n \in 1 .. at
      BY <1>2
    <3>4. (\E n \in 1 .. InMain' : Declares(n, b)) <=> (\E n \in 1 .. InMain : Declares(n, b))
      BY <1>8, <3>1, <3>2, <3>3
    <3>5. (\E n \in 1 .. InMain : Declares(n, b))' <=> (\E n \in 1 .. InMain : Declares(n, b))
      BY <1>6, <3>4
    <3>6. QED
      BY <1>1, <1>4, <2>3, <3>5 DEF Reach
  <2>4. QED
    BY <2>1, <2>2, <2>3
<1>10. QED
  BY <1>1, <1>3, <1>4, <1>7, <1>9

LEMMA LeaveMoves ==
  ASSUME Shape, LeaveGate
  PROVE  Shape' /\ \A b \in DOMAIN bodies : Reach(b)' = Reach(b)
<1>1. /\ bodies' = bodies /\ program' = program /\ where' = "main" /\ where # "main"
      /\ outer' = <<1, NothingLast>> /\ visiting' = visiting /\ visiting /\ at' = outer[1]
      /\ at > Len(bodies[where])
  BY DEF LeaveGate, ast, AtEnd
<1>2. /\ "main" \in DOMAIN bodies /\ where \in DOMAIN bodies
      /\ \A b \in DOMAIN bodies : Len(bodies[b]) \in Nat
      /\ at \in 1 .. Len(bodies[where]) + 1
      /\ outer[1] \in 2 .. Len(bodies["main"]) + 1 /\ Declares(outer[1] - 1, where)
  BY <1>1, ShapeFacts DEF Shape
<1>3. \A n, h : Declares(n, h)' <=> Declares(n, h)
  BY <1>1 DEF Declares
<1>4. Shape'
  <2>1. WellFormed(bodies)' <=> WellFormed(bodies)
    BY <1>1 DEF WellFormed
  <2>2. at' \in 1 .. Len(bodies["main"]) + 1
    BY <1>1, <1>2
  <2>3. QED
    BY <1>1, <1>2, <2>1, <2>2 DEF Shape
<1>5. InMain' = outer[1] - 1 /\ InMain = outer[1] - 1 /\ outer[1] - 1 \in 1 .. outer[1] - 1
  BY <1>1, <1>2 DEF InMain
<1>6. ASSUME NEW b \in DOMAIN bodies PROVE Reach(b)' = Reach(b)
  <2>1. CASE b = "main"
    BY <1>5, <2>1 DEF Reach
  <2>2. CASE b # "main" /\ b = where
    <3>1. Reach(b) = Len(bodies[b])
      BY <1>1, <1>2, <2>2 DEF Reach
    <3>2. \E n \in 1 .. InMain' : Declares(n, b)'
      BY <1>2, <1>3, <1>5, <2>2
    <3>3. Reach(b)' = Len(bodies[b])
      BY <1>1, <2>2, <3>2 DEF Reach
    <3>4. QED
      BY <3>1, <3>3
  <2>3. CASE b # "main" /\ b # where
    <3>1. (\E n \in 1 .. InMain : Declares(n, b))' <=> (\E n \in 1 .. InMain : Declares(n, b))
      BY <1>3, <1>5
    <3>2. QED
      BY <1>1, <2>3, <3>1 DEF Reach
  <2>4. QED
    BY <2>1, <2>2, <2>3
<1>7. QED
  BY <1>4, <1>6

-----------------------------------------------------------------------------
(* The tables are right, and what is erased was visited, at any time. *)

TablesInv ==
  /\ LastUses(bodies[where], at - 1, last, erasures)
  /\ erasures = {} => AllKept(bodies[where], at - 1, last)
  /\ where # "main" =>
       /\ LastUses(bodies["main"], outer[1] - 1, outer[2], erasures)
       /\ erasures = {} => AllKept(bodies["main"], outer[1] - 1, outer[2])

Inv == Shape /\ ErasedInv /\ TablesInv

(* What a visit of statement n of a body does: it passes over it, marks it *)
(* and the one it undoes, or notes it.                                     *)
VisitCases(body, n) ==
  \/ /\ body[n].op = "zero"
     /\ erasures' = erasures \cup {body[n].uid} /\ last' = last
  \/ /\ Real(body[n]) /\ Merges(body[n])
     /\ \E m \in 1 .. n - 1 :
          /\ MergesAt(body, m, n, erasures, last)
          /\ erasures' = erasures \cup {body[n].uid, body[m].uid}
     /\ last' = Forget(body[n])
  \/ /\ Real(body[n]) /\ ~Merges(body[n])
     /\ erasures' = erasures
     /\ last' = [a \in Arguments |-> IF a \in Range(body[n].args) THEN body[n] ELSE last[a]]

LEMMA Visits ==
  ASSUME Inv, VisitStatement
  PROVE  VisitCases(bodies[where], at)
<1>1. PICK body : body = bodies[where]
  OBVIOUS
<1>2. at \in 1 .. Len(body) /\ body[at].op # "decl" /\ IsBody(body) /\ UidsDiffer(body)
  BY <1>1, VisitMoves, ShapeFacts DEF Inv, Shape
<1>3. PICK s : s = body[at]
  OBVIOUS
<1>4. LastUses(body, at - 1, last, erasures)
  BY <1>1 DEF Inv, TablesInv
<1>5. \/ s.op = "zero" /\ erasures' = erasures \cup {s.uid} /\ last' = last
      \/ s.op # "zero" /\ Merges(s) /\ erasures' = erasures \cup {s.uid, last[s.args[1]].uid}
           /\ last' = Forget(s)
      \/ s.op # "zero" /\ ~Merges(s) /\ erasures' = erasures
           /\ last' = [a \in Arguments |-> IF a \in Range(s.args) THEN s ELSE last[a]]
  BY <1>1, <1>3 DEF VisitStatement
<1>6. ASSUME Real(s), Merges(s)
      PROVE  \E m \in 1 .. at - 1 : MergesAt(body, m, at, erasures, last) /\ last[s.args[1]] = body[m]
  <2>1. PICK m \in 1 .. at - 1 : MergesAt(body, m, at, erasures, last)
    BY <1>2, <1>3, <1>4, <1>6, MergesMeans
  <2>2. QED
    BY <1>3, <2>1 DEF MergesAt
<1>7. s.op # "zero" => Real(s)
  BY <1>2, <1>3 DEF Real
<1>8. VisitCases(body, at)
  BY <1>3, <1>5, <1>6, <1>7 DEF VisitCases
<1>9. QED
  BY <1>1, <1>8

LEMMA VisitErases ==
  ASSUME Inv, VisitStatement
  PROVE  /\ \A uid \in erasures' \ erasures : \E n \in 1 .. at :
              bodies[where][n].op # "decl" /\ bodies[where][n].uid = uid
         /\ erasures \in SUBSET erasures'
<1>1. PICK body : body = bodies[where]
  OBVIOUS
<1>2. at \in 1 .. Len(body) /\ body[at].op # "decl" /\ at \in Nat
  BY <1>1, VisitMoves, ShapeFacts DEF Inv
<1>3. VisitCases(body, at)
  BY <1>1, Visits
<1>4. at \in 1 .. at /\ \A m \in 1 .. at - 1 : m \in 1 .. at
  BY <1>2
<1>5. \A m : MergesAt(body, m, at, erasures, last) => m \in 1 .. at - 1 /\ body[m].op # "decl"
  BY DEF MergesAt, Real
<1>6. QED
  BY <1>1, <1>2, <1>3, <1>4, <1>5 DEF VisitCases

LEMMA VisitKeepsInv ==
  ASSUME Inv, VisitStatement
  PROVE  Inv'
<1>1. PICK body : body = bodies[where]
  OBVIOUS
<1>2. /\ Shape' /\ at \in 1 .. Len(body) /\ body[at].op # "decl" /\ at \in Nat
      /\ \A b \in DOMAIN bodies : Reach(b)' = IF b = where THEN at ELSE Reach(b)
      /\ IsBody(body) /\ UidsDiffer(body) /\ where \in DOMAIN bodies /\ "main" \in DOMAIN bodies
      /\ \A b \in DOMAIN bodies : Len(bodies[b]) \in Nat
      /\ Reach(where) = at - 1
  BY <1>1, VisitMoves, ShapeFacts, ReachFacts DEF Inv, Shape
<1>3. /\ bodies' = bodies /\ where' = where /\ outer' = outer /\ at' = at + 1 /\ at' - 1 = at
  BY <1>2 DEF VisitStatement, ast
<1>4. body[at].uid \notin erasures
  <2>1. at > Reach(where)
    BY <1>2
  <2>2. QED
    BY <1>1, <1>2, <2>1, NotErased DEF Inv
<1>5. ErasedInv'
  <2> SUFFICES ASSUME NEW uid \in erasures'
               PROVE  \E b \in DOMAIN bodies : \E n \in 1 .. Reach(b)' :
                        bodies[b][n].op # "decl" /\ bodies[b][n].uid = uid
    BY <1>3 DEF ErasedInv
  <2>1. CASE uid \in erasures
    <3>1. PICK b \in DOMAIN bodies : \E k \in 1 .. Reach(b) :
            bodies[b][k].op # "decl" /\ bodies[b][k].uid = uid
      BY <2>1 DEF Inv, ErasedInv
    <3>2. PICK k \in 1 .. Reach(b) : bodies[b][k].op # "decl" /\ bodies[b][k].uid = uid
      BY <3>1
    <3>3. k \in 1 .. Reach(b)'
      BY <1>2, <3>2
    <3>4. QED
      BY <3>2, <3>3
  <2>2. CASE uid \notin erasures
    BY <1>2, <2>2, VisitErases
  <2>3. QED
    BY <2>1, <2>2
<1>6. LastUses(body, at - 1, last, erasures) /\ (erasures = {} => AllKept(body, at - 1, last))
  BY <1>1 DEF Inv, TablesInv
<1>7. LastUses(body, at, last', erasures') /\ (erasures' = {} => AllKept(body, at, last'))
  <2>1. CASE body[at].op = "zero" /\ erasures' = erasures \cup {body[at].uid} /\ last' = last
    <3>1. LastUses(body, at, last, erasures)
      BY <1>2, <1>6, <2>1, TableAfterOther DEF Real
    <3>2. LastUses(body, at, last, erasures')
      <4>1. \A a \in Arguments : last[a] # NoStatement =>
              \E m \in 1 .. at : /\ last[a] = body[m] /\ Uses(body[m], a) /\ body[m].uid \notin erasures
                                 /\ \A k \in m + 1 .. at : ~Uses(body[k], a)
        BY <3>1 DEF LastUses
      <4>2. \A m \in 1 .. at : Real(body[m]) => body[m].uid # body[at].uid
        <5>1. \A m \in 1 .. at : m \in 1 .. Len(body)
          BY <1>2
        <5>2. ~Real(body[at])
          BY <2>1 DEF Real
        <5>3. QED
          BY <1>2, <5>1, <5>2 DEF UidsDiffer
      <4>3. \A m \in 1 .. at : \A a : Uses(body[m], a) /\ body[m].uid \notin erasures
                                       => body[m].uid \notin erasures'
        BY <2>1, <4>2 DEF Uses
      <4>4. QED
        BY <4>1, <4>3 DEF LastUses
    <3>3. QED
      BY <2>1, <3>2
  <2>2. ASSUME Real(body[at]), last' = Forget(body[at]), NEW m \in 1 .. at - 1,
               MergesAt(body, m, at, erasures, last),
               erasures' = erasures \cup {body[at].uid, body[m].uid}
        PROVE  LastUses(body, at, last', erasures') /\ erasures' # {}
    BY <1>2, <1>6, <2>2, TableAfterMerge
  <2>3. CASE /\ Real(body[at]) /\ erasures' = erasures
             /\ last' = [a \in Arguments |-> IF a \in Range(body[at].args) THEN body[at] ELSE last[a]]
    BY <1>2, <1>4, <1>6, <2>3, TableAfterUse
  <2>4. VisitCases(body, at)
    BY <1>1, Visits
  <2>5. QED
    BY <2>1, <2>2, <2>3, <2>4 DEF VisitCases
<1>8. ASSUME where # "main"
      PROVE  /\ LastUses(bodies["main"], outer[1] - 1, outer[2], erasures')
             /\ erasures' = {} => AllKept(bodies["main"], outer[1] - 1, outer[2])
  <2>1. outer[1] - 1 \in Nat /\ outer[1] - 1 <= Len(bodies["main"])
    BY <1>2, <1>8 DEF Inv, Shape
  <2>2. /\ LastUses(bodies["main"], outer[1] - 1, outer[2], erasures)
        /\ erasures = {} => AllKept(bodies["main"], outer[1] - 1, outer[2])
    BY <1>8 DEF Inv, TablesInv
  <2>3. \A m \in 1 .. outer[1] - 1 :
          bodies["main"][m].uid \in erasures' => bodies["main"][m].uid \in erasures
    <3> SUFFICES ASSUME NEW m \in 1 .. outer[1] - 1, bodies["main"][m].uid \in erasures' \ erasures
                 PROVE  FALSE
      OBVIOUS
    <3>1. PICK n \in 1 .. at : body[n].uid = bodies["main"][m].uid
      BY <1>1, VisitErases
    <3>2. n \in 1 .. Len(body) /\ m \in 1 .. Len(bodies["main"])
      BY <1>2, <2>1
    <3>3. QED
      BY <1>1, <1>2, <1>8, <3>1, <3>2, WellFormedBodies DEF Inv, Shape
  <2>4. LastUses(bodies["main"], outer[1] - 1, outer[2], erasures')
    BY <2>1, <2>2, <2>3, TableAfterErasure
  <2>5. erasures' = {} => erasures = {}
    BY VisitErases
  <2>6. QED
    BY <2>2, <2>4, <2>5
<1>9. TablesInv'
  BY <1>1, <1>3, <1>7, <1>8 DEF TablesInv
<1>10. QED
  BY <1>2, <1>5, <1>9 DEF Inv

LEMMA NothingLastFits ==
  ASSUME NEW body, NEW E
  PROVE  LastUses(body, 0, NothingLast, E) /\ AllKept(body, 0, NothingLast)
BY DEF LastUses, AllKept, NothingLast

LEMMA EnterKeepsInv ==
  ASSUME Inv, EnterGate
  PROVE  Inv'
<1>1. /\ Shape' /\ where = "main" /\ where' # "main"
      /\ \A b \in DOMAIN bodies : Reach(b)' = IF b = "main" THEN at ELSE Reach(b)
      /\ at \in 1 .. Len(bodies["main"]) /\ bodies["main"][at].op = "decl"
  BY EnterMoves DEF Inv
<1>2. /\ bodies' = bodies /\ erasures' = erasures /\ at' = 1 /\ last' = NothingLast
      /\ outer' = <<at + 1, last>>
  BY DEF EnterGate, ast
<1>3. at \in Nat \ {0} /\ Reach(where) = at - 1 /\ at' - 1 = 0 /\ outer'[1] - 1 = at /\ outer'[2] = last
  <2>1. at \in Nat /\ Reach(where) = at - 1
    BY ShapeFacts, ReachFacts DEF Inv
  <2>2. QED
    BY <1>1, <1>2, <2>1
<1>4. ErasedInv'
  <2> SUFFICES ASSUME NEW uid \in erasures
               PROVE  \E b \in DOMAIN bodies : \E n \in 1 .. Reach(b)' :
                        bodies[b][n].op # "decl" /\ bodies[b][n].uid = uid
    BY <1>2 DEF ErasedInv
  <2>1. PICK b \in DOMAIN bodies : \E k \in 1 .. Reach(b) :
          bodies[b][k].op # "decl" /\ bodies[b][k].uid = uid
    BY DEF Inv, ErasedInv
  <2>2. PICK k \in 1 .. Reach(b) : bodies[b][k].op # "decl" /\ bodies[b][k].uid = uid
    BY <2>1
  <2>3. k \in 1 .. Reach(b)'
    BY <1>1, <1>3, <2>2
  <2>4. QED
    BY <2>2, <2>3
<1>5. /\ LastUses(bodies["main"], at, last, erasures)
      /\ erasures = {} => AllKept(bodies["main"], at, last)
  <2>1. ~Real(bodies["main"][at])
    BY <1>1 DEF Real
  <2>2. /\ LastUses(bodies["main"], at - 1, last, erasures)
        /\ erasures = {} => AllKept(bodies["main"], at - 1, last)
    BY <1>1 DEF Inv, TablesInv
  <2>3. QED
    BY <1>3, <2>1, <2>2, TableAfterOther
<1>6. /\ LastUses(bodies[where'], 0, NothingLast, erasures)
      /\ AllKept(bodies[where'], 0, NothingLast)
  BY NothingLastFits
<1>7. TablesInv'
  BY <1>2, <1>3, <1>5, <1>6 DEF TablesInv
<1>8. QED
  BY <1>1, <1>4, <1>7 DEF Inv

LEMMA LeaveKeepsInv ==
  ASSUME Inv, LeaveGate
  PROVE  Inv'
<1>1. Shape' /\ \A b \in DOMAIN bodies : Reach(b)' = Reach(b)
  BY LeaveMoves DEF Inv
<1>2. /\ bodies' = bodies /\ erasures' = erasures /\ at' = outer[1] /\ last' = outer[2]
      /\ where' = "main" /\ where # "main"
  BY DEF LeaveGate, ast
<1>3. ErasedInv'
  BY <1>1, <1>2 DEF Inv, ErasedInv
<1>4. TablesInv'
  BY <1>2 DEF Inv, TablesInv
<1>5. QED
  BY <1>1, <1>3, <1>4 DEF Inv

LEMMA EndKeepsInv ==
  ASSUME Inv, EndPass \/ UNCHANGED vars
  PROVE  Inv' /\ \A b \in DOMAIN bodies : Reach(b)' = Reach(b)
<1>1. /\ bodies' = bodies /\ program' = program /\ where' = where /\ at' = at /\ last' = last
      /\ outer' = outer /\ erasures' = erasures
  BY DEF EndPass, vars, ast
<1>2. \A n, g : Declares(n, g)' <=> Declares(n, g)
  BY <1>1 DEF Declares
<1>3. \A b : Reach(b)' = Reach(b)
  BY <1>1, <1>2 DEF Reach, InMain
<1>4. Shape'
  <2>1. WellFormed(bodies)' <=> WellFormed(bodies)
    BY <1>1 DEF WellFormed
  <2>2. visiting' = visiting \/ (visiting' = FALSE /\ visiting /\ where = "main" /\ at > Len(bodies["main"]))
    BY DEF EndPass, vars, AtEnd
  <2>3. at > Len(bodies["main"]) /\ where = "main" => at = Len(bodies["main"]) + 1
    <3>1. Len(bodies["main"]) \in Nat /\ at \in 1 .. Len(bodies[where]) + 1
      BY ShapeFacts DEF Inv, Shape
    <3>2. QED
      BY <3>1
  <2>4. QED
    BY <1>1, <1>2, <2>1, <2>2, <2>3 DEF Inv, Shape
<1>5. ErasedInv'
  BY <1>1, <1>3 DEF Inv, ErasedInv
<1>6. TablesInv'
  BY <1>1 DEF Inv, TablesInv
<1>7. QED
  BY <1>3, <1>4, <1>5, <1>6 DEF Inv

-----------------------------------------------------------------------------
(* The next pass, over bodies without what was erased. *)

LEMMA KeptIsWellFormed ==
  ASSUME Shape, ErasedInv, NEW p, p = [b \in DOMAIN bodies |-> Without(bodies[b], erasures)]
  PROVE  /\ WellFormed(p) /\ DOMAIN p = DOMAIN bodies
         /\ \A b \in DOMAIN p : DOMAIN p[b] = 1 .. Len(p[b]) /\ Len(p[b]) \in Nat
         /\ \A b \in DOMAIN p : \A i \in 1 .. Len(p[b]) :
              \E m \in 1 .. Len(bodies[b]) : p[b][i] = bodies[b][m]
<1>1. /\ DOMAIN p = DOMAIN bodies /\ \A b \in DOMAIN bodies : p[b] = Without(bodies[b], erasures)
      /\ "main" \in DOMAIN bodies /\ WellFormed(bodies)
      /\ \A b \in DOMAIN bodies : /\ IsBody(bodies[b]) /\ UidsDiffer(bodies[b])
                                  /\ Len(bodies[b]) \in Nat
                                  /\ DOMAIN bodies[b] = 1 .. Len(bodies[b])
      /\ \A b \in DOMAIN bodies : \A n \in 1 .. Len(bodies[b]) : Legal(bodies[b][n], b, bodies)
  <2>1. WellFormed(bodies)
    BY DEF Shape
  <2>2. \A b \in DOMAIN bodies : DOMAIN bodies[b] = 1 .. Len(bodies[b])
    BY <2>1, WellFormedBodies
  <2>3. QED
    BY <2>1, <2>2, ShapeFacts
<1>2. ASSUME NEW b \in DOMAIN bodies
      PROVE  /\ IsBody(p[b]) /\ Keeps(p[b], bodies[b], erasures, Len(bodies[b]))
             /\ p[b] \in Seq(Range(p[b])) /\ Len(p[b]) \in Nat /\ DOMAIN p[b] = 1 .. Len(p[b])
  <2>1. PICK f : IsRun(f, bodies[b], erasures)
    BY <1>1, RunExists
  <2>2. IsBody(p[b])
    BY <1>1, <2>1, WithoutIsRun
  <2>3. Keeps(p[b], bodies[b], erasures, Len(bodies[b]))
    BY <1>1, WithoutKeeps
  <2>4. p[b] \in Seq(Range(p[b]))
    BY <2>2 DEF IsBody
  <2>5. QED
    BY <2>2, <2>3, <2>4
<1>3. ASSUME NEW b \in DOMAIN bodies, NEW i \in 1 .. Len(p[b])
      PROVE  \E m \in 1 .. Len(bodies[b]) : p[b][i] = bodies[b][m]
  BY <1>2 DEF Keeps
<1>4. ASSUME NEW b \in DOMAIN p, NEW s \in Range(p[b])
      PROVE  /\ s.uid \in Nat /\ s.op \in STRING \ {"none"} /\ s.cond \in BOOLEAN
             /\ IF s.op = "decl" THEN b = "main" /\ s.args[1] \in DOMAIN p \ {"main"}
                ELSE s.args \in Seq(Arguments) \ {<<>>}
  <2>1. PICK i \in 1 .. Len(p[b]) : s = p[b][i]
    BY <1>1, <1>2 DEF Range
  <2>2. PICK m \in 1 .. Len(bodies[b]) : s = bodies[b][m]
    BY <1>1, <1>3, <2>1
  <2>3. Legal(s, b, bodies)
    BY <1>1, <2>2
  <2>4. QED
    BY <1>1, <2>3 DEF Legal
<1>5. ASSUME NEW b \in DOMAIN p, NEW c \in DOMAIN p, NEW i \in DOMAIN p[b], NEW j \in DOMAIN p[c],
             p[b][i].uid = p[c][j].uid
      PROVE  b = c /\ i = j
  <2>1. i \in 1 .. Len(p[b]) /\ j \in 1 .. Len(p[c])
    BY <1>1, <1>2
  <2>2. PICK m \in 1 .. Len(bodies[b]) : p[b][i] = bodies[b][m]
    BY <1>1, <1>3, <2>1
  <2>3. PICK n \in 1 .. Len(bodies[c]) : p[c][j] = bodies[c][n]
    BY <1>1, <1>3, <2>1
  <2>4. b = c
    <3>1. bodies[b][m].uid = bodies[c][n].uid
      BY <1>5, <2>2, <2>3
    <3>2. QED
      BY <1>1, <3>1, WellFormedBodies
  <2>5. UidsDiffer(p[b])
    BY <1>1, <1>2 DEF Keeps
  <2>6. QED
    BY <1>5, <2>1, <2>4, <2>5 DEF UidsDiffer
<1>6. ASSUME NEW g \in DOMAIN p \ {"main"}
      PROVE  \E n \in DOMAIN p["main"] : p["main"][n].op = "decl" /\ p["main"][n].args[1] = g
  <2>1. PICK n \in 1 .. Len(bodies["main"]) :
          bodies["main"][n].op = "decl" /\ bodies["main"][n].args[1] = g
    <3>1. WellFormed(bodies) /\ g \in DOMAIN bodies \ {"main"}
      BY <1>1
    <3>2. \E n \in DOMAIN bodies["main"] :
            bodies["main"][n].op = "decl" /\ bodies["main"][n].args[1] = g
      BY <3>1, Zenon DEF WellFormed
    <3>3. QED
      BY <1>1, <3>2
  <2>2. bodies["main"][n].uid \notin erasures
    BY <1>1, <2>1, NotErased
  <2>3. PICK i \in 1 .. Len(p["main"]) : p["main"][i] = bodies["main"][n]
    BY <1>1, <1>2, <2>2 DEF Keeps
  <2>4. QED
    BY <1>1, <1>2, <2>1, <2>3
<1>7. ASSUME NEW i \in DOMAIN p["main"], NEW j \in DOMAIN p["main"],
             p["main"][i].op = "decl", p["main"][j].op = "decl",
             p["main"][i].args[1] = p["main"][j].args[1]
      PROVE  i = j
  <2>1. i \in 1 .. Len(p["main"]) /\ j \in 1 .. Len(p["main"])
    BY <1>1, <1>2
  <2>2. PICK m \in 1 .. Len(bodies["main"]) : p["main"][i] = bodies["main"][m]
    BY <1>1, <1>3, <2>1
  <2>3. PICK n \in 1 .. Len(bodies["main"]) : p["main"][j] = bodies["main"][n]
    BY <1>1, <1>3, <2>1
  <2>4. \A k, l \in DOMAIN bodies["main"] :
          bodies["main"][k].op = "decl" /\ bodies["main"][l].op = "decl"
            /\ bodies["main"][k].args[1] = bodies["main"][l].args[1] => k = l
    BY <1>1 DEF WellFormed
  <2>5. m = n
    BY <1>1, <1>7, <2>2, <2>3, <2>4
  <2>6. p["main"][i].uid = p["main"][j].uid
    BY <2>2, <2>3, <2>5
  <2>7. QED
    BY <1>1, <1>5, <2>6
<1>8. "main" \in DOMAIN p /\ \A b \in DOMAIN p : p[b] \in Seq(Range(p[b]))
  BY <1>1, <1>2
<1>9. \A b, c \in DOMAIN p : \A m \in DOMAIN p[b], n \in DOMAIN p[c] :
        p[b][m].uid = p[c][n].uid => b = c /\ m = n
  BY <1>5
<1>10. \A m, n \in DOMAIN p["main"] :
         p["main"][m].op = "decl" /\ p["main"][n].op = "decl"
           /\ p["main"][m].args[1] = p["main"][n].args[1] => m = n
  BY <1>7
<1>11. \A b \in DOMAIN p : \A s \in Range(p[b]) :
         /\ s.uid \in Nat /\ s.op \in STRING \ {"none"} /\ s.cond \in BOOLEAN
         /\ IF s.op = "decl" THEN b = "main" /\ s.args[1] \in DOMAIN p \ {"main"}
            ELSE s.args \in Seq(Arguments) \ {<<>>}
  BY <1>4
<1>12. \A g \in DOMAIN p \ {"main"} :
         \E n \in DOMAIN p["main"] : p["main"][n].op = "decl" /\ p["main"][n].args[1] = g
  BY <1>6
<1>13. WellFormed(p)
  BY <1>8, <1>9, <1>10, <1>11, <1>12 DEF WellFormed
<1>14. QED
  BY <1>1, <1>2, <1>3, <1>13

LEMMA NextKeepsInv ==
  ASSUME Inv, NextPass
  PROVE  Inv'
<1>1. /\ ~visiting /\ bodies' = [b \in DOMAIN bodies |-> Without(bodies[b], erasures)]
      /\ at' = 1 /\ last' = NothingLast /\ erasures' = {} /\ visiting' = TRUE
      /\ program' = program /\ where' = where /\ outer' = outer
  BY DEF NextPass
<1>2. where = "main" /\ "main" \in DOMAIN bodies /\ Shape /\ ErasedInv
  BY <1>1, ShapeFacts DEF Inv, Shape
<1>3. PICK p : p = [b \in DOMAIN bodies |-> Without(bodies[b], erasures)] /\ p = bodies'
  BY <1>1
<1>4. WellFormed(p) /\ DOMAIN p = DOMAIN bodies /\ Len(p["main"]) \in Nat
  BY <1>2, <1>3, KeptIsWellFormed
<1>5. Shape'
  <2>1. WellFormed(bodies)'
    BY <1>3, <1>4 DEF WellFormed
  <2>2. program' \in Programs /\ DOMAIN bodies' = DOMAIN program'
    BY <1>1, <1>3, <1>4 DEF Inv, Shape
  <2>3. at' \in 1 .. Len(bodies'["main"]) + 1
    BY <1>1, <1>3, <1>4
  <2>4. QED
    BY <1>1, <1>2, <1>3, <1>4, <2>1, <2>2, <2>3 DEF Shape
<1>6. ErasedInv'
  BY <1>1 DEF ErasedInv
<1>7. TablesInv'
  <2>1. /\ LastUses(bodies'["main"], 0, NothingLast, {}) /\ AllKept(bodies'["main"], 0, NothingLast)
    BY NothingLastFits
  <2>2. at' - 1 = 0 /\ where' = "main"
    BY <1>1, <1>2
  <2>3. QED
    BY <1>1, <2>1, <2>2 DEF TablesInv
<1>8. QED
  BY <1>5, <1>6, <1>7 DEF Inv

LEMMA InitInv == Init => Inv
<1> SUFFICES ASSUME Init PROVE Inv
  OBVIOUS
<1>1. /\ program \in Programs /\ bodies = program /\ where = "main" /\ at = 1 /\ last = NothingLast
      /\ erasures = {} /\ visiting = TRUE
  BY DEF Init
<1>2. WellFormed(bodies)
  BY <1>1, ProgramAssumption
<1>3. "main" \in DOMAIN bodies /\ Len(bodies["main"]) \in Nat
  <2>1. "main" \in DOMAIN bodies
    BY <1>2 DEF WellFormed
  <2>2. QED
    BY <1>2, <2>1, WellFormedBodies
<1>4. Shape
  BY <1>1, <1>2, <1>3 DEF Shape
<1>5. ErasedInv
  BY <1>1 DEF ErasedInv
<1>6. TablesInv
  <2>1. LastUses(bodies["main"], 0, NothingLast, {}) /\ AllKept(bodies["main"], 0, NothingLast)
    BY NothingLastFits
  <2>2. at - 1 = 0
    BY <1>1
  <2>3. QED
    BY <1>1, <2>1, <2>2 DEF TablesInv
<1>7. QED
  BY <1>4, <1>5, <1>6 DEF Inv

LEMMA NextInv == Inv /\ [Next]_vars => Inv'
<1> SUFFICES ASSUME Inv, [Next]_vars PROVE Inv'
  OBVIOUS
<1>1. CASE VisitStatement
  BY <1>1, VisitKeepsInv
<1>2. CASE EnterGate
  BY <1>2, EnterKeepsInv
<1>3. CASE LeaveGate
  BY <1>3, LeaveKeepsInv
<1>4. CASE EndPass \/ UNCHANGED vars
  BY <1>4, EndKeepsInv
<1>5. CASE NextPass
  BY <1>5, NextKeepsInv
<1>6. QED
  BY <1>1, <1>2, <1>3, <1>4, <1>5 DEF Next

(* The invariant of the passes: the tables hold the last use of every      *)
(* argument in the body, of those not erased; only what was visited, and   *)
(* never a declaration, is erased.                                         *)
THEOREM TablesAreRight == Spec => []Inv
<1>1. QED
  BY InitInv, NextInv, PTL DEF Spec

-----------------------------------------------------------------------------
(* Erasing preserves the meaning. *)

ApartInv == NoInverseUnderIf(bodies)

LEMMA NextApart == Inv /\ ApartInv /\ [Next]_vars => ApartInv'
<1> SUFFICES ASSUME Inv, ApartInv, [Next]_vars PROVE ApartInv'
  OBVIOUS
<1>1. CASE VisitStatement \/ EnterGate \/ LeaveGate \/ EndPass \/ UNCHANGED vars
  <2>1. bodies' = bodies
    BY <1>1 DEF VisitStatement, EnterGate, LeaveGate, EndPass, vars, ast
  <2>2. QED
    BY <2>1 DEF ApartInv, NoInverseUnderIf
<1>2. CASE NextPass
  <2>1. PICK p : p = [b \in DOMAIN bodies |-> Without(bodies[b], erasures)] /\ p = bodies'
    BY <1>2 DEF NextPass
  <2>2. /\ DOMAIN p = DOMAIN bodies
        /\ \A b \in DOMAIN p : DOMAIN p[b] = 1 .. Len(p[b])
        /\ \A b \in DOMAIN p : \A i \in 1 .. Len(p[b]) :
             \E m \in 1 .. Len(bodies[b]) : p[b][i] = bodies[b][m]
    BY <2>1, KeptIsWellFormed DEF Inv
  <2>3. \A b \in DOMAIN bodies : DOMAIN bodies[b] = 1 .. Len(bodies[b])
    BY WellFormedBodies DEF Inv, Shape
  <2>4. ASSUME NEW b \in DOMAIN p, NEW i \in DOMAIN p[b], NEW j \in DOMAIN p[b],
               ~p[b][i].cond, p[b][j].op = CancelsWith(p[b][i].op), p[b][j].args = p[b][i].args
        PROVE  ~p[b][j].cond
    <3>1. PICK m \in DOMAIN bodies[b] : p[b][i] = bodies[b][m]
      BY <2>2, <2>3
    <3>2. PICK n \in DOMAIN bodies[b] : p[b][j] = bodies[b][n]
      BY <2>2, <2>3
    <3>3. QED
      BY <2>2, <2>4, <3>1, <3>2 DEF ApartInv, NoInverseUnderIf
  <2>5. NoInverseUnderIf(p)
    BY <2>4 DEF NoInverseUnderIf
  <2>6. QED
    BY <2>1, <2>5 DEF ApartInv, NoInverseUnderIf
<1>3. QED
  BY <1>1, <1>2 DEF Next

(* With qubits for arguments, gates that share none are on other qubits. *)
LEMMA ApartOnQubits ==
  ASSUME Desugared, NEW s, NEW t, IsGate(s), IsGate(t), Range(s.args) \cap Range(t.args) = {}
  PROVE  QubitsOf(s) \cap QubitsOf(t) = {}
<1>1. Range(s.args) \in SUBSET Arguments /\ Range(t.args) \in SUBSET Arguments
  BY GateArguments
<1>2. SUFFICES ASSUME NEW q, q \in QubitsOf(s), q \in QubitsOf(t) PROVE FALSE
  OBVIOUS
<1>3. PICK a \in Range(s.args) : q \in Touches[a]
  BY <1>2 DEF QubitsOf
<1>4. PICK b \in Range(t.args) : q \in Touches[b]
  BY <1>2 DEF QubitsOf
<1>5. a # b
  BY <1>3, <1>4
<1>6. QED
  BY <1>1, <1>3, <1>4, <1>5 DEF Desugared

LEMMA VisitPreserves ==
  ASSUME Desugared, Inv, ApartInv, VisitStatement
  PROVE  \A b \in DOMAIN bodies :
           Reduced(Without(bodies[b], erasures')) = Reduced(Without(bodies[b], erasures))
<1>1. PICK body : body = bodies[where]
  OBVIOUS
<1>2. /\ at \in 1 .. Len(body) /\ body[at].op # "decl" /\ at \in Nat /\ Len(body) \in Nat
      /\ IsBody(body) /\ UidsDiffer(body) /\ where \in DOMAIN bodies
      /\ Reach(where) = at - 1
      /\ \A b \in DOMAIN bodies : IsBody(bodies[b]) /\ Len(bodies[b]) \in Nat
  BY <1>1, VisitMoves, ShapeFacts, ReachFacts DEF Inv, Shape
<1>3. body[at].uid \notin erasures
  <2>1. at > Reach(where)
    BY <1>2
  <2>2. QED
    BY <1>1, <1>2, <2>1, NotErased DEF Inv
<1>4. Reduced(Without(body, erasures')) = Reduced(Without(body, erasures))
  <2>1. CASE body[at].op = "zero" /\ erasures' = erasures \cup {body[at].uid}
    BY <1>2, <2>1, ErasureZero DEF Real
  <2>2. ASSUME Real(body[at]), NEW m \in 1 .. at - 1, MergesAt(body, m, at, erasures, last),
               erasures' = erasures \cup {body[at].uid, body[m].uid}
        PROVE  Reduced(Without(body, erasures')) = Reduced(Without(body, erasures))
    <3>1. /\ m \in 1 .. Len(body) /\ m < at /\ body[m].uid \notin erasures /\ Real(body[m])
          /\ ~body[at].cond /\ body[m].op = CancelsWith(body[at].op) /\ body[m].args = body[at].args
          /\ \A k \in m + 1 .. at - 1 : \A a \in Range(body[at].args) : ~Uses(body[k], a)
      BY <1>2, <2>2 DEF MergesAt
    <3>2. ~body[m].cond
      <4>1. DOMAIN body = 1 .. Len(body)
        BY <1>1, <1>2, WellFormedBodies DEF Inv, Shape
      <4>2. QED
        BY <1>1, <1>2, <3>1, <4>1 DEF ApartInv, NoInverseUnderIf
    <3>3. Undoes(body[at], body[m])
      BY <3>1, <3>2 DEF Undoes
    <3>4. ASSUME NEW k \in m + 1 .. at - 1, Real(body[k])
          PROVE  QubitsOf(body[k]) \cap QubitsOf(body[m]) = {}
      <4>1. k \in 1 .. Len(body)
        BY <1>2, <3>1
      <4>2. IsGate(body[k]) /\ IsGate(body[m])
        BY <1>2, <3>1, <3>4, <4>1 DEF IsBody
      <4>3. Range(body[k].args) \cap Range(body[m].args) = {}
        BY <3>1, <3>4 DEF Uses
      <4>4. QED
        BY <4>2, <4>3, ApartOnQubits
    <3>5. UndoneBetween(body, erasures, m, at)
      BY <1>2, <1>3, <2>2, <3>1, <3>3, <3>4 DEF UndoneBetween
    <3>6. erasures' = erasures \cup {body[m].uid, body[at].uid}
      BY <2>2
    <3>7. QED
      BY <1>2, <3>5, <3>6, ErasurePair
  <2>3. CASE erasures' = erasures
    BY <2>3
  <2>4. VisitCases(body, at)
    BY <1>1, Visits
  <2>5. QED
    BY <2>1, <2>2, <2>3, <2>4 DEF VisitCases
<1>5. ASSUME NEW b \in DOMAIN bodies, b # where
      PROVE  Reduced(Without(bodies[b], erasures')) = Reduced(Without(bodies[b], erasures))
  <2>1. ASSUME NEW n \in 1 .. Len(bodies[b]), bodies[b][n].uid \in erasures' \ erasures
        PROVE  FALSE
    <3>1. PICK k \in 1 .. at : body[k].uid = bodies[b][n].uid
      BY <1>1, <2>1, VisitErases
    <3>2. k \in 1 .. Len(body)
      BY <1>2
    <3>3. QED
      BY <1>1, <1>2, <1>5, <3>1, <3>2, WellFormedBodies DEF Inv, Shape
  <2>2. erasures \in SUBSET erasures'
    BY VisitErases
  <2>3. \A n \in 1 .. Len(bodies[b]) : bodies[b][n].uid \in erasures <=> bodies[b][n].uid \in erasures'
    BY <2>1, <2>2
  <2>4. QED
    BY <1>2, <2>3, ErasureElsewhere
<1>6. QED
  BY <1>1, <1>4, <1>5

LEMMA WithoutNothing ==
  ASSUME NEW body, IsBody(body)
  PROVE  Reduced(Without(body, {})) = Reduced(body)
<1>1. PICK f : IsRun(f, body, {})
  BY RunExists
<1>2. QED
  BY <1>1, WithoutIsRun, ReducedIsRun

LEMMA NextPreserves ==
  ASSUME Desugared
  PROVE  Inv /\ ApartInv /\ MeaningPreserved /\ [Next]_vars => MeaningPreserved'
<1> SUFFICES ASSUME Inv, ApartInv, MeaningPreserved, [Next]_vars PROVE MeaningPreserved'
  OBVIOUS
<1>1. \A b \in DOMAIN bodies : Reduced(Without(bodies[b], erasures)) = Reduced(program[b])
  BY DEF MeaningPreserved
<1>2. CASE VisitStatement
  <2>1. bodies' = bodies /\ program' = program
    BY <1>2 DEF VisitStatement, ast
  <2>2. QED
    BY <1>1, <1>2, <2>1, VisitPreserves DEF MeaningPreserved
<1>3. CASE EnterGate \/ LeaveGate \/ EndPass \/ UNCHANGED vars
  <2>1. bodies' = bodies /\ program' = program /\ erasures' = erasures
    BY <1>3 DEF EnterGate, LeaveGate, EndPass, vars, ast
  <2>2. QED
    BY <1>1, <2>1 DEF MeaningPreserved
<1>4. CASE NextPass
  <2>1. PICK p : p = [b \in DOMAIN bodies |-> Without(bodies[b], erasures)] /\ p = bodies'
    BY <1>4 DEF NextPass
  <2>2. program' = program /\ erasures' = {}
    BY <1>4 DEF NextPass
  <2>3. WellFormed(p) /\ DOMAIN p = DOMAIN bodies
    BY <2>1, KeptIsWellFormed DEF Inv
  <2>4. ASSUME NEW b \in DOMAIN p PROVE Reduced(Without(p[b], {})) = Reduced(program[b])
    <3>1. IsBody(p[b])
      BY <2>3, WellFormedBodies
    <3>2. Reduced(Without(p[b], {})) = Reduced(p[b])
      BY <3>1, WithoutNothing
    <3>3. p[b] = Without(bodies[b], erasures)
      BY <2>1, <2>3
    <3>4. QED
      BY <1>1, <2>3, <3>2, <3>3
  <2>5. QED
    BY <2>1, <2>2, <2>4 DEF MeaningPreserved
<1>5. QED
  BY <1>2, <1>3, <1>4 DEF Next

LEMMA InitPreserves ==
  ASSUME \A p \in Programs : NoInverseUnderIf(p)
  PROVE  Init => ApartInv /\ MeaningPreserved
<1> SUFFICES ASSUME Init PROVE ApartInv /\ MeaningPreserved
  OBVIOUS
<1>1. program \in Programs /\ bodies = program /\ erasures = {}
  BY DEF Init
<1>2. \A b \in DOMAIN bodies : IsBody(bodies[b])
  BY InitInv, ShapeFacts DEF Inv
<1>3. MeaningPreserved
  BY <1>1, <1>2, WithoutNothing DEF MeaningPreserved
<1>4. QED
  BY <1>1, <1>3 DEF ApartInv

(* Whatever is erased, at any time in any pass, the qubits see of every    *)
(* body what they saw of it when it was parsed: provided the arguments are *)
(* qubits, as they are after desugaring, and no gate under an if undoes    *)
(* one that is under none (see the finding on simplify.hpp:87).            *)
THEOREM ErasuresCancel ==
  ASSUME Desugared, \A p \in Programs : NoInverseUnderIf(p)
  PROVE  Spec => []MeaningPreserved
<1>1. Init => Inv /\ ApartInv /\ MeaningPreserved
  BY InitInv, InitPreserves
<1>2. Inv /\ ApartInv /\ MeaningPreserved /\ [Next]_vars => (Inv /\ ApartInv /\ MeaningPreserved)'
  BY NextInv, NextApart, NextPreserves
<1>3. QED
  BY <1>1, <1>2, PTL DEF Spec

-----------------------------------------------------------------------------
(* What is left. *)

(* Statement n has no effect, or undoes an earlier one with nothing in     *)
(* between on its qubits.                                                  *)
Removable(body, n) ==
  \/ body[n].op = "zero"
  \/ \E m \in 1 .. n - 1 :
       /\ Real(body[n]) /\ Undoes(body[n], body[m])
       /\ \A k \in m + 1 .. n - 1 : QubitsOf(body[k]) \cap QubitsOf(body[n]) = {}

NothingPassedOver ==
  erasures = {} =>
    \A b \in DOMAIN bodies : \A n \in 1 .. Reach(b) : ~Removable(bodies[b], n)

(* A statement that could be removed is zero or merges. *)
LEMMA RemovableMerges ==
  ASSUME NEW body, IsBody(body), NEW n \in 1 .. Len(body), Removable(body, n), body[n].op # "zero",
         LastUses(body, n - 1, last, erasures), AllKept(body, n - 1, last)
  PROVE  Merges(body[n])
<1>1. PICK s : s = body[n]
  OBVIOUS
<1>2. PICK N \in Nat : N = n - 1 /\ n \in Nat /\ n <= Len(body) /\ Len(body) \in Nat
  BY DEF IsBody
<1>3. PICK m \in 1 .. N : /\ Real(s) /\ Undoes(s, body[m])
                          /\ \A k \in m + 1 .. N : QubitsOf(body[k]) \cap QubitsOf(s) = {}
  BY <1>1, <1>2 DEF Removable
<1>4. ~s.cond /\ body[m].op = CancelsWith(s.op) /\ body[m].args = s.args
  BY <1>3 DEF Undoes
<1>5. Real(body[m]) /\ IsGate(s)
  BY <1>1, <1>3, <1>4, CancelsWithGates DEF Real, IsBody
<1>6. ASSUME NEW i \in DOMAIN s.args PROVE last[s.args[i]] = body[m]
  <2>1. PICK a \in Arguments : a = s.args[i] /\ a \in Range(s.args)
    BY <1>5, GateArguments
  <2>2. Uses(body[m], a)
    BY <1>4, <1>5, <2>1 DEF Uses
  <2>3. last[a] # NoStatement
    BY <1>2, <2>2 DEF AllKept
  <2>4. PICK j \in 1 .. N : /\ last[a] = body[j] /\ Uses(body[j], a)
                            /\ \A k \in j + 1 .. N : ~Uses(body[k], a)
    BY <1>2, <2>3 DEF LastUses
  <2>5. ~(m > j)
    <3>1. m > j => m \in j + 1 .. N
      OBVIOUS
    <3>2. QED
      BY <2>2, <2>4, <3>1
  <2>6. ~(m < j)
    <3> SUFFICES ASSUME m < j PROVE FALSE
      OBVIOUS
    <3>1. j \in m + 1 .. N
      OBVIOUS
    <3>2. PICK q : q \in Touches[a]
      BY TouchesAssumption
    <3>3. q \in QubitsOf(body[j]) /\ q \in QubitsOf(s)
      BY <1>3, <2>1, <2>4, <3>2 DEF QubitsOf, Uses, Real
    <3>4. QED
      BY <1>3, <3>1, <3>3
  <2>7. j = m
    BY <2>5, <2>6
  <2>8. QED
    BY <2>1, <2>4, <2>7
<1>7. 1 \in DOMAIN s.args
  BY <1>5, GateArguments
<1>8. Merges(s)
  BY <1>4, <1>6, <1>7 DEF Merges
<1>9. QED
  BY <1>1, <1>8

LEMMA VisitPassesNothing ==
  ASSUME Inv, NothingPassedOver, VisitStatement
  PROVE  NothingPassedOver'
<1>1. PICK body : body = bodies[where]
  OBVIOUS
<1>2. /\ at \in 1 .. Len(body) /\ body[at].op # "decl" /\ at \in Nat
      /\ IsBody(body) /\ where \in DOMAIN bodies
      /\ \A b \in DOMAIN bodies : Reach(b)' = IF b = where THEN at ELSE Reach(b)
      /\ Reach(where) = at - 1
  BY <1>1, VisitMoves, ShapeFacts, ReachFacts DEF Inv, Shape
<1>3. bodies' = bodies
  BY DEF VisitStatement, ast
<1>4. SUFFICES ASSUME erasures' = {}, NEW b \in DOMAIN bodies, NEW n \in 1 .. Reach(b)',
                      Removable(bodies[b], n)
               PROVE  FALSE
  BY <1>3 DEF NothingPassedOver, Removable
<1>5. erasures = {}
  BY <1>4, VisitErases
<1>6. b = where /\ n = at
  <2>1. n \notin 1 .. Reach(b)
    BY <1>4, <1>5 DEF NothingPassedOver
  <2>2. QED
    BY <1>2, <2>1
<1>7. body[at].op # "zero" /\ ~Merges(body[at])
  <2>1. VisitCases(body, at)
    BY <1>1, Visits
  <2>2. body[at].uid \notin erasures'
    BY <1>4
  <2>3. Real(body[at]) /\ ~Merges(body[at])
    BY <2>1, <2>2 DEF VisitCases
  <2>4. QED
    BY <2>3 DEF Real
<1>8. LastUses(body, at - 1, last, erasures) /\ AllKept(body, at - 1, last)
  BY <1>1, <1>5 DEF Inv, TablesInv
<1>9. QED
  BY <1>1, <1>2, <1>4, <1>6, <1>7, <1>8, RemovableMerges

LEMMA NextPassesNothing == Inv /\ NothingPassedOver /\ [Next]_vars => NothingPassedOver'
<1> SUFFICES ASSUME Inv, NothingPassedOver, [Next]_vars PROVE NothingPassedOver'
  OBVIOUS
<1>1. CASE VisitStatement
  BY <1>1, VisitPassesNothing
<1>2. CASE EnterGate
  <2>1. bodies' = bodies /\ erasures' = erasures
    BY <1>2 DEF EnterGate, ast
  <2>2. /\ \A b \in DOMAIN bodies : Reach(b)' = IF b = "main" THEN at ELSE Reach(b)
        /\ where = "main" /\ bodies["main"][at].op = "decl" /\ Reach(where) = at - 1 /\ at \in Nat
    BY <1>2, EnterMoves, ReachFacts, ShapeFacts DEF Inv
  <2>3. ~Removable(bodies["main"], at)
    BY <2>2 DEF Removable, Real
  <2>4. ASSUME erasures = {}, NEW b \in DOMAIN bodies, NEW n \in 1 .. Reach(b)'
        PROVE  ~Removable(bodies[b], n)
    <3>1. n \in 1 .. Reach(b) \/ (b = "main" /\ n = at)
      BY <2>2, <2>4
    <3>2. QED
      BY <2>3, <2>4, <3>1 DEF NothingPassedOver
  <2>5. QED
    BY <2>1, <2>4 DEF NothingPassedOver, Removable
<1>3. CASE LeaveGate \/ EndPass \/ UNCHANGED vars
  <2>1. bodies' = bodies /\ erasures' = erasures
    BY <1>3 DEF LeaveGate, EndPass, vars, ast
  <2>2. \A b \in DOMAIN bodies : Reach(b)' = Reach(b)
    BY <1>3, LeaveMoves, EndKeepsInv DEF Inv
  <2>3. QED
    BY <2>1, <2>2 DEF NothingPassedOver, Removable
<1>4. CASE NextPass
  <2>1. erasures # {} /\ ~visiting /\ at' = 1 /\ where' = where
        /\ bodies' = [b \in DOMAIN bodies |-> Without(bodies[b], erasures)]
    BY <1>4 DEF NextPass
  <2>2. where' = "main"
    BY <2>1 DEF Inv, Shape
  <2>3. InMain' = 0
    BY <2>1, <2>2 DEF InMain
  <2>4. \A b : Reach(b)' = 0
    <3>1. 1 .. InMain' = {}
      BY <2>3
    <3>2. ~\E n \in 1 .. InMain' : TRUE
      BY <3>1
    <3>3. QED
      BY <2>2, <2>3, <3>2 DEF Reach
  <2>5. QED
    BY <2>4 DEF NothingPassedOver
<1>5. QED
  BY <1>1, <1>2, <1>3, <1>4 DEF Next

LEMMA InitPassesNothing == Init => NothingPassedOver
<1> SUFFICES ASSUME Init PROVE NothingPassedOver
  OBVIOUS
<1>1. where = "main" /\ at = 1
  BY DEF Init
<1>2. InMain = 0 /\ 1 .. InMain = {}
  BY <1>1 DEF InMain
<1>3. \A b : Reach(b) = 0
  BY <1>1, <1>2 DEF Reach
<1>4. QED
  BY <1>3 DEF NothingPassedOver

-----------------------------------------------------------------------------
(* A body of which no statement could be removed reduces to itself. *)

OnWire(body, n, q) == {m \in 1 .. n : q \in QubitsOf(body[m])}

(* the last on every wire is the last statement on that qubit *)
LastOnWires(w, body, n) ==
  \A q \in Qubits : w[q] # <<>> =>
    \E m \in 1 .. n : /\ q \in QubitsOf(body[m]) /\ Last(w[q]) = Seen(body[m])
                      /\ \A k \in m + 1 .. n : q \notin QubitsOf(body[k])

LEMMA LastsCancelNothing ==
  ASSUME NEW body, IsBody(body), NEW n \in 1 .. Len(body), Real(body[n]), ~Removable(body, n),
         NEW w, LastOnWires(w, body, n - 1)
  PROVE  ~Cancels(w, body[n])
<1> SUFFICES ASSUME Cancels(w, body[n]) PROVE FALSE
  OBVIOUS
<1>1. PICK s : s = body[n]
  OBVIOUS
<1>2. PICK N \in Nat : N = n - 1 /\ n \in Nat /\ n <= Len(body) /\ Len(body) \in Nat
  BY DEF IsBody
<1>3. IsGate(s) /\ s.op # "decl" /\ Real(s)
  BY <1>1 DEF IsBody, Real
<1>4. QubitsOf(s) \in SUBSET Qubits /\ QubitsOf(s) # {}
  <2>1. PICK a \in Range(s.args) : a \in Arguments
    BY <1>3, GateArguments
  <2>2. PICK q : q \in Touches[a]
    BY <2>1, TouchesAssumption
  <2>3. Range(s.args) \in SUBSET Arguments
    BY <1>3, GateArguments
  <2>4. QED
    BY <1>3, <2>1, <2>2, <2>3 DEF QubitsOf, Qubits
<1>5. ASSUME NEW q \in QubitsOf(s)
      PROVE  \E m \in 1 .. N : /\ q \in QubitsOf(body[m]) /\ Undoes(s, body[m])
                               /\ QubitsOf(body[m]) = QubitsOf(s)
                               /\ \A k \in m + 1 .. N : q \notin QubitsOf(body[k])
  <2>1. w[q] # <<>> /\ Undoes(s, Last(w[q]))
    BY <1>1 DEF Cancels
  <2>2. PICK m \in 1 .. N : /\ q \in QubitsOf(body[m]) /\ Last(w[q]) = Seen(body[m])
                            /\ \A k \in m + 1 .. N : q \notin QubitsOf(body[k])
    BY <1>2, <1>4, <2>1 DEF LastOnWires
  <2>3. Undoes(s, body[m])
    BY <2>1, <2>2 DEF Undoes, Seen
  <2>4. QubitsOf(body[m]) = QubitsOf(s)
    <3>1. body[m].args = s.args /\ body[m].op # "decl"
      BY <2>3, CancelsWithGates DEF Undoes
    <3>2. QED
      BY <1>3, <3>1 DEF QubitsOf
  <2>5. QED
    BY <2>2, <2>3, <2>4
<1>6. PICK p \in QubitsOf(s) : TRUE
  BY <1>4
<1>7. PICK m \in 1 .. N : /\ Undoes(s, body[m])
                          /\ \A k \in m + 1 .. N : p \notin QubitsOf(body[k])
  BY <1>5
<1>8. PICK k \in m + 1 .. N : QubitsOf(body[k]) \cap QubitsOf(s) # {}
  BY <1>1, <1>2, <1>3, <1>7 DEF Removable
<1>9. PICK q \in QubitsOf(s) : q \in QubitsOf(body[k])
  BY <1>8
<1>10. PICK j \in 1 .. N : /\ QubitsOf(body[j]) = QubitsOf(s)
                           /\ \A i \in j + 1 .. N : q \notin QubitsOf(body[i])
  BY <1>5
<1>11. j \in m + 1 .. N
  <2>1. ~(k \in j + 1 .. N)
    BY <1>9, <1>10
  <2>2. QED
    BY <2>1
<1>12. QED
  BY <1>6, <1>7, <1>10, <1>11

LEMMA NothingCancels ==
  ASSUME NEW body, IsBody(body), \A n \in 1 .. Len(body) : ~Removable(body, n), NEW q \in Qubits
  PROVE  Len(Reduced(body)[q]) = Cardinality(OnWire(body, Len(body), q))
<1>0. PICK N \in Nat : N = Len(body)
  BY DEF IsBody
<1>1. PICK f : IsRun(f, body, {})
  BY RunExists
<1>2. /\ f[0] = NothingSeen /\ \A n \in 0 .. N : f[n] \in Good
      /\ \A n \in 1 .. N : f[n] = Step(f[n - 1], body[n], {})
  BY <1>0, <1>1 DEF IsRun, IsRunTo
<1> DEFINE counted == {n \in 0 .. N : /\ LastOnWires(f[n], body, n)
                                      /\ IsFiniteSet(OnWire(body, n, q))
                                      /\ Len(f[n][q]) = Cardinality(OnWire(body, n, q))}
<1>3. 0 \in counted
  <2>1. \A p \in Qubits : f[0][p] = <<>>
    BY <1>2 DEF NothingSeen
  <2>2. LastOnWires(f[0], body, 0)
    BY <2>1 DEF LastOnWires
  <2>3. OnWire(body, 0, q) = {}
    BY DEF OnWire
  <2>4. Len(f[0][q]) = 0
    BY <2>1
  <2>5. QED
    BY <2>2, <2>3, <2>4, FS_EmptySet
<1>4. \A n \in 0 .. N - 1 : n \in counted => n + 1 \in counted
  <2> SUFFICES ASSUME NEW n \in 0 .. N - 1, n \in counted PROVE n + 1 \in counted
    OBVIOUS
  <2>1. PICK k \in 1 .. N : k = n + 1 /\ k - 1 = n /\ k \in 0 .. N /\ n \in 0 .. N /\ n \in Nat
    OBVIOUS
  <2>2. PICK s : s = body[k]
    OBVIOUS
  <2>3. PICK w : w = f[n] /\ w \in Good /\ w \in Wirings
    BY <1>2, <2>1, GoodIsClosed
  <2>4. /\ LastOnWires(w, body, n) /\ IsFiniteSet(OnWire(body, n, q))
        /\ Len(w[q]) = Cardinality(OnWire(body, n, q))
    BY <2>3
  <2> HIDE DEF counted
  <2>5. f[k] = Push(w, s)
    BY <1>2, <2>1, <2>2, <2>3 DEF Step
  <2>6. \A j \in 1 .. k : j = k \/ j \in 1 .. n
    BY <2>1
  <2>7. k \in 1 .. k /\ k \notin 1 .. n /\ \A j \in 1 .. n : j \in 1 .. k
    BY <2>1
  <2>8. s.op # "zero"
    BY <1>0, <2>1, <2>2 DEF Removable
  <2>9. CASE ~Real(s)
    <3>1. s.op = "decl" /\ QubitsOf(s) = {}
      BY <2>8, <2>9 DEF Real, QubitsOf
    <3>2. f[k] = w
      BY <2>5, <3>1 DEF Push
    <3>3. OnWire(body, k, q) = OnWire(body, n, q)
      BY <2>2, <2>6, <2>7, <3>1 DEF OnWire
    <3>4. LastOnWires(w, body, k)
      <4> SUFFICES ASSUME NEW p \in Qubits, w[p] # <<>>
                   PROVE  \E m \in 1 .. k : /\ p \in QubitsOf(body[m]) /\ Last(w[p]) = Seen(body[m])
                                            /\ \A j \in m + 1 .. k : p \notin QubitsOf(body[j])
        BY DEF LastOnWires
      <4>1. PICK m \in 1 .. n : /\ p \in QubitsOf(body[m]) /\ Last(w[p]) = Seen(body[m])
                                /\ \A j \in m + 1 .. n : p \notin QubitsOf(body[j])
        BY <2>4 DEF LastOnWires
      <4>2. \A j \in m + 1 .. k : j = k \/ j \in m + 1 .. n
        BY <2>1
      <4>3. QED
        BY <2>2, <2>7, <3>1, <4>1, <4>2
    <3>5. QED
      BY <2>1, <2>4, <3>2, <3>3, <3>4 DEF counted
  <2>10. CASE Real(s)
    <3>1. ~Cancels(w, s)
      BY <1>0, <2>1, <2>2, <2>4, <2>10, LastsCancelNothing
    <3>2. IsGate(s) /\ Seen(s) \in Gates
      BY <1>0, <2>1, <2>2, <2>3, <2>10, PushStatement DEF IsBody
    <3>3. \A p \in Qubits : f[k][p] = IF p \in QubitsOf(s) THEN Append(w[p], Seen(s)) ELSE w[p]
      BY <2>5, <2>10, <3>1 DEF Push, Real
    <3>4. \A p \in Qubits : w[p] \in Seq(Gates)
      BY <2>3 DEF Wirings
    <3>5. \A p \in Qubits : /\ Len(Append(w[p], Seen(s))) = Len(w[p]) + 1
                            /\ Last(Append(w[p], Seen(s))) = Seen(s)
      <4> SUFFICES ASSUME NEW p \in Qubits
                   PROVE  /\ Len(Append(w[p], Seen(s))) = Len(w[p]) + 1
                          /\ Last(Append(w[p], Seen(s))) = Seen(s)
        OBVIOUS
      <4>1. PICK t \in Seq(Gates) : t = w[p]
        BY <3>4
      <4>2. PICK x \in Gates : x = Seen(s)
        BY <3>2
      <4>3. /\ Append(t, x) \in Seq(Gates) /\ Append(t, x) # <<>>
            /\ Last(Append(t, x)) = x /\ Front(Append(t, x)) = t
            /\ Len(Append(t, x)) = Len(t) + 1
        BY SequenceEnds
      <4>4. QED
        BY <4>1, <4>2, <4>3
    <3>6. LastOnWires(f[k], body, k)
      <4> SUFFICES ASSUME NEW p \in Qubits, f[k][p] # <<>>
                   PROVE  \E m \in 1 .. k : /\ p \in QubitsOf(body[m]) /\ Last(f[k][p]) = Seen(body[m])
                                            /\ \A j \in m + 1 .. k : p \notin QubitsOf(body[j])
        BY DEF LastOnWires
      <4>1. CASE p \in QubitsOf(s)
        <5>1. k + 1 .. k = {}
          BY <2>1
        <5>2. QED
          BY <2>2, <2>7, <3>3, <3>5, <4>1, <5>1
      <4>2. CASE p \notin QubitsOf(s)
        <5>1. PICK m \in 1 .. n : /\ p \in QubitsOf(body[m]) /\ Last(w[p]) = Seen(body[m])
                                  /\ \A j \in m + 1 .. n : p \notin QubitsOf(body[j])
          BY <2>4, <3>3, <4>2 DEF LastOnWires
        <5>2. \A j \in m + 1 .. k : j = k \/ j \in m + 1 .. n
          BY <2>1
        <5>3. QED
          BY <2>2, <2>7, <3>3, <4>2, <5>1, <5>2
      <4>3. QED
        BY <4>1, <4>2
    <3>7. CASE q \in QubitsOf(s)
      <4>1. OnWire(body, k, q) = OnWire(body, n, q) \cup {k} /\ k \notin OnWire(body, n, q)
        BY <2>2, <2>6, <2>7, <3>7 DEF OnWire
      <4>2. /\ IsFiniteSet(OnWire(body, k, q))
            /\ Cardinality(OnWire(body, k, q)) = Cardinality(OnWire(body, n, q)) + 1
        BY <2>4, <4>1, FS_AddElement
      <4>3. Len(f[k][q]) = Len(w[q]) + 1
        BY <3>3, <3>5, <3>7
      <4>4. QED
        BY <2>1, <2>4, <3>6, <4>2, <4>3 DEF counted
    <3>8. CASE q \notin QubitsOf(s)
      <4>1. OnWire(body, k, q) = OnWire(body, n, q)
        BY <2>2, <2>6, <2>7, <3>8 DEF OnWire
      <4>2. f[k][q] = w[q]
        BY <3>3, <3>8
      <4>3. QED
        BY <2>1, <2>4, <3>6, <4>1, <4>2 DEF counted
    <3>9. QED
      BY <3>7, <3>8
  <2>11. QED
    BY <2>9, <2>10
<1> HIDE DEF counted
<1>5. \A n \in 0 .. N : n \in counted
  BY <1>3, <1>4, Induction
<1>6. N \in counted
  BY <1>5
<1>7. Reduced(body) = f[N]
  BY <1>0, <1>1, ReducedIsRun
<1>8. QED
  BY <1>0, <1>6, <1>7 DEF counted

(* When run() returns, the passes have seen every statement of every body, *)
(* and all that is left is irreducible.                                    *)
LEMMA DoneLeavesNothing == Inv /\ NothingPassedOver => NothingLeftToCancel
<1> SUFFICES ASSUME Inv, NothingPassedOver, Done, NEW b \in DOMAIN bodies, NEW q \in Qubits
             PROVE  Len(Reduced(bodies[b])[q])
                      = Cardinality({n \in DOMAIN bodies[b] : q \in QubitsOf(bodies[b][n])})
  BY DEF NothingLeftToCancel
<1>1. ~visiting /\ erasures = {}
  BY DEF Done
<1>2. where = "main" /\ at = Len(bodies["main"]) + 1 /\ Len(bodies["main"]) \in Nat
  BY <1>1, ShapeFacts DEF Inv, Shape
<1>3. InMain = Len(bodies["main"])
  BY <1>2 DEF InMain
<1>4. IsBody(bodies[b]) /\ DOMAIN bodies[b] = 1 .. Len(bodies[b]) /\ "main" \in DOMAIN bodies
      /\ DOMAIN bodies["main"] = 1 .. Len(bodies["main"])
  BY ShapeFacts, WellFormedBodies DEF Inv, Shape
<1>5. Reach(b) = Len(bodies[b])
  <2>1. CASE b = "main"
    BY <1>3, <2>1 DEF Reach
  <2>2. CASE b # "main"
    <3>1. WellFormed(bodies)
      BY DEF Inv, Shape
    <3>2. \E n \in DOMAIN bodies["main"] : bodies["main"][n].op = "decl" /\ bodies["main"][n].args[1] = b
      BY <2>2, <3>1, Zenon DEF WellFormed
    <3>3. \E n \in 1 .. InMain : Declares(n, b)
      BY <1>3, <1>4, <3>2 DEF Declares
    <3>4. QED
      BY <1>2, <2>2, <3>3 DEF Reach
  <2>3. QED
    BY <2>1, <2>2
<1>6. \A n \in 1 .. Len(bodies[b]) : ~Removable(bodies[b], n)
  BY <1>1, <1>5 DEF NothingPassedOver
<1>7. {n \in DOMAIN bodies[b] : q \in QubitsOf(bodies[b][n])} = OnWire(bodies[b], Len(bodies[b]), q)
  BY <1>4 DEF OnWire
<1>8. QED
  BY <1>4, <1>6, <1>7, NothingCancels

(* For every set of programs, whatever their arguments stand for.          *)
THEOREM NothingIsLeft == Spec => []NothingLeftToCancel
<1>1. Init => Inv /\ NothingPassedOver
  BY InitInv, InitPassesNothing
<1>2. Inv /\ NothingPassedOver /\ [Next]_vars => (Inv /\ NothingPassedOver)'
  BY NextInv, NextPassesNothing
<1>3. QED
  BY <1>1, <1>2, DoneLeavesNothing, PTL DEF Spec


=============================================================================
