----------------------- MODULE LinearReversibleProofs -----------------------
(***************************************************************************)
(* Proofs about LinearReversible, for every number of qubits, operator,    *)
(* coupling graph, and answers of the device.                              *)
(*                                                                         *)
(* The heart of it is UndoRestores: repeating a list of CNOTs backwards    *)
(* would take back all of them.  steiner_gauss repeats only some; those    *)
(* that it leaves out have added nothing to the columns that are done.     *)
(***************************************************************************)
EXTENDS LinearReversible, FiniteSetTheorems, SequenceTheorems, WellFoundedInduction, TLAPS

Matrices == [Qubits -> SUBSET Qubits]
CNOTs    == {cx \in Qubits \X Qubits : cx[1] # cx[2]}
States   == [mat : Matrices, dep : SUBSET Qubits, cnots : Seq(CNOTs)]

-----------------------------------------------------------------------------
(* Loops.                                                                  *)

LEMMA LeastElement ==
  ASSUME NEW U \in SUBSET Nat, U # {}
  PROVE  \E n \in U : \A m \in U : ~(m < n)
<1>1. IsWellFoundedOn(OpToRel(<, Nat), Nat)
  BY NatLessThanWellFounded
<1>2. \E n \in U : \A m \in U : ~(<<m, n>> \in OpToRel(<, Nat))
  BY <1>1, WFMin
<1>3. QED
  BY <1>2 DEF OpToRel

(* Induction, for a set in place of a predicate. *)
LEMMA Induction ==
  ASSUME NEW N \in Nat, NEW S, 0 \in S, \A n \in 0 .. N - 1 : n \in S => n + 1 \in S
  PROVE  \A n \in 0 .. N : n \in S
<1> DEFINE Missing == {n \in 0 .. N : n \notin S}
<1>1. SUFFICES ASSUME Missing # {} PROVE FALSE
  OBVIOUS
<1>2. PICK n \in Missing : \A m \in Missing : ~(m < n)
  <2>1. Missing \in SUBSET Nat
    OBVIOUS
  <2>2. QED
    BY <2>1, <1>1, LeastElement
<1>3. n - 1 \in 0 .. N - 1 /\ n - 1 \in S
  BY <1>2
<1>4. n - 1 + 1 = n
  BY <1>2
<1>5. QED
  BY <1>2, <1>3, <1>4

(* A loop over a list, whose body is a function of the state and the       *)
(* element, has a run.                                                     *)
IsRun(f, D, body, base, list) ==
  /\ f \in [0 .. Len(list) -> D]
  /\ f[0] = base
  /\ \A n \in 1 .. Len(list) : f[n] = body[<<f[n - 1], list[n]>>]

LEMMA LoopRuns ==
  ASSUME NEW D, NEW E, NEW body \in [D \X E -> D], NEW base \in D, NEW list \in Seq(E)
  PROVE  \E f : IsRun(f, D, body, base, list)
<1> DEFINE N == Len(list)
           Run(k, f) == /\ f \in [0 .. k -> D]
                        /\ f[0] = base
                        /\ \A n \in 1 .. k : f[n] = body[<<f[n - 1], list[n]>>]
           S == {k \in 0 .. N : \E f : Run(k, f)}
<1>1. N \in Nat /\ \A n \in 1 .. N : list[n] \in E
  BY ElementOfSeq, LenProperties
<1>2. 0 \in S
  <2>1. Run(0, [n \in 0 .. 0 |-> base])
    OBVIOUS
  <2>2. \E f : Run(0, f)
    <3> HIDE DEF Run
    <3>1. QED
      BY <2>1
  <2>3. 0 \in 0 .. N
    BY <1>1
  <2>4. QED
    BY <2>2, <2>3
<1>3. ASSUME NEW k \in 0 .. N - 1, k \in S
      PROVE  k + 1 \in S
  <2>1. PICK f : Run(k, f)
    BY <1>3
  <2> DEFINE g == [n \in 0 .. k + 1 |->
                     IF n = k + 1 THEN body[<<f[k], list[k + 1]>>] ELSE f[n]]
  <2>2. f[k] \in D /\ list[k + 1] \in E
    BY <2>1, <1>1
  <2>3. g \in [0 .. k + 1 -> D] /\ g[0] = base
    BY <2>1, <2>2, <1>1
  <2>4. ASSUME NEW n \in 1 .. k + 1
        PROVE  g[n] = body[<<g[n - 1], list[n]>>]
    <3>1. CASE n = k + 1
      <4>1. g[n] = body[<<f[k], list[k + 1]>>]
        BY <3>1
      <4>2. g[n - 1] = f[k] /\ n = k + 1
        BY <3>1, <1>1
      <4>3. QED
        BY <4>1, <4>2
    <3>2. CASE n # k + 1
      BY <3>2, <2>1, <1>1
    <3>3. QED
      BY <3>1, <3>2
  <2>5. Run(k + 1, g)
    BY <2>3, <2>4
  <2>6. k + 1 \in 0 .. N
    BY <1>1
  <2>7. QED
    BY <2>5, <2>6
<1>4. N \in S
  <2> HIDE DEF S, N
  <2>1. \A n \in 0 .. N : n \in S
    BY <1>1, <1>2, <1>3, Induction
  <2>2. QED
    BY <2>1, <1>1
<1>5. PICK f : Run(N, f)
  BY <1>4
<1>6. IsRun(f, D, body, base, list)
  BY <1>5 DEF IsRun
<1>7. QED
  BY <1>6

(* ... and only one. *)
Follows(g, D, body, base, list) ==
  /\ g[0] = base
  /\ \A n \in 1 .. Len(list) : g[n - 1] \in D => g[n] = body[<<g[n - 1], list[n]>>]

Agree(f, g, list) == \A n \in 0 .. Len(list) : f[n] = g[n]

LEMMA LoopRunsOnce ==
  ASSUME NEW D, NEW E, NEW body \in [D \X E -> D], NEW base \in D, NEW list \in Seq(E),
         NEW f, IsRun(f, D, body, base, list),
         NEW g, Follows(g, D, body, base, list)
  PROVE  Agree(f, g, list)
<1> DEFINE N == Len(list)
           S == {n \in 0 .. N : f[n] = g[n]}
<1>1. N \in Nat
  BY LenProperties
<1>2. 0 \in S
  BY <1>1 DEF IsRun, Follows
<1>3. ASSUME NEW n \in 0 .. N - 1, n \in S
      PROVE  n + 1 \in S
  <2>1. n + 1 \in 1 .. N /\ (n + 1) - 1 = n /\ n + 1 \in 0 .. N /\ n \in 0 .. N
    BY <1>1
  <2>2. f[n + 1] = body[<<f[n], list[n + 1]>>]
    BY <2>1 DEF IsRun
  <2>3. g[n] \in D
    BY <1>3, <2>1 DEF IsRun
  <2>4. g[n + 1] = body[<<g[n], list[n + 1]>>]
    BY <2>1, <2>3 DEF Follows
  <2>5. QED
    BY <1>3, <2>1, <2>2, <2>4
<1>4. QED
  <2> HIDE DEF S, N
  <2>1. \A n \in 0 .. N : n \in S
    BY <1>1, <1>2, <1>3, Induction
  <2>2. QED
    BY <2>1 DEF S, N, Agree

-----------------------------------------------------------------------------
(* Lists of CNOTs.                                                         *)

LEMMA AddRowFacts ==
  ASSUME NEW m \in Matrices, NEW cx \in CNOTs
  PROVE  /\ AddRow(m, cx) \in Matrices
         /\ AddRow(m, cx)[cx[2]] = Xor(m[cx[2]], m[cx[1]])
         /\ \A q \in Qubits \ {cx[2]} : AddRow(m, cx)[q] = m[q]
         /\ cx[1] \in Qubits /\ cx[2] \in Qubits /\ cx[1] # cx[2]
<1>1. cx[1] \in Qubits /\ cx[2] \in Qubits /\ cx[1] # cx[2]
  BY DEF CNOTs
<1>2. m[cx[1]] \in SUBSET Qubits /\ m[cx[2]] \in SUBSET Qubits
  BY <1>1 DEF Matrices
<1>3. Xor(m[cx[2]], m[cx[1]]) \in SUBSET Qubits
  BY <1>2 DEF Xor
<1>4. QED
  BY <1>1, <1>3 DEF AddRow, Matrices

(* A CNOT is its own inverse. *)
LEMMA AddRowTwice ==
  ASSUME NEW m \in Matrices, NEW cx \in CNOTs
  PROVE  AddRow(AddRow(m, cx), cx) = m
<1> DEFINE a == AddRow(m, cx)
           b == AddRow(a, cx)
<1>1. a \in Matrices /\ a[cx[2]] = Xor(m[cx[2]], m[cx[1]])
      /\ \A q \in Qubits \ {cx[2]} : a[q] = m[q]
  BY AddRowFacts
<1>2. b \in Matrices /\ b[cx[2]] = Xor(a[cx[2]], a[cx[1]])
      /\ \A q \in Qubits \ {cx[2]} : b[q] = a[q]
  BY <1>1, AddRowFacts
<1>3. cx[1] \in Qubits /\ cx[2] \in Qubits /\ cx[1] # cx[2]
  BY AddRowFacts
<1>4. b[cx[2]] = m[cx[2]]
  <2>1. b[cx[2]] = Xor(Xor(m[cx[2]], m[cx[1]]), m[cx[1]])
    BY <1>1, <1>2, <1>3
  <2>2. QED
    BY <2>1 DEF Xor
<1>5. \A q \in Qubits : b[q] = m[q]
  BY <1>1, <1>2, <1>4
<1>6. QED
  BY <1>2, <1>5 DEF Matrices

(* h lists the rows before and after every CNOT of s, from m on. *)
Passes(h, m, s) ==
  /\ h \in [0 .. Len(s) -> Matrices]
  /\ h[0] = m
  /\ \A n \in 1 .. Len(s) : h[n] = AddRow(h[n - 1], s[n])

LEMMA AddRowsRun ==
  ASSUME NEW m \in Matrices, NEW s \in Seq(CNOTs)
  PROVE  \E h : Passes(h, m, s) /\ AddRows(m, s) = h[Len(s)]
<1> DEFINE body == [p \in Matrices \X CNOTs |-> AddRow(p[1], p[2])]
           Eqn(g) == g = [n \in 0 .. Len(s) |-> IF n = 0 THEN m ELSE AddRow(g[n - 1], s[n])]
<1>1. body \in [Matrices \X CNOTs -> Matrices]
  BY AddRowFacts
<1>2. PICK f : IsRun(f, Matrices, body, m, s)
  <2> HIDE DEF body
  <2>1. QED
    BY <1>1, LoopRuns
<1>3. Len(s) \in Nat /\ \A n \in 1 .. Len(s) : s[n] \in CNOTs
  BY ElementOfSeq, LenProperties
<1>4. \A n \in 1 .. Len(s) : f[n - 1] \in Matrices /\ f[n] = AddRow(f[n - 1], s[n])
  <2>1. ASSUME NEW n \in 1 .. Len(s)
        PROVE  f[n - 1] \in Matrices /\ f[n] = AddRow(f[n - 1], s[n])
    <3>1. n - 1 \in 0 .. Len(s)
      BY <1>3
    <3>2. f[n - 1] \in Matrices /\ s[n] \in CNOTs
      BY <3>1, <1>3, <1>2 DEF IsRun
    <3>3. f[n] = body[<<f[n - 1], s[n]>>]
      BY <1>2 DEF IsRun
    <3>4. QED
      BY <3>2, <3>3
  <2>2. QED
    BY <2>1
<1>5. f[0] = m /\ f \in [0 .. Len(s) -> Matrices]
  BY <1>2 DEF IsRun
<1>6. Eqn(f)
  <2>1. \A n \in 0 .. Len(s) : f[n] = IF n = 0 THEN m ELSE AddRow(f[n - 1], s[n])
    BY <1>3, <1>4, <1>5
  <2>2. QED
    BY <2>1, <1>5
<1>7. PICK g : g = (CHOOSE h : Eqn(h))
  OBVIOUS
<1>8. Eqn(g)
  BY <1>6, <1>7
<1>9. AddRows(m, s) = g[Len(s)]
  BY <1>7 DEF AddRows, InTurn
<1>10. Agree(f, g, s)
  <2>1. g[0] = m
    BY <1>8, <1>3
  <2>2. \A n \in 1 .. Len(s) : g[n - 1] \in Matrices => g[n] = body[<<g[n - 1], s[n]>>]
    BY <1>8, <1>3
  <2>3. Follows(g, Matrices, body, m, s)
    BY <2>1, <2>2 DEF Follows
  <2> HIDE DEF body
  <2>4. QED
    BY <1>1, <1>2, <2>3, LoopRunsOnce
<1>11. QED
  BY <1>3, <1>4, <1>5, <1>9, <1>10 DEF Passes, Agree

LEMMA AddRowsUnique ==
  ASSUME NEW m \in Matrices, NEW s \in Seq(CNOTs), NEW h, Passes(h, m, s)
  PROVE  AddRows(m, s) = h[Len(s)]
<1> DEFINE body == [p \in Matrices \X CNOTs |-> AddRow(p[1], p[2])]
<1>1. PICK f : Passes(f, m, s) /\ AddRows(m, s) = f[Len(s)]
  BY AddRowsRun
<1>2. body \in [Matrices \X CNOTs -> Matrices]
  BY AddRowFacts
<1>3. Len(s) \in Nat /\ \A n \in 1 .. Len(s) : s[n] \in CNOTs
  BY ElementOfSeq, LenProperties
<1>4. IsRun(f, Matrices, body, m, s)
  <2>1. ASSUME NEW n \in 1 .. Len(s)
        PROVE  f[n] = body[<<f[n - 1], s[n]>>]
    <3>1. n - 1 \in 0 .. Len(s)
      BY <1>3
    <3>2. f[n - 1] \in Matrices /\ s[n] \in CNOTs
      BY <3>1, <1>3, <1>1 DEF Passes
    <3>3. QED
      BY <3>2, <1>1 DEF Passes
  <2>2. QED
    BY <2>1, <1>1 DEF IsRun, Passes
<1>5. Follows(h, Matrices, body, m, s)
  <2>1. ASSUME NEW n \in 1 .. Len(s), h[n - 1] \in Matrices
        PROVE  h[n] = body[<<h[n - 1], s[n]>>]
    BY <2>1, <1>3 DEF Passes
  <2>2. QED
    BY <2>1 DEF Follows, Passes
<1>6. Agree(f, h, s)
  <2> HIDE DEF body
  <2>1. QED
    BY <1>2, <1>4, <1>5, LoopRunsOnce
<1>7. QED
  BY <1>1, <1>3, <1>6 DEF Agree

LEMMA AddRowsType ==
  ASSUME NEW m \in Matrices, NEW s \in Seq(CNOTs)
  PROVE  AddRows(m, s) \in Matrices
<1>1. PICK h : Passes(h, m, s) /\ AddRows(m, s) = h[Len(s)]
  BY AddRowsRun
<1>2. Len(s) \in 0 .. Len(s)
  BY LenProperties
<1>3. QED
  BY <1>1, <1>2 DEF Passes

LEMMA AddRowsNone ==
  ASSUME NEW m \in Matrices
  PROVE  AddRows(m, <<>>) = m
<1>1. <<>> \in Seq(CNOTs) /\ Len(<<>>) = 0
  OBVIOUS
<1>2. PICK h : Passes(h, m, <<>>) /\ AddRows(m, <<>>) = h[Len(<<>>)]
  BY <1>1, AddRowsRun
<1>3. QED
  BY <1>1, <1>2 DEF Passes

LEMMA AddRowsConcat ==
  ASSUME NEW m \in Matrices, NEW s \in Seq(CNOTs), NEW t \in Seq(CNOTs)
  PROVE  AddRows(m, s \o t) = AddRows(AddRows(m, s), t)
<1>1. PICK f : Passes(f, m, s) /\ AddRows(m, s) = f[Len(s)]
  BY AddRowsRun
<1>2. AddRows(m, s) \in Matrices
  BY AddRowsType
<1>3. PICK g : Passes(g, AddRows(m, s), t) /\ AddRows(AddRows(m, s), t) = g[Len(t)]
  BY <1>2, AddRowsRun
<1>4. /\ s \o t \in Seq(CNOTs) /\ Len(s \o t) = Len(s) + Len(t)
      /\ \A n \in 1 .. Len(s) + Len(t) :
           (s \o t)[n] = IF n <= Len(s) THEN s[n] ELSE t[n - Len(s)]
  BY ConcatProperties
<1>5. Len(s) \in Nat /\ Len(t) \in Nat
  BY LenProperties
<1> DEFINE N == Len(s) + Len(t)
           h == [n \in 0 .. N |-> IF n <= Len(s) THEN f[n] ELSE g[n - Len(s)]]
<1>6. h \in [0 .. N -> Matrices]
  <2>1. ASSUME NEW n \in 0 .. N
        PROVE  (IF n <= Len(s) THEN f[n] ELSE g[n - Len(s)]) \in Matrices
    <3>1. CASE n <= Len(s)
      BY <3>1, <1>1, <1>5 DEF Passes
    <3>2. CASE ~(n <= Len(s))
      <4>1. n - Len(s) \in 0 .. Len(t)
        BY <3>2, <1>5
      <4>2. QED
        BY <3>2, <4>1, <1>3 DEF Passes
    <3>3. QED
      BY <3>1, <3>2
  <2>2. QED
    BY <2>1
<1>7. h[0] = m
  BY <1>1, <1>5 DEF Passes
<1>8. ASSUME NEW n \in 1 .. N
      PROVE  h[n] = AddRow(h[n - 1], (s \o t)[n])
  <2>1. n \in 0 .. N /\ n - 1 \in 0 .. N
    BY <1>5
  <2>2. CASE n <= Len(s)
    <3>1. h[n] = f[n] /\ h[n - 1] = f[n - 1] /\ (s \o t)[n] = s[n]
      BY <2>1, <2>2, <1>4, <1>5
    <3>2. QED
      BY <3>1, <2>2, <1>1, <1>5 DEF Passes
  <2>3. CASE ~(n <= Len(s))
    <3>1. h[n] = g[n - Len(s)] /\ (s \o t)[n] = t[n - Len(s)]
      BY <2>1, <2>3, <1>4, <1>5
    <3>2. n - Len(s) \in 1 .. Len(t) /\ (n - Len(s)) - 1 = (n - 1) - Len(s)
      BY <2>3, <1>5
    <3>3. g[n - Len(s)] = AddRow(g[(n - Len(s)) - 1], t[n - Len(s)])
      BY <3>2, <1>3 DEF Passes
    <3>4. h[n - 1] = g[(n - Len(s)) - 1]
      <4>1. CASE n - 1 = Len(s)
        <5>1. h[n - 1] = f[Len(s)] /\ (n - 1) - Len(s) = 0
          BY <4>1, <2>1, <1>5
        <5>2. QED
          BY <5>1, <1>1, <1>3, <3>2 DEF Passes
      <4>2. CASE n - 1 # Len(s)
        BY <4>2, <2>1, <2>3, <1>5, <3>2
      <4>3. QED
        BY <4>1, <4>2
    <3>5. QED
      BY <3>1, <3>3, <3>4
  <2>4. QED
    BY <2>2, <2>3
<1>9. Passes(h, m, s \o t)
  BY <1>4, <1>6, <1>7, <1>8 DEF Passes
<1>10. h[N] = g[Len(t)]
  <2>1. CASE Len(t) = 0
    BY <2>1, <1>1, <1>3, <1>5 DEF Passes
  <2>2. CASE Len(t) # 0
    <3>1. N \in 0 .. N /\ ~(N <= Len(s)) /\ N - Len(s) = Len(t)
      BY <2>2, <1>5
    <3>2. QED
      BY <3>1
  <2>3. QED
    BY <2>1, <2>2
<1>11. AddRows(m, s \o t) = h[N]
  <2> HIDE DEF h
  <2>1. QED
    BY <1>4, <1>9, AddRowsUnique
<1>12. QED
  BY <1>3, <1>10, <1>11

LEMMA AddRowsAppend ==
  ASSUME NEW m \in Matrices, NEW s \in Seq(CNOTs), NEW cx \in CNOTs
  PROVE  AddRows(m, Append(s, cx)) = AddRow(AddRows(m, s), cx)
<1>1. AddRows(m, s) \in Matrices
  BY AddRowsType
<1>2. <<cx>> \in Seq(CNOTs) /\ Len(<<cx>>) = 1 /\ <<cx>>[1] = cx
  OBVIOUS
<1>3. PICK x : x = AddRows(m, s)
  OBVIOUS
<1>4. PICK h : Passes(h, x, <<cx>>) /\ AddRows(x, <<cx>>) = h[Len(<<cx>>)]
  BY <1>1, <1>2, <1>3, AddRowsRun
<1>5. h[1] = AddRow(h[0], cx) /\ h[0] = x
  BY <1>2, <1>4 DEF Passes
<1>6. Append(s, cx) = s \o <<cx>>
  BY AppendIsConcat
<1>7. AddRows(m, s \o <<cx>>) = AddRows(x, <<cx>>)
  BY <1>2, <1>3, AddRowsConcat
<1>8. QED
  BY <1>2, <1>3, <1>4, <1>5, <1>6, <1>7

(* The CNOTs in reverse order take back what they have done. *)
LEMMA AddRowsReverse ==
  ASSUME NEW m \in Matrices, NEW s \in Seq(CNOTs)
  PROVE  AddRows(AddRows(m, s), Reverse(s)) = m
<1>1. PICK f : Passes(f, m, s) /\ AddRows(m, s) = f[Len(s)]
  BY AddRowsRun
<1>2. Len(s) \in Nat /\ \A n \in 1 .. Len(s) : s[n] \in CNOTs
  BY ElementOfSeq, LenProperties
<1>3. /\ Reverse(s) \in Seq(CNOTs) /\ Len(Reverse(s)) = Len(s)
      /\ \A n \in 1 .. Len(s) : Reverse(s)[n] = s[(Len(s) - n) + 1]
  <2>1. \A n \in 1 .. Len(s) : s[(Len(s) - n) + 1] \in CNOTs
    BY <1>2
  <2>2. QED
    BY <2>1, <1>2 DEF Reverse
<1> DEFINE N == Len(s)
           h == [n \in 0 .. N |-> f[N - n]]
<1>4. h \in [0 .. N -> Matrices]
  <2>1. \A n \in 0 .. N : N - n \in 0 .. N
    BY <1>2
  <2>2. QED
    BY <2>1, <1>1 DEF Passes
<1>5. h[0] = AddRows(m, s)
  BY <1>1, <1>2
<1>6. ASSUME NEW n \in 1 .. N
      PROVE  h[n] = AddRow(h[n - 1], Reverse(s)[n])
  <2>1. n \in 0 .. N /\ n - 1 \in 0 .. N /\ (N - n) + 1 \in 1 .. N
        /\ ((N - n) + 1) - 1 = N - n /\ N - (n - 1) = (N - n) + 1 /\ N - n \in 0 .. N
    BY <1>2
  <2>2. f[(N - n) + 1] = AddRow(f[N - n], s[(N - n) + 1])
    BY <2>1, <1>1 DEF Passes
  <2>3. f[N - n] \in Matrices /\ s[(N - n) + 1] \in CNOTs
    BY <2>1, <1>1, <1>2 DEF Passes
  <2>4. AddRow(f[(N - n) + 1], s[(N - n) + 1]) = f[N - n]
    BY <2>2, <2>3, AddRowTwice
  <2>5. h[n] = f[N - n] /\ h[n - 1] = f[(N - n) + 1]
    BY <2>1
  <2>6. QED
    BY <2>4, <2>5, <1>3
<1>7. Passes(h, AddRows(m, s), Reverse(s))
  BY <1>3, <1>4, <1>5, <1>6 DEF Passes
<1>8. AddRows(AddRows(m, s), Reverse(s)) = h[N]
  <2> HIDE DEF h
  <2>1. AddRows(m, s) \in Matrices
    BY AddRowsType
  <2>2. PICK x : x = AddRows(m, s)
    OBVIOUS
  <2>3. AddRows(x, Reverse(s)) = h[Len(Reverse(s))]
    BY <2>1, <2>2, <1>3, <1>7, AddRowsUnique
  <2>4. QED
    BY <2>2, <2>3, <1>3
<1>9. h[N] = m
  BY <1>1, <1>2 DEF Passes
<1>10. QED
  BY <1>8, <1>9

-----------------------------------------------------------------------------
(* The loops of the program, over a list of CNOTs (of pairs, for Clear).   *)

LEMMA RecordFacts ==
  ASSUME NEW st \in States, NEW cx \in CNOTs
  PROVE  /\ Record(st, cx) \in States
         /\ Record(st, cx).mat = AddRow(st.mat, cx)
         /\ Record(st, cx).cnots = Append(st.cnots, cx)
         /\ Record(st, cx).dep =
              IF cx[1] \in st.dep \/ cx[1] < i THEN st.dep \cup {cx[2]} ELSE st.dep
<1>1. st.mat \in Matrices /\ st.dep \in SUBSET Qubits /\ st.cnots \in Seq(CNOTs)
  BY DEF States
<1>2. AddRow(st.mat, cx) \in Matrices /\ cx[2] \in Qubits
  BY <1>1, AddRowFacts
<1>3. Append(st.cnots, cx) \in Seq(CNOTs)
  BY <1>1, AppendProperties
<1>4. QED
  BY <1>1, <1>2, <1>3 DEF Record, States

LEMMA StartFacts ==
  ASSUME NEW m \in Matrices, NEW dep \in SUBSET Qubits, NEW list \in Seq(CNOTs)
  PROVE  /\ Start(m, dep, list) \in States
         /\ Start(m, dep, list).mat = m
         /\ Start(m, dep, list).dep = dep
         /\ Start(m, dep, list).cnots = list
BY DEF Start, States


RecordRun(f, base, list) ==
  /\ f \in [0 .. Len(list) -> States]
  /\ f[0] = base
  /\ \A n \in 1 .. Len(list) : f[n] = Record(f[n - 1], list[n])

LEMMA RecordRuns ==
  ASSUME NEW base \in States, NEW list \in Seq(CNOTs)
  PROVE  \E f : RecordRun(f, base, list) /\ InTurn(Record, base, list) = f[Len(list)]
<1> DEFINE E    == CNOTs
           body == [p \in States \X E |-> Record(p[1], p[2])]
           Eqn(g) == g = [n \in 0 .. Len(list) |->
                            IF n = 0 THEN base ELSE Record(g[n - 1], list[n])]
<1>0. \A st \in States : \A cx \in E : Record(st, cx) \in States
  BY RecordFacts
<1>1. body \in [States \X E -> States]
  BY <1>0
<1>2. PICK f : IsRun(f, States, body, base, list)
  <2> HIDE DEF body
  <2>1. QED
    BY <1>1, LoopRuns
<1>3. Len(list) \in Nat /\ \A n \in 1 .. Len(list) : list[n] \in E
  BY ElementOfSeq, LenProperties
<1>4. \A n \in 1 .. Len(list) : f[n - 1] \in States /\ f[n] = Record(f[n - 1], list[n])
  <2>1. ASSUME NEW n \in 1 .. Len(list)
        PROVE  f[n - 1] \in States /\ f[n] = Record(f[n - 1], list[n])
    <3>1. n - 1 \in 0 .. Len(list)
      BY <1>3
    <3>2. f[n - 1] \in States /\ list[n] \in E
      BY <3>1, <1>3, <1>2 DEF IsRun
    <3>3. f[n] = body[<<f[n - 1], list[n]>>]
      BY <1>2 DEF IsRun
    <3>4. QED
      BY <3>2, <3>3
  <2>2. QED
    BY <2>1
<1>5. f[0] = base /\ f \in [0 .. Len(list) -> States]
  BY <1>2 DEF IsRun
<1>6. Eqn(f)
  <2>1. \A n \in 0 .. Len(list) : f[n] = IF n = 0 THEN base ELSE Record(f[n - 1], list[n])
    BY <1>3, <1>4, <1>5
  <2>2. QED
    BY <2>1, <1>5
<1>7. PICK g : g = (CHOOSE h : Eqn(h))
  OBVIOUS
<1>8. Eqn(g)
  BY <1>6, <1>7
<1>9. InTurn(Record, base, list) = g[Len(list)]
  BY <1>7 DEF InTurn
<1>10. Agree(f, g, list)
  <2>1. g[0] = base
    BY <1>8, <1>3
  <2>2. \A n \in 1 .. Len(list) : g[n - 1] \in States => g[n] = body[<<g[n - 1], list[n]>>]
    BY <1>8, <1>3
  <2>3. Follows(g, States, body, base, list)
    BY <2>1, <2>2 DEF Follows
  <2> HIDE DEF body
  <2>4. QED
    BY <1>1, <1>2, <2>3, LoopRunsOnce
<1>11. QED
  BY <1>3, <1>4, <1>5, <1>9, <1>10 DEF RecordRun, Agree

FillRun(f, base, list) ==
  /\ f \in [0 .. Len(list) -> States]
  /\ f[0] = base
  /\ \A n \in 1 .. Len(list) : f[n] = Fill(f[n - 1], list[n])

LEMMA FillRuns ==
  ASSUME NEW base \in States, NEW list \in Seq(CNOTs)
  PROVE  \E f : FillRun(f, base, list) /\ InTurn(Fill, base, list) = f[Len(list)]
<1> DEFINE E    == CNOTs
           body == [p \in States \X E |-> Fill(p[1], p[2])]
           Eqn(g) == g = [n \in 0 .. Len(list) |->
                            IF n = 0 THEN base ELSE Fill(g[n - 1], list[n])]
<1>0. \A st \in States : \A cx \in E : Fill(st, cx) \in States
  BY RecordFacts DEF Fill
<1>1. body \in [States \X E -> States]
  BY <1>0
<1>2. PICK f : IsRun(f, States, body, base, list)
  <2> HIDE DEF body
  <2>1. QED
    BY <1>1, LoopRuns
<1>3. Len(list) \in Nat /\ \A n \in 1 .. Len(list) : list[n] \in E
  BY ElementOfSeq, LenProperties
<1>4. \A n \in 1 .. Len(list) : f[n - 1] \in States /\ f[n] = Fill(f[n - 1], list[n])
  <2>1. ASSUME NEW n \in 1 .. Len(list)
        PROVE  f[n - 1] \in States /\ f[n] = Fill(f[n - 1], list[n])
    <3>1. n - 1 \in 0 .. Len(list)
      BY <1>3
    <3>2. f[n - 1] \in States /\ list[n] \in E
      BY <3>1, <1>3, <1>2 DEF IsRun
    <3>3. f[n] = body[<<f[n - 1], list[n]>>]
      BY <1>2 DEF IsRun
    <3>4. QED
      BY <3>2, <3>3
  <2>2. QED
    BY <2>1
<1>5. f[0] = base /\ f \in [0 .. Len(list) -> States]
  BY <1>2 DEF IsRun
<1>6. Eqn(f)
  <2>1. \A n \in 0 .. Len(list) : f[n] = IF n = 0 THEN base ELSE Fill(f[n - 1], list[n])
    BY <1>3, <1>4, <1>5
  <2>2. QED
    BY <2>1, <1>5
<1>7. PICK g : g = (CHOOSE h : Eqn(h))
  OBVIOUS
<1>8. Eqn(g)
  BY <1>6, <1>7
<1>9. InTurn(Fill, base, list) = g[Len(list)]
  BY <1>7 DEF InTurn
<1>10. Agree(f, g, list)
  <2>1. g[0] = base
    BY <1>8, <1>3
  <2>2. \A n \in 1 .. Len(list) : g[n - 1] \in States => g[n] = body[<<g[n - 1], list[n]>>]
    BY <1>8, <1>3
  <2>3. Follows(g, States, body, base, list)
    BY <2>1, <2>2 DEF Follows
  <2> HIDE DEF body
  <2>4. QED
    BY <1>1, <1>2, <2>3, LoopRunsOnce
<1>11. QED
  BY <1>3, <1>4, <1>5, <1>9, <1>10 DEF FillRun, Agree

RepeatRun(f, base, list) ==
  /\ f \in [0 .. Len(list) -> States]
  /\ f[0] = base
  /\ \A n \in 1 .. Len(list) : f[n] = Repeat(f[n - 1], list[n])

LEMMA RepeatRuns ==
  ASSUME NEW base \in States, NEW list \in Seq(CNOTs)
  PROVE  \E f : RepeatRun(f, base, list) /\ InTurn(Repeat, base, list) = f[Len(list)]
<1> DEFINE E    == CNOTs
           body == [p \in States \X E |-> Repeat(p[1], p[2])]
           Eqn(g) == g = [n \in 0 .. Len(list) |->
                            IF n = 0 THEN base ELSE Repeat(g[n - 1], list[n])]
<1>0. \A st \in States : \A cx \in E : Repeat(st, cx) \in States
  BY RecordFacts DEF Repeat
<1>1. body \in [States \X E -> States]
  BY <1>0
<1>2. PICK f : IsRun(f, States, body, base, list)
  <2> HIDE DEF body
  <2>1. QED
    BY <1>1, LoopRuns
<1>3. Len(list) \in Nat /\ \A n \in 1 .. Len(list) : list[n] \in E
  BY ElementOfSeq, LenProperties
<1>4. \A n \in 1 .. Len(list) : f[n - 1] \in States /\ f[n] = Repeat(f[n - 1], list[n])
  <2>1. ASSUME NEW n \in 1 .. Len(list)
        PROVE  f[n - 1] \in States /\ f[n] = Repeat(f[n - 1], list[n])
    <3>1. n - 1 \in 0 .. Len(list)
      BY <1>3
    <3>2. f[n - 1] \in States /\ list[n] \in E
      BY <3>1, <1>3, <1>2 DEF IsRun
    <3>3. f[n] = body[<<f[n - 1], list[n]>>]
      BY <1>2 DEF IsRun
    <3>4. QED
      BY <3>2, <3>3
  <2>2. QED
    BY <2>1
<1>5. f[0] = base /\ f \in [0 .. Len(list) -> States]
  BY <1>2 DEF IsRun
<1>6. Eqn(f)
  <2>1. \A n \in 0 .. Len(list) : f[n] = IF n = 0 THEN base ELSE Repeat(f[n - 1], list[n])
    BY <1>3, <1>4, <1>5
  <2>2. QED
    BY <2>1, <1>5
<1>7. PICK g : g = (CHOOSE h : Eqn(h))
  OBVIOUS
<1>8. Eqn(g)
  BY <1>6, <1>7
<1>9. InTurn(Repeat, base, list) = g[Len(list)]
  BY <1>7 DEF InTurn
<1>10. Agree(f, g, list)
  <2>1. g[0] = base
    BY <1>8, <1>3
  <2>2. \A n \in 1 .. Len(list) : g[n - 1] \in States => g[n] = body[<<g[n - 1], list[n]>>]
    BY <1>8, <1>3
  <2>3. Follows(g, States, body, base, list)
    BY <2>1, <2>2 DEF Follows
  <2> HIDE DEF body
  <2>4. QED
    BY <1>1, <1>2, <2>3, LoopRunsOnce
<1>11. QED
  BY <1>3, <1>4, <1>5, <1>9, <1>10 DEF RepeatRun, Agree

ClearRun(f, base, list) ==
  /\ f \in [0 .. Len(list) -> States]
  /\ f[0] = base
  /\ \A n \in 1 .. Len(list) : f[n] = Clear(f[n - 1], list[n])

LEMMA ClearRuns ==
  ASSUME NEW base \in States, NEW list \in Seq(Qubits \X Qubits)
  PROVE  \E f : ClearRun(f, base, list) /\ InTurn(Clear, base, list) = f[Len(list)]
<1> DEFINE E    == Qubits \X Qubits
           body == [p \in States \X E |-> Clear(p[1], p[2])]
           Eqn(g) == g = [n \in 0 .. Len(list) |->
                            IF n = 0 THEN base ELSE Clear(g[n - 1], list[n])]
<1>0. \A st \in States : \A cx \in E : Clear(st, cx) \in States
  <2>1. ASSUME NEW st \in States, NEW cx \in Qubits \X Qubits
        PROVE  Clear(st, cx) \in States
    <3>1. CASE cx[1] # cx[2]
      <4>1. cx \in CNOTs
        BY <3>1 DEF CNOTs
      <4>2. QED
        BY <4>1, RecordFacts DEF Clear
    <3>2. CASE cx[1] = cx[2]
      BY <3>2 DEF Clear
    <3>3. QED
      BY <3>1, <3>2
  <2>2. QED
    BY <2>1
<1>1. body \in [States \X E -> States]
  BY <1>0
<1>2. PICK f : IsRun(f, States, body, base, list)
  <2> HIDE DEF body
  <2>1. QED
    BY <1>1, LoopRuns
<1>3. Len(list) \in Nat /\ \A n \in 1 .. Len(list) : list[n] \in E
  BY ElementOfSeq, LenProperties
<1>4. \A n \in 1 .. Len(list) : f[n - 1] \in States /\ f[n] = Clear(f[n - 1], list[n])
  <2>1. ASSUME NEW n \in 1 .. Len(list)
        PROVE  f[n - 1] \in States /\ f[n] = Clear(f[n - 1], list[n])
    <3>1. n - 1 \in 0 .. Len(list)
      BY <1>3
    <3>2. f[n - 1] \in States /\ list[n] \in E
      BY <3>1, <1>3, <1>2 DEF IsRun
    <3>3. f[n] = body[<<f[n - 1], list[n]>>]
      BY <1>2 DEF IsRun
    <3>4. QED
      BY <3>2, <3>3
  <2>2. QED
    BY <2>1
<1>5. f[0] = base /\ f \in [0 .. Len(list) -> States]
  BY <1>2 DEF IsRun
<1>6. Eqn(f)
  <2>1. \A n \in 0 .. Len(list) : f[n] = IF n = 0 THEN base ELSE Clear(f[n - 1], list[n])
    BY <1>3, <1>4, <1>5
  <2>2. QED
    BY <2>1, <1>5
<1>7. PICK g : g = (CHOOSE h : Eqn(h))
  OBVIOUS
<1>8. Eqn(g)
  BY <1>6, <1>7
<1>9. InTurn(Clear, base, list) = g[Len(list)]
  BY <1>7 DEF InTurn
<1>10. Agree(f, g, list)
  <2>1. g[0] = base
    BY <1>8, <1>3
  <2>2. \A n \in 1 .. Len(list) : g[n - 1] \in States => g[n] = body[<<g[n - 1], list[n]>>]
    BY <1>8, <1>3
  <2>3. Follows(g, States, body, base, list)
    BY <2>1, <2>2 DEF Follows
  <2> HIDE DEF body
  <2>4. QED
    BY <1>1, <1>2, <2>3, LoopRunsOnce
<1>11. QED
  BY <1>3, <1>4, <1>5, <1>9, <1>10 DEF ClearRun, Agree

(* What the loops have in common: an element of the list is recorded or    *)
(* passed over.                                                            *)
Records(f, list) ==
  /\ f \in [0 .. Len(list) -> States]
  /\ \A n \in 1 .. Len(list) :
       \/ f[n] = f[n - 1]
       \/ list[n] \in CNOTs /\ f[n] = Record(f[n - 1], list[n])

Within(list, T) == \A n \in 1 .. Len(list) : list[n] \in T

LEMMA LoopsRecord ==
  ASSUME NEW f, NEW base, NEW list
  PROVE  /\ list \in Seq(CNOTs) /\ RecordRun(f, base, list) => Records(f, list)
         /\ list \in Seq(CNOTs) /\ FillRun(f, base, list) => Records(f, list)
         /\ list \in Seq(CNOTs) /\ RepeatRun(f, base, list) => Records(f, list)
         /\ list \in Seq(Qubits \X Qubits) /\ ClearRun(f, base, list) => Records(f, list)
<1>1. list \in Seq(CNOTs) => \A n \in 1 .. Len(list) : list[n] \in CNOTs
  BY ElementOfSeq
<1>2. ASSUME list \in Seq(Qubits \X Qubits), ClearRun(f, base, list)
      PROVE  Records(f, list)
  <2>1. ASSUME NEW n \in 1 .. Len(list)
        PROVE  \/ f[n] = f[n - 1]
               \/ list[n] \in CNOTs /\ f[n] = Record(f[n - 1], list[n])
    <3>1. list[n] \in Qubits \X Qubits
      BY <1>2, ElementOfSeq
    <3>2. f[n] = Clear(f[n - 1], list[n])
      BY <1>2 DEF ClearRun
    <3>3. QED
      BY <3>1, <3>2 DEF Clear, CNOTs
  <2>2. QED
    BY <1>2, <2>1 DEF Records, ClearRun
<1>3. QED
  BY <1>1, <1>2 DEF Records, RecordRun, FillRun, RepeatRun, Fill, Repeat

(* What a run records is within what the list was within, ... *)
LEMMA RecordsWithin ==
  ASSUME NEW T, NEW f, NEW list, Len(list) \in Nat,
         Records(f, list), Within(list, T), Within(f[0].cnots, T)
  PROVE  \A n \in 0 .. Len(list) : Within(f[n].cnots, T)
<1> DEFINE S == {n \in 0 .. Len(list) : Within(f[n].cnots, T)}
<1>1. 0 \in S
  OBVIOUS
<1>2. ASSUME NEW n \in 0 .. Len(list) - 1, n \in S
      PROVE  n + 1 \in S
  <2>1. n + 1 \in 1 .. Len(list) /\ (n + 1) - 1 = n /\ n + 1 \in 0 .. Len(list)
    OBVIOUS
  <2>2. \/ f[n + 1] = f[n]
        \/ list[n + 1] \in CNOTs /\ f[n + 1] = Record(f[n], list[n + 1])
    BY <2>1 DEF Records
  <2>3. f[n] \in States
    BY DEF Records
  <2>4. CASE f[n + 1] = f[n]
    BY <2>4, <1>2, <2>1
  <2>5. CASE list[n + 1] \in CNOTs /\ f[n + 1] = Record(f[n], list[n + 1])
    <3>1. f[n + 1].cnots = Append(f[n].cnots, list[n + 1]) /\ f[n].cnots \in Seq(CNOTs)
      <4>1. list[n + 1] \in CNOTs
        BY <2>5
      <4>2. Record(f[n], list[n + 1]).cnots = Append(f[n].cnots, list[n + 1])
        BY <2>3, <4>1, RecordFacts
      <4>3. QED
        BY <2>3, <2>5, <4>2 DEF States
    <3>2. list[n + 1] \in T
      BY <2>1 DEF Within
    <3>3. Within(f[n].cnots, T)
      BY <1>2
    <3>4. Within(Append(f[n].cnots, list[n + 1]), T)
      BY <3>1, <3>2, <3>3, <2>5, AppendProperties, LenProperties DEF Within
    <3>5. QED
      BY <3>1, <3>4, <2>1
  <2>6. QED
    BY <2>2, <2>4, <2>5
<1>3. QED
  <2> HIDE DEF S
  <2>1. \A n \in 0 .. Len(list) : n \in S
    BY <1>1, <1>2, Induction
  <2>2. QED
    BY <2>1 DEF S

(* ... and it is what has been done to the rows. *)
LEMMA RecordsApplied ==
  ASSUME NEW X \in Matrices, NEW f, NEW list, Len(list) \in Nat,
         Records(f, list), AddRows(X, f[0].cnots) = f[0].mat
  PROVE  \A n \in 0 .. Len(list) : AddRows(X, f[n].cnots) = f[n].mat
<1> DEFINE S == {n \in 0 .. Len(list) : AddRows(X, f[n].cnots) = f[n].mat}
<1>1. 0 \in S
  OBVIOUS
<1>2. ASSUME NEW n \in 0 .. Len(list) - 1, n \in S
      PROVE  n + 1 \in S
  <2>1. n + 1 \in 1 .. Len(list) /\ (n + 1) - 1 = n /\ n + 1 \in 0 .. Len(list)
    OBVIOUS
  <2>2. \/ f[n + 1] = f[n]
        \/ list[n + 1] \in CNOTs /\ f[n + 1] = Record(f[n], list[n + 1])
    BY <2>1 DEF Records
  <2>3. f[n] \in States
    BY DEF Records
  <2>4. CASE f[n + 1] = f[n]
    BY <2>4, <1>2, <2>1
  <2>5. CASE list[n + 1] \in CNOTs /\ f[n + 1] = Record(f[n], list[n + 1])
    <3>1. /\ f[n + 1].cnots = Append(f[n].cnots, list[n + 1]) /\ f[n].cnots \in Seq(CNOTs)
          /\ f[n + 1].mat = AddRow(f[n].mat, list[n + 1])
      <4>1. list[n + 1] \in CNOTs
        BY <2>5
      <4>2. /\ Record(f[n], list[n + 1]).cnots = Append(f[n].cnots, list[n + 1])
            /\ Record(f[n], list[n + 1]).mat = AddRow(f[n].mat, list[n + 1])
        BY <2>3, <4>1, RecordFacts
      <4>3. QED
        BY <2>3, <2>5, <4>2 DEF States
    <3>2. AddRows(X, f[n].cnots) = f[n].mat
      BY <1>2
    <3>3. AddRows(X, Append(f[n].cnots, list[n + 1]))
            = AddRow(AddRows(X, f[n].cnots), list[n + 1])
      BY <3>1, <2>5, AddRowsAppend
    <3>4. QED
      BY <3>1, <3>2, <3>3, <2>1
  <2>6. QED
    BY <2>2, <2>4, <2>5
<1>3. QED
  <2> HIDE DEF S
  <2>1. \A n \in 0 .. Len(list) : n \in S
    BY <1>1, <1>2, Induction
  <2>2. QED
    BY <2>1 DEF S

-----------------------------------------------------------------------------
(* The columns that are done: in all lemmas, those before column c.        *)
Low(c) == 0 .. c - 1

DoneLeft(c, m) == \A q \in Qubits : m[q] \cap Low(c) = {q} \cap Low(c)

(* Of the list of CNOTs made since the columns were done, those that are   *)
(* not going to be repeated have added nothing to these columns.           *)
History(c, h, list, dep, pv) ==
  /\ Passes(h, h[0], list)
  /\ DoneLeft(c, h[0])
  /\ \A n \in 1 .. Len(list) :
       list[n][2] \notin dep \/ list[n][1] = pv => h[n - 1][list[n][1]] \cap Low(c) = {}

Tracked(c, st, pv) ==
  /\ pv \in Qubits /\ pv \notin st.dep /\ ~(pv < c)
  /\ \A q \in Qubits : q \notin st.dep => st.mat[q] \cap Low(c) = {q} \cap Low(c)
  /\ \E h : History(c, h, st.cnots, st.dep, pv) /\ h[Len(st.cnots)] = st.mat

LEMMA StartTracked ==
  ASSUME NEW c \in Qubits, NEW m \in Matrices, DoneLeft(c, m), NEW pv \in Qubits, ~(pv < c)
  PROVE  Tracked(c, Start(m, {}, <<>>), pv)
<1>1. <<>> \in Seq(CNOTs) /\ Len(<<>>) = 0
  OBVIOUS
<1> DEFINE h == [n \in 0 .. 0 |-> m]
<1>2. Passes(h, h[0], <<>>) /\ h[0] = m
  BY <1>1 DEF Passes
<1>3. History(c, h, <<>>, {}, pv)
  BY <1>1, <1>2 DEF History
<1>4. \E g : History(c, g, <<>>, {}, pv) /\ g[Len(<<>>)] = m
  <2> HIDE DEF h
  <2>1. QED
    BY <1>1, <1>2, <1>3
<1>5. {} \in SUBSET Qubits
  OBVIOUS
<1>6. QED
  BY <1>1, <1>4, <1>5 DEF Tracked, DoneLeft, Start

LEMMA RowLow ==
  ASSUME NEW c \in Qubits, NEW A, NEW B
  PROVE  /\ Xor(A, B) \cap Low(c) = Xor(A \cap Low(c), B \cap Low(c))
         /\ B \cap Low(c) = {} => Xor(A, B) \cap Low(c) = A \cap Low(c)
BY DEF Xor

LEMMA NothingLow ==
  ASSUME NEW c \in Qubits, NEW q \in Qubits, ~(q < c)
  PROVE  {q} \cap Low(c) = {}
BY DEF Low, Qubits

LEMMA RecordTracked ==
  ASSUME i \in Qubits, NEW st \in States, NEW cx \in CNOTs, NEW pv,
         Tracked(i, st, pv), cx[2] # pv
  PROVE  Tracked(i, Record(st, cx), pv)
<1>1. PICK h : History(i, h, st.cnots, st.dep, pv) /\ h[Len(st.cnots)] = st.mat
  BY DEF Tracked
<1>2. PICK new : new = Record(st, cx)
  OBVIOUS
<1>3. /\ new \in States /\ new.mat = AddRow(st.mat, cx)
      /\ new.cnots = Append(st.cnots, cx)
      /\ new.dep = IF cx[1] \in st.dep \/ cx[1] < i THEN st.dep \cup {cx[2]} ELSE st.dep
  BY <1>2, RecordFacts
<1>4. st.mat \in Matrices /\ st.dep \in SUBSET Qubits /\ st.cnots \in Seq(CNOTs)
  BY DEF States
<1>5. /\ cx[1] \in Qubits /\ cx[2] \in Qubits /\ cx[1] # cx[2]
      /\ new.mat[cx[2]] = Xor(st.mat[cx[2]], st.mat[cx[1]])
      /\ \A q \in Qubits \ {cx[2]} : new.mat[q] = st.mat[q]
      /\ new.mat \in Matrices
  BY <1>3, <1>4, AddRowFacts
<1>6. cx[2] \notin new.dep => st.mat[cx[1]] \cap Low(i) = {}
  <2>1. SUFFICES ASSUME cx[2] \notin new.dep PROVE st.mat[cx[1]] \cap Low(i) = {}
    OBVIOUS
  <2>2. cx[1] \notin st.dep /\ ~(cx[1] < i)
    BY <2>1, <1>3
  <2>3. st.mat[cx[1]] \cap Low(i) = {cx[1]} \cap Low(i)
    BY <2>2, <1>5 DEF Tracked
  <2>4. QED
    BY <2>2, <2>3, <1>5, NothingLow
<1>7. cx[1] = pv => st.mat[cx[1]] \cap Low(i) = {}
  BY <1>5, NothingLow DEF Tracked
<1>8. pv \notin new.dep /\ \A q : q \notin new.dep => q \notin st.dep
  BY <1>3 DEF Tracked
<1>9. ASSUME NEW q \in Qubits, q \notin new.dep
      PROVE  new.mat[q] \cap Low(i) = {q} \cap Low(i)
  <2>1. st.mat[q] \cap Low(i) = {q} \cap Low(i)
    BY <1>8, <1>9 DEF Tracked
  <2>2. CASE q = cx[2]
    <3>1. st.mat[cx[1]] \cap Low(i) = {}
      BY <1>6, <1>9, <2>2
    <3>2. Xor(st.mat[q], st.mat[cx[1]]) \cap Low(i) = st.mat[q] \cap Low(i)
      BY <3>1, RowLow
    <3>3. QED
      BY <3>2, <2>1, <2>2, <1>5
  <2>3. CASE q # cx[2]
    BY <2>1, <2>3, <1>5
  <2>4. QED
    BY <2>2, <2>3
<1> DEFINE L == Len(st.cnots)
           g == [n \in 0 .. L + 1 |-> IF n <= L THEN h[n] ELSE new.mat]
<1>10. /\ L \in Nat /\ Len(new.cnots) = L + 1 /\ new.cnots[L + 1] = cx
       /\ \A n \in 1 .. L : new.cnots[n] = st.cnots[n]
  BY <1>3, <1>4, AppendProperties, LenProperties
<1>11. h \in [0 .. L -> Matrices] /\ \A n \in 1 .. L : h[n] = AddRow(h[n - 1], st.cnots[n])
  BY <1>1 DEF History, Passes
<1>12. g[0] = h[0] /\ g[L + 1] = new.mat /\ \A n \in 0 .. L : g[n] = h[n]
  BY <1>10
<1>13. Passes(g, g[0], new.cnots)
  <2>1. g \in [0 .. L + 1 -> Matrices]
    BY <1>5, <1>10, <1>11
  <2>2. ASSUME NEW n \in 1 .. L + 1
        PROVE  g[n] = AddRow(g[n - 1], new.cnots[n])
    <3>1. CASE n = L + 1
      <4>1. g[n - 1] = st.mat
        BY <3>1, <1>1, <1>10, <1>12
      <4>2. QED
        BY <3>1, <4>1, <1>3, <1>10, <1>12
    <3>2. CASE n # L + 1
      <4>1. n \in 1 .. L /\ n \in 0 .. L /\ n - 1 \in 0 .. L
        BY <3>2, <1>10
      <4>2. QED
        BY <4>1, <1>10, <1>11, <1>12
    <3>3. QED
      BY <3>1, <3>2
  <2> HIDE DEF g
  <2>3. QED
    BY <2>1, <2>2, <1>10 DEF Passes
<1>14. ASSUME NEW n \in 1 .. L + 1, new.cnots[n][2] \notin new.dep \/ new.cnots[n][1] = pv
       PROVE  g[n - 1][new.cnots[n][1]] \cap Low(i) = {}
  <2>1. CASE n = L + 1
    <3>1. g[n - 1] = st.mat
      BY <2>1, <1>1, <1>10, <1>12
    <3>2. new.cnots[n] = cx
      BY <2>1, <1>10
    <3>3. QED
      BY <3>1, <3>2, <1>6, <1>7, <1>14
  <2>2. CASE n # L + 1
    <3>1. n \in 1 .. L /\ n - 1 \in 0 .. L
      BY <2>2, <1>10
    <3>2. g[n - 1] = h[n - 1] /\ new.cnots[n] = st.cnots[n]
      BY <3>1, <1>10, <1>12
    <3>3. st.cnots[n][2] \notin st.dep \/ st.cnots[n][1] = pv
      BY <3>2, <1>14, <1>8
    <3>4. h[n - 1][st.cnots[n][1]] \cap Low(i) = {}
      BY <3>1, <3>3, <1>1 DEF History
    <3>5. QED
      BY <3>2, <3>4
  <2>3. QED
    BY <2>1, <2>2
<1>15. History(i, g, new.cnots, new.dep, pv) /\ g[Len(new.cnots)] = new.mat
  <2>1. DoneLeft(i, g[0])
    BY <1>1, <1>12 DEF History
  <2> HIDE DEF g
  <2>2. QED
    BY <2>1, <1>10, <1>12, <1>13, <1>14 DEF History
<1>16. Tracked(i, new, pv)
  <2> HIDE DEF g
  <2>1. QED
    BY <1>8, <1>9, <1>15 DEF Tracked
<1>17. QED
  BY <1>2, <1>16

LEMMA RecordsTracked ==
  ASSUME i \in Qubits, NEW pv, NEW f, NEW list, Len(list) \in Nat, Records(f, list),
         \A n \in 1 .. Len(list) : list[n][2] # pv,
         Tracked(i, f[0], pv)
  PROVE  \A n \in 0 .. Len(list) : Tracked(i, f[n], pv)
<1> DEFINE S == {n \in 0 .. Len(list) : Tracked(i, f[n], pv)}
<1>1. 0 \in S
  OBVIOUS
<1>2. ASSUME NEW n \in 0 .. Len(list) - 1, n \in S
      PROVE  n + 1 \in S
  <2>1. n + 1 \in 1 .. Len(list) /\ (n + 1) - 1 = n /\ n + 1 \in 0 .. Len(list)
    OBVIOUS
  <2>2. \/ f[n + 1] = f[n]
        \/ list[n + 1] \in CNOTs /\ f[n + 1] = Record(f[n], list[n + 1])
    BY <2>1 DEF Records
  <2>3. f[n] \in States /\ Tracked(i, f[n], pv) /\ list[n + 1][2] # pv
    BY <1>2, <2>1 DEF Records
  <2>4. CASE f[n + 1] = f[n]
    BY <2>4, <1>2, <2>1
  <2>5. CASE list[n + 1] \in CNOTs /\ f[n + 1] = Record(f[n], list[n + 1])
    <3>1. Tracked(i, Record(f[n], list[n + 1]), pv)
      BY <2>3, <2>5, RecordTracked
    <3>2. QED
      BY <3>1, <2>5, <2>1
  <2>6. QED
    BY <2>2, <2>4, <2>5
<1>3. QED
  <2> HIDE DEF S
  <2>1. \A n \in 0 .. Len(list) : n \in S
    BY <1>1, <1>2, Induction
  <2>2. QED
    BY <2>1 DEF S

LEMMA ReverseFacts ==
  ASSUME NEW T, NEW list \in Seq(T)
  PROVE  /\ Reverse(list) \in Seq(T) /\ Len(Reverse(list)) = Len(list) /\ Len(list) \in Nat
         /\ \A n \in 1 .. Len(list) : Reverse(list)[n] = list[(Len(list) - n) + 1]
         /\ \A U : Within(list, U) => Within(Reverse(list), U)
<1>1. Len(list) \in Nat /\ \A n \in 1 .. Len(list) : list[n] \in T
  BY ElementOfSeq, LenProperties
<1>2. \A n \in 1 .. Len(list) : (Len(list) - n) + 1 \in 1 .. Len(list)
  BY <1>1
<1>3. \A n \in 1 .. Len(list) : list[(Len(list) - n) + 1] \in T
  BY <1>1, <1>2
<1>4. /\ Reverse(list) \in Seq(T) /\ Len(Reverse(list)) = Len(list)
      /\ \A n \in 1 .. Len(list) : Reverse(list)[n] = list[(Len(list) - n) + 1]
  BY <1>1, <1>3 DEF Reverse
<1>5. QED
  BY <1>1, <1>2, <1>4 DEF Within

(* One CNOT backwards, in the columns that are done: m is the rows as they *)
(* are, h and k those after and before the CNOT cx when it was made.       *)
LEMMA OneBack ==
  ASSUME NEW c \in Qubits, NEW m \in Matrices, NEW h \in Matrices, NEW k \in Matrices,
         NEW cx \in CNOTs, h = AddRow(k, cx),
         \A q \in Qubits : m[q] \cap Low(c) = h[q] \cap Low(c)
  PROVE  /\ \A q \in Qubits : AddRow(m, cx)[q] \cap Low(c) = k[q] \cap Low(c)
         /\ k[cx[1]] \cap Low(c) = {} =>
              \A q \in Qubits : m[q] \cap Low(c) = k[q] \cap Low(c)
<1>1. /\ cx[1] \in Qubits /\ cx[2] \in Qubits /\ cx[1] # cx[2]
      /\ h[cx[2]] = Xor(k[cx[2]], k[cx[1]])
      /\ \A q \in Qubits \ {cx[2]} : h[q] = k[q]
  BY AddRowFacts
<1>2. /\ AddRow(m, cx)[cx[2]] = Xor(m[cx[2]], m[cx[1]])
      /\ \A q \in Qubits \ {cx[2]} : AddRow(m, cx)[q] = m[q]
  BY AddRowFacts
<1>3. ASSUME NEW q \in Qubits
      PROVE  AddRow(m, cx)[q] \cap Low(c) = k[q] \cap Low(c)
  <2>1. CASE q = cx[2]
    <3> DEFINE a == k[cx[2]] \cap Low(c)
               b == k[cx[1]] \cap Low(c)
    <3>1. m[cx[1]] \cap Low(c) = b
      BY <1>1
    <3>2. m[cx[2]] \cap Low(c) = Xor(a, b)
      <4>1. Xor(k[cx[2]], k[cx[1]]) \cap Low(c) = Xor(a, b)
        BY RowLow
      <4>2. QED
        BY <1>1, <4>1
    <3>3. AddRow(m, cx)[q] \cap Low(c) = Xor(m[cx[2]] \cap Low(c), m[cx[1]] \cap Low(c))
      BY <1>2, <2>1, RowLow
    <3>4. Xor(Xor(a, b), b) = a
      BY DEF Xor
    <3>5. QED
      BY <2>1, <3>1, <3>2, <3>3, <3>4
  <2>2. CASE q # cx[2]
    BY <2>2, <1>1, <1>2
  <2>3. QED
    BY <2>1, <2>2
<1>4. ASSUME k[cx[1]] \cap Low(c) = {}, NEW q \in Qubits
      PROVE  m[q] \cap Low(c) = k[q] \cap Low(c)
  <2>1. CASE q = cx[2]
    <3>1. Xor(k[cx[2]], k[cx[1]]) \cap Low(c) = k[cx[2]] \cap Low(c)
      BY <1>4 DEF Xor
    <3>2. QED
      BY <2>1, <3>1, <1>1
  <2>2. CASE q # cx[2]
    BY <2>2, <1>1
  <2>3. QED
    BY <2>1, <2>2
<1>5. QED
  BY <1>3, <1>4

(* What is repeated of a list takes back all that the list has done to the *)
(* columns that are done.                                                  *)
LEMMA UndoRestores ==
  ASSUME i \in Qubits, NEW list \in Seq(CNOTs),
         Start(mat, above_diagonal_dep, list) \in States,
         Tracked(i, Start(mat, above_diagonal_dep, list), pivot),
         NEW f, RepeatRun(f, Start(mat, above_diagonal_dep, list), Reverse(list))
  PROVE  DoneLeft(i, f[Len(list)].mat)
<1>1. /\ Reverse(list) \in Seq(CNOTs) /\ Len(Reverse(list)) = Len(list) /\ Len(list) \in Nat
      /\ \A n \in 1 .. Len(list) : Reverse(list)[n] = list[(Len(list) - n) + 1]
  BY ReverseFacts
<1>2. PICK L : L = Len(list)
  OBVIOUS
<1>3. PICK h : History(i, h, list, above_diagonal_dep, pivot) /\ h[L] = mat
  BY <1>2 DEF Tracked, Start
<1>4. f \in [0 .. L -> States] /\ f[0].mat = mat
      /\ \A n \in 1 .. L : f[n] = Repeat(f[n - 1], Reverse(list)[n])
  BY <1>1, <1>2 DEF RepeatRun, Start
<1> DEFINE S == {n \in 0 .. L : \A q \in Qubits :
                   f[n].mat[q] \cap Low(i) = h[L - n][q] \cap Low(i)}
<1>5. 0 \in S
  BY <1>1, <1>2, <1>3, <1>4
<1>6. ASSUME NEW n \in 0 .. L - 1, n \in S
      PROVE  n + 1 \in S
  <2>1. /\ n + 1 \in 1 .. L /\ (n + 1) - 1 = n /\ n + 1 \in 0 .. L /\ n \in 0 .. L
        /\ L - n \in 1 .. L /\ L - n \in 0 .. L /\ L - (n + 1) = (L - n) - 1
        /\ (L - n) - 1 \in 0 .. L /\ (L - (n + 1)) + 1 = L - n
    BY <1>1, <1>2
  <2>2. PICK cx : cx = list[L - n]
    OBVIOUS
  <2>3. cx \in CNOTs /\ Reverse(list)[n + 1] = cx
    <3>1. list[L - n] \in CNOTs
      BY <2>1, <1>2, ElementOfSeq
    <3>2. Reverse(list)[n + 1] = list[(L - (n + 1)) + 1]
      BY <2>1, <1>1, <1>2
    <3>3. QED
      BY <2>1, <2>2, <3>1, <3>2
  <2>4. PICK k : k = h[(L - n) - 1]
    OBVIOUS
  <2>5. h[L - n] = AddRow(k, cx) /\ h[L - n] \in Matrices /\ k \in Matrices
    BY <2>1, <2>2, <2>4, <1>2, <1>3 DEF History, Passes
  <2>6. f[n] \in States /\ f[n].mat \in Matrices
    BY <2>1, <1>4 DEF States
  <2>7. \A q \in Qubits : f[n].mat[q] \cap Low(i) = h[L - n][q] \cap Low(i)
    BY <1>6
  <2>8. /\ \A q \in Qubits : AddRow(f[n].mat, cx)[q] \cap Low(i) = k[q] \cap Low(i)
        /\ k[cx[1]] \cap Low(i) = {} =>
             \A q \in Qubits : f[n].mat[q] \cap Low(i) = k[q] \cap Low(i)
    <3>1. PICK m : m = f[n].mat
      OBVIOUS
    <3>2. PICK a : a = h[L - n]
      OBVIOUS
    <3>3. a = AddRow(k, cx) /\ a \in Matrices /\ k \in Matrices /\ m \in Matrices
      BY <3>1, <3>2, <2>5, <2>6
    <3>4. \A q \in Qubits : m[q] \cap Low(i) = a[q] \cap Low(i)
      BY <3>1, <3>2, <2>7
    <3>5. /\ \A q \in Qubits : AddRow(m, cx)[q] \cap Low(i) = k[q] \cap Low(i)
          /\ k[cx[1]] \cap Low(i) = {} =>
               \A q \in Qubits : m[q] \cap Low(i) = k[q] \cap Low(i)
      BY <2>3, <3>3, <3>4, OneBack
    <3>6. QED
      BY <3>1, <3>5
  <2>9. f[n + 1] = Repeat(f[n], cx)
    BY <2>1, <2>3, <1>4
  <2>10. CASE cx[2] \in above_diagonal_dep /\ cx[1] # pivot
    <3>1. f[n + 1] = Record(f[n], cx)
      BY <2>9, <2>10 DEF Repeat
    <3>2. f[n + 1].mat = AddRow(f[n].mat, cx)
      BY <3>1 DEF Record
    <3>3. QED
      BY <3>2, <2>8, <2>1, <2>4
  <2>11. CASE ~(cx[2] \in above_diagonal_dep /\ cx[1] # pivot)
    <3>1. f[n + 1] = f[n]
      BY <2>9, <2>11 DEF Repeat
    <3>2. k[cx[1]] \cap Low(i) = {}
      BY <2>1, <2>2, <2>4, <2>11, <1>2, <1>3 DEF History
    <3>3. QED
      BY <3>1, <3>2, <2>8, <2>1, <2>4
  <2>12. QED
    BY <2>10, <2>11
<1>7. L \in S
  <2> HIDE DEF S
  <2>1. \A n \in 0 .. L : n \in S
    BY <1>1, <1>2, <1>5, <1>6, Induction
  <2>2. QED
    BY <2>1, <1>1, <1>2
<1>8. L - L = 0
  BY <1>1, <1>2
<1>9. QED
  BY <1>2, <1>3, <1>7, <1>8 DEF DoneLeft, History

(* ... and leaves column i as it is, if only the pivot has a 1 there among *)
(* the controls.                                                           *)
LEMMA UndoKeepsColumn ==
  ASSUME i \in Qubits, NEW list \in Seq(CNOTs),
         Start(mat, above_diagonal_dep, list) \in States,
         \A n \in 1 .. Len(list) : list[n][1] # pivot => i \notin mat[list[n][1]],
         NEW f, RepeatRun(f, Start(mat, above_diagonal_dep, list), Reverse(list))
  PROVE  \A q \in Qubits : i \in f[Len(list)].mat[q] <=> i \in mat[q]
<1>1. /\ Reverse(list) \in Seq(CNOTs) /\ Len(Reverse(list)) = Len(list) /\ Len(list) \in Nat
      /\ \A n \in 1 .. Len(list) : Reverse(list)[n] = list[(Len(list) - n) + 1]
  BY ReverseFacts
<1>2. PICK L : L = Len(list)
  OBVIOUS
<1>4. f \in [0 .. L -> States] /\ f[0].mat = mat
      /\ \A n \in 1 .. L : f[n] = Repeat(f[n - 1], Reverse(list)[n])
  BY <1>1, <1>2 DEF RepeatRun, Start
<1> DEFINE S == {n \in 0 .. L : \A q \in Qubits : i \in f[n].mat[q] <=> i \in mat[q]}
<1>5. 0 \in S
  BY <1>1, <1>2, <1>4
<1>6. ASSUME NEW n \in 0 .. L - 1, n \in S
      PROVE  n + 1 \in S
  <2>1. /\ n + 1 \in 1 .. L /\ (n + 1) - 1 = n /\ n + 1 \in 0 .. L /\ n \in 0 .. L
        /\ L - n \in 1 .. L /\ (L - (n + 1)) + 1 = L - n
    BY <1>1, <1>2
  <2>2. PICK cx : cx = list[L - n]
    OBVIOUS
  <2>3. cx \in CNOTs /\ Reverse(list)[n + 1] = cx
    <3>1. list[L - n] \in CNOTs
      BY <2>1, <1>2, ElementOfSeq
    <3>2. Reverse(list)[n + 1] = list[(L - (n + 1)) + 1]
      BY <2>1, <1>1, <1>2
    <3>3. QED
      BY <2>1, <2>2, <3>1, <3>2
  <2>4. f[n] \in States /\ f[n].mat \in Matrices
    BY <2>1, <1>4 DEF States
  <2>5. \A q \in Qubits : i \in f[n].mat[q] <=> i \in mat[q]
    BY <1>6
  <2>6. f[n + 1] = Repeat(f[n], cx)
    BY <2>1, <2>3, <1>4
  <2>7. CASE cx[2] \in above_diagonal_dep /\ cx[1] # pivot
    <3>1. f[n + 1] = Record(f[n], cx)
      BY <2>6, <2>7 DEF Repeat
    <3>2. f[n + 1].mat = AddRow(f[n].mat, cx)
      BY <3>1 DEF Record
    <3>3. /\ cx[1] \in Qubits /\ cx[2] \in Qubits
          /\ f[n + 1].mat[cx[2]] = Xor(f[n].mat[cx[2]], f[n].mat[cx[1]])
          /\ \A q \in Qubits \ {cx[2]} : f[n + 1].mat[q] = f[n].mat[q]
      BY <3>2, <2>3, <2>4, AddRowFacts
    <3>4. i \notin f[n].mat[cx[1]]
      BY <3>3, <2>1, <2>2, <2>5, <2>7, <1>2
    <3>5. i \in Xor(f[n].mat[cx[2]], f[n].mat[cx[1]]) <=> i \in f[n].mat[cx[2]]
      BY <3>4 DEF Xor
    <3>6. \A q \in Qubits : i \in f[n + 1].mat[q] <=> i \in mat[q]
      BY <3>3, <3>5, <2>5
    <3>7. QED
      BY <3>6, <2>1
  <2>8. CASE ~(cx[2] \in above_diagonal_dep /\ cx[1] # pivot)
    <3>1. f[n + 1] = f[n]
      BY <2>6, <2>8 DEF Repeat
    <3>2. QED
      BY <3>1, <2>1, <2>5
  <2>9. QED
    BY <2>7, <2>8
<1>7. L \in S
  <2> HIDE DEF S
  <2>1. \A n \in 0 .. L : n \in S
    BY <1>1, <1>2, <1>5, <1>6, Induction
  <2>2. QED
    BY <2>1, <1>1, <1>2
<1>8. QED
  BY <1>2, <1>7

-----------------------------------------------------------------------------
(* The inductive invariant.                                                *)
TypeInv ==
  /\ method \in Methods /\ graph \in Graphs /\ operator \in Matrices /\ mat \in Matrices
  /\ i \in Qubits /\ pivot \in Qubits
  /\ phase \in {"column", "back", "pivot", "cross", "uncross", "tree", "untree",
                "done", "returned", "failed"}
  /\ ret \in Seq(CNOTs) /\ swap \in Seq(CNOTs) /\ compute \in Seq(CNOTs)
  /\ above_diagonal_dep \in SUBSET Qubits

(* which variables are in use in which phase *)
PhaseInv ==
  /\ phase \in {"column", "back"} => method # "steiner"
  /\ phase = "back" => method = "elim"
  /\ phase \in {"pivot", "cross", "uncross", "tree", "untree"} => method = "steiner"
  /\ phase \notin {"cross", "uncross", "tree", "untree"} => swap = <<>>
  /\ phase \notin {"tree", "untree"} => compute = <<>>

(* The CNOTs listed are what has been done to the rows. *)
AppliedInv ==
  /\ phase # "returned" => AddRows(operator, ret \o swap \o compute) = mat
  /\ phase = "returned" => AddRows(Identity, ret) = operator

CouplingInv ==
  method = "steiner" =>
    Within(ret, graph) /\ Within(swap, graph) /\ Within(compute, graph)

(* gaussian_elim clears the columns below the diagonal first. *)
Lower(c, m) ==
  \A x \in Low(c) : \A q \in Qubits : ~(q < x) => (x \in m[q] <=> q = x)

EliminationInv ==
  /\ phase = "column" => IF method = "elim" THEN Lower(i, mat) ELSE DoneLeft(i, mat)
  /\ phase = "back" =>
       /\ Lower(NQ, mat)
       /\ \A x \in i + 1 .. NQ - 1 : \A q \in Qubits : x \in mat[q] <=> q = x
  /\ phase = "done" => mat = Identity
  /\ phase = "failed" => Lower(i, mat) /\ \A q \in Qubits : ~(q < i) => i \notin mat[q]

PathSteps(p) == {<<p[n], p[n + 1]>> : n \in 1 .. Len(p) - 1}

(* While the columns before i are not done, because of a path, ...         *)
PathInv ==
  /\ phase = "pivot" => DoneLeft(i, mat)
  /\ phase = "cross" /\ crossed_diag =>
       /\ Tracked(i, Start(mat, above_diagonal_dep, swap), pivot)
       /\ pivot # i /\ IsPath(graph, pivot, i, path)
       /\ \A n \in 1 .. Len(path) : i \in mat[path[n]]
       /\ Within(swap, PathSteps(path))
  /\ phase = "uncross" =>
       /\ Tracked(i, Start(mat, above_diagonal_dep, swap), pivot)
       /\ i \in mat[i]
       /\ \A n \in 1 .. Len(swap) : swap[n][1] # pivot => i \notin mat[swap[n][1]]

(* ... or of a tree, it is known what will take it back.                   *)
TreeInv ==
  /\ phase = "cross" /\ ~crossed_diag => DoneLeft(i, mat) /\ i \in mat[i]
  /\ phase \in {"tree", "untree"} =>
       /\ pivot = i
       /\ Tracked(i, Start(mat, above_diagonal_dep, compute), pivot)
  /\ phase = "tree" =>
       /\ \E terminals : IsTree(graph, i, terminals, s_tree)
       /\ \A q \in Qubits : i \in mat[q] <=> q \in Nodes(i, s_tree, Len(s_tree))
  /\ phase = "untree" => \A q \in Qubits : i \in mat[q] <=> q = i

IInv ==
  /\ TypeInv /\ PhaseInv /\ AppliedInv /\ CouplingInv
  /\ EliminationInv /\ PathInv /\ TreeInv

-----------------------------------------------------------------------------
(* What the loops do to column i.                                          *)

LEMMA RecordRows ==
  ASSUME NEW st \in States, NEW cx \in CNOTs
  PROVE  /\ cx[1] \in Qubits /\ cx[2] \in Qubits /\ cx[1] # cx[2]
         /\ Record(st, cx).mat[cx[2]] = Xor(st.mat[cx[2]], st.mat[cx[1]])
         /\ \A q \in Qubits \ {cx[2]} : Record(st, cx).mat[q] = st.mat[q]
<1>1. st.mat \in Matrices /\ Record(st, cx).mat = AddRow(st.mat, cx)
  BY DEF States, Record
<1>2. QED
  BY <1>1, AddRowFacts

LEMMA StepsFacts ==
  ASSUME NEW G, NEW a, NEW b, NEW p, IsPath(G, a, b, p)
  PROVE  /\ Len(p) \in Nat \ {0} /\ p[1] = a /\ p[Len(p)] = b
         /\ \A n \in 1 .. Len(p) : p[n] \in Qubits
         /\ Steps(p) \in Seq(CNOTs) /\ Len(Steps(p)) = Len(p) - 1
         /\ \A n \in 1 .. Len(p) - 1 : Steps(p)[n] = <<p[n], p[n + 1]>>
         /\ \A n \in 1 .. Len(Steps(p)) : Steps(p)[n][2] # a
         /\ Within(Steps(p), PathSteps(p)) /\ PathSteps(p) \subseteq G
<1>1. Len(p) \in Nat \ {0} /\ p[1] = a /\ p[Len(p)] = b /\ \A n \in 1 .. Len(p) : p[n] \in Qubits
  BY ElementOfSeq, LenProperties, EmptySeq DEF IsPath
<1>2. \A n \in 1 .. Len(p) - 1 : <<p[n], p[n + 1]>> \in CNOTs
  <2>1. ASSUME NEW n \in 1 .. Len(p) - 1
        PROVE  <<p[n], p[n + 1]>> \in CNOTs
    <3>1. n \in 1 .. Len(p) /\ n + 1 \in 1 .. Len(p) /\ n # n + 1
      BY <1>1
    <3>2. p[n] # p[n + 1]
      BY <3>1 DEF IsPath
    <3>3. QED
      BY <3>1, <3>2, <1>1 DEF CNOTs
  <2>2. QED
    BY <2>1
<1>3. /\ Steps(p) \in Seq(CNOTs) /\ Len(Steps(p)) = Len(p) - 1
      /\ \A n \in 1 .. Len(p) - 1 : Steps(p)[n] = <<p[n], p[n + 1]>>
  BY <1>1, <1>2 DEF Steps
<1>4. \A n \in 1 .. Len(Steps(p)) : Steps(p)[n][2] # a
  <2>1. ASSUME NEW n \in 1 .. Len(p) - 1
        PROVE  p[n + 1] # a
    <3>1. 1 \in 1 .. Len(p) /\ n + 1 \in 1 .. Len(p) /\ 1 # n + 1
      BY <1>1
    <3>2. QED
      BY <3>1, <1>1 DEF IsPath
  <2>2. QED
    BY <2>1, <1>3
<1>5. Within(Steps(p), PathSteps(p)) /\ PathSteps(p) \subseteq G
  BY <1>3 DEF Within, PathSteps, IsPath
<1>6. QED
  BY <1>1, <1>3, <1>4, <1>5

LEMMA StepsBackFacts ==
  ASSUME NEW G, NEW a, NEW b, NEW p, IsPath(G, a, b, p), a # b
  PROVE  /\ StepsBack(p) \in Seq(CNOTs) /\ Len(StepsBack(p)) = Len(p) - 2
         /\ Len(p) - 2 \in Nat
         /\ \A n \in 1 .. Len(p) - 2 : StepsBack(p)[n] = <<p[Len(p) - 1 - n], p[Len(p) - n]>>
         /\ \A n \in 1 .. Len(StepsBack(p)) : StepsBack(p)[n][2] # a
         /\ Within(StepsBack(p), PathSteps(p))
<1>1. /\ Len(p) \in Nat \ {0} /\ p[1] = a /\ p[Len(p)] = b
      /\ \A n \in 1 .. Len(p) : p[n] \in Qubits
  BY StepsFacts
<1>2. Len(p) - 2 \in Nat
  BY <1>1
<1>3. ASSUME NEW n \in 1 .. Len(p) - 2
      PROVE  /\ <<p[Len(p) - 1 - n], p[Len(p) - n]>> \in CNOTs
             /\ <<p[Len(p) - 1 - n], p[Len(p) - n]>> \in PathSteps(p)
             /\ p[Len(p) - n] # a
  <2>1. PICK m : m = Len(p) - 1 - n
    OBVIOUS
  <2>2. m \in 1 .. Len(p) - 1 /\ m \in 1 .. Len(p) /\ m + 1 \in 1 .. Len(p)
        /\ m + 1 = Len(p) - n /\ m # m + 1 /\ 1 \in 1 .. Len(p) /\ m + 1 # 1
    BY <2>1, <1>1
  <2>3. p[m] # p[m + 1] /\ p[1] # p[m + 1]
    BY <2>2 DEF IsPath
  <2>4. <<p[m], p[m + 1]>> \in CNOTs /\ <<p[m], p[m + 1]>> \in PathSteps(p)
    BY <2>2, <2>3, <1>1 DEF CNOTs, PathSteps
  <2>5. QED
    BY <2>1, <2>2, <2>3, <2>4, <1>1
<1>4. /\ StepsBack(p) \in Seq(CNOTs) /\ Len(StepsBack(p)) = Len(p) - 2
      /\ \A n \in 1 .. Len(p) - 2 : StepsBack(p)[n] = <<p[Len(p) - 1 - n], p[Len(p) - n]>>
  BY <1>2, <1>3 DEF StepsBack
<1>5. ASSUME NEW n \in 1 .. Len(StepsBack(p))
      PROVE  StepsBack(p)[n][2] # a /\ StepsBack(p)[n] \in PathSteps(p)
  <2>1. n \in 1 .. Len(p) - 2
    BY <1>4
  <2>2. StepsBack(p)[n] = <<p[Len(p) - 1 - n], p[Len(p) - n]>>
    BY <2>1, <1>4
  <2>3. QED
    BY <2>1, <2>2, <1>3
<1>6. Within(StepsBack(p), PathSteps(p))
  BY <1>5 DEF Within
<1>7. QED
  BY <1>2, <1>4, <1>5, <1>6

LEMMA FillPathColumn ==
  ASSUME i \in Qubits, NEW G, NEW a, NEW b, NEW p, IsPath(G, a, b, p),
         NEW base \in States, i \in base.mat[a],
         NEW f, FillRun(f, base, Steps(p))
  PROVE  \A n \in 0 .. Len(p) - 1 : \A m \in 1 .. n + 1 : i \in f[n].mat[p[m]]
<1>1. /\ Len(p) \in Nat \ {0} /\ p[1] = a
      /\ \A n \in 1 .. Len(p) : p[n] \in Qubits
      /\ Steps(p) \in Seq(CNOTs) /\ Len(Steps(p)) = Len(p) - 1
      /\ \A n \in 1 .. Len(p) - 1 : Steps(p)[n] = <<p[n], p[n + 1]>>
  BY StepsFacts
<1>2. PICK N : N = Len(p) - 1
  OBVIOUS
<1>3. /\ f \in [0 .. N -> States] /\ f[0] = base
      /\ \A n \in 1 .. N : f[n] = Fill(f[n - 1], Steps(p)[n])
  BY <1>1, <1>2 DEF FillRun
<1> DEFINE S == {n \in 0 .. N : \A m \in 1 .. n + 1 : i \in f[n].mat[p[m]]}
<1>4. 0 \in S
  BY <1>1, <1>2, <1>3
<1>5. ASSUME NEW n \in 0 .. N - 1, n \in S
      PROVE  n + 1 \in S
  <2>1. /\ n + 1 \in 1 .. N /\ (n + 1) - 1 = n /\ n + 1 \in 0 .. N /\ n \in 0 .. N
        /\ n + 1 \in 1 .. Len(p) - 1 /\ n + 2 \in 1 .. Len(p) /\ (n + 1) + 1 = n + 2
        /\ n + 1 \in 1 .. Len(p)
    BY <1>1, <1>2
  <2>2. PICK cx : cx = Steps(p)[n + 1]
    OBVIOUS
  <2>3. cx \in CNOTs /\ cx[1] = p[n + 1] /\ cx[2] = p[n + 2]
    <3>1. cx = <<p[n + 1], p[n + 2]>>
      BY <2>1, <2>2, <1>1
    <3>2. cx \in CNOTs
      BY <2>1, <2>2, <1>1, ElementOfSeq
    <3>3. QED
      BY <3>1, <3>2
  <2>4. f[n] \in States /\ f[n + 1] = Fill(f[n], cx)
    BY <2>1, <2>2, <1>3
  <2>5. \A m \in 1 .. n + 1 : i \in f[n].mat[p[m]]
    BY <1>5
  <2>6. \A m \in 1 .. n + 2 : m \in 1 .. n + 1 \/ m = n + 2
    BY <2>1
  <2>7. CASE i \in f[n].mat[cx[2]]
    <3>1. f[n + 1] = f[n]
      BY <2>4, <2>7 DEF Fill
    <3>2. \A m \in 1 .. n + 2 : i \in f[n + 1].mat[p[m]]
      BY <3>1, <2>3, <2>5, <2>6, <2>7
    <3>3. QED
      BY <3>2, <2>1
  <2>8. CASE i \notin f[n].mat[cx[2]]
    <3>1. f[n + 1] = Record(f[n], cx)
      BY <2>4, <2>8 DEF Fill
    <3>2. /\ f[n + 1].mat[cx[2]] = Xor(f[n].mat[cx[2]], f[n].mat[cx[1]])
          /\ \A q \in Qubits \ {cx[2]} : f[n + 1].mat[q] = f[n].mat[q]
      <4>1. PICK st : st = f[n]
        OBVIOUS
      <4>2. st \in States /\ f[n + 1] = Record(st, cx)
        BY <4>1, <3>1, <2>4
      <4>3. QED
        BY <4>1, <4>2, <2>3, RecordRows
    <3>3. n + 1 \in 1 .. n + 1
      BY <2>1
    <3>4. i \in f[n + 1].mat[cx[2]]
      BY <3>2, <3>3, <2>3, <2>5, <2>8 DEF Xor
    <3>5. \A m \in 1 .. n + 2 : m \in 1 .. Len(p)
      BY <2>1
    <3>6. \A m \in 1 .. n + 2 : i \in f[n + 1].mat[p[m]]
      BY <3>2, <3>4, <3>5, <1>1, <2>3, <2>5, <2>6
    <3>7. QED
      BY <3>6, <2>1
  <2>9. QED
    BY <2>7, <2>8
<1>6. QED
  <2> HIDE DEF S
  <2>1. N \in Nat
    BY <1>1, <1>2
  <2>2. \A n \in 0 .. N : n \in S
    BY <2>1, <1>4, <1>5, Induction
  <2>3. QED
    BY <2>2, <1>2 DEF S

(* Without a control above the diagonal there is no dependence. *)
LEMMA NoCrossing ==
  ASSUME NEW f, NEW list, Len(list) \in Nat, Records(f, list),
         f[0].dep = {}
  PROVE  \A n \in 0 .. Len(list) :
           \/ f[n].dep = {}
           \/ \E k \in 1 .. Len(f[n].cnots) : f[n].cnots[k][1] < i
<1> DEFINE Crossed(s) == \E k \in 1 .. Len(s) : s[k][1] < i
           S == {n \in 0 .. Len(list) : f[n].dep = {} \/ Crossed(f[n].cnots)}
<1>1. 0 \in S
  OBVIOUS
<1>2. ASSUME NEW n \in 0 .. Len(list) - 1, n \in S
      PROVE  n + 1 \in S
  <2>1. n + 1 \in 1 .. Len(list) /\ (n + 1) - 1 = n /\ n + 1 \in 0 .. Len(list)
    OBVIOUS
  <2>2. PICK cx : cx = list[n + 1]
    OBVIOUS
  <2>3. f[n + 1] = f[n] \/ (cx \in CNOTs /\ f[n + 1] = Record(f[n], cx))
    BY <2>1, <2>2 DEF Records
  <2>4. PICK s : s = f[n].cnots
    OBVIOUS
  <2>5. s \in Seq(CNOTs) /\ f[n] \in States
    BY <2>1, <2>4 DEF Records, States
  <2>6. CASE f[n + 1] = f[n]
    BY <2>6, <1>2, <2>1
  <2>7. CASE cx \in CNOTs /\ f[n + 1] = Record(f[n], cx)
    <3>1. /\ f[n + 1].cnots = Append(s, cx)
          /\ f[n + 1].dep = IF cx[1] \in f[n].dep \/ cx[1] < i
                            THEN f[n].dep \cup {cx[2]} ELSE f[n].dep
      BY <2>4, <2>7 DEF Record
    <3>2. /\ Len(s) \in Nat /\ Len(Append(s, cx)) = Len(s) + 1 /\ Append(s, cx)[Len(s) + 1] = cx
          /\ \A k \in 1 .. Len(s) : Append(s, cx)[k] = s[k]
      BY <2>5, <2>7, AppendProperties, LenProperties
    <3>3. Crossed(s) => Crossed(Append(s, cx))
      BY <3>2
    <3>4. cx[1] < i => Crossed(Append(s, cx))
      BY <3>2
    <3>5. f[n].dep = {} \/ Crossed(s)
      BY <1>2, <2>4
    <3> HIDE DEF Crossed
    <3>6. f[n + 1].dep = {} \/ Crossed(f[n + 1].cnots)
      BY <3>1, <3>3, <3>4, <3>5
    <3>7. QED
      BY <3>6, <2>1
  <2>8. QED
    BY <2>3, <2>6, <2>7
<1>3. QED
  <2> HIDE DEF S
  <2>1. \A n \in 0 .. Len(list) : n \in S
    BY <1>1, <1>2, Induction
  <2>2. QED
    BY <2>1 DEF S
LEMMA ClearPathColumn ==
  ASSUME i \in Qubits, NEW G, NEW a, NEW b, NEW p, IsPath(G, a, b, p), a # b,
         NEW base \in States, \A m \in 1 .. Len(p) : i \in base.mat[p[m]],
         NEW f, RecordRun(f, base, StepsBack(p))
  PROVE  \A n \in 0 .. Len(p) - 2 : \A m \in 1 .. Len(p) :
           i \in f[n].mat[p[m]] <=> m = Len(p) \/ m <= Len(p) - 1 - n
<1>1. /\ Len(p) \in Nat \ {0} /\ p[1] = a
      /\ \A n \in 1 .. Len(p) : p[n] \in Qubits
  BY StepsFacts
<1>2. /\ StepsBack(p) \in Seq(CNOTs) /\ Len(StepsBack(p)) = Len(p) - 2
      /\ Len(p) - 2 \in Nat
      /\ \A n \in 1 .. Len(p) - 2 : StepsBack(p)[n] = <<p[Len(p) - 1 - n], p[Len(p) - n]>>
  BY StepsBackFacts
<1>3. PICK N : N = Len(p) - 2
  OBVIOUS
<1>4. /\ f \in [0 .. N -> States] /\ f[0] = base
      /\ \A n \in 1 .. N : f[n] = Record(f[n - 1], StepsBack(p)[n])
  BY <1>2, <1>3 DEF RecordRun
<1> DEFINE S == {n \in 0 .. N : \A m \in 1 .. Len(p) :
                   i \in f[n].mat[p[m]] <=> m = Len(p) \/ m <= Len(p) - 1 - n}
<1>5. 0 \in S
  <2>1. 0 \in 0 .. N
    BY <1>2, <1>3
  <2>2. \A m \in 1 .. Len(p) : m = Len(p) \/ m <= Len(p) - 1 - 0
    BY <1>1
  <2>3. QED
    BY <2>1, <2>2, <1>4
<1>6. ASSUME NEW n \in 0 .. N - 1, n \in S
      PROVE  n + 1 \in S
  <2>1. PICK c : c = Len(p) - 2 - n
    OBVIOUS
  <2>2. /\ n + 1 \in 1 .. N /\ (n + 1) - 1 = n /\ n + 1 \in 0 .. N /\ n \in 0 .. N
        /\ c \in 1 .. Len(p) /\ c + 1 \in 1 .. Len(p) /\ c + 1 # Len(p) /\ c # c + 1
        /\ c = Len(p) - 1 - (n + 1) /\ c + 1 = Len(p) - (n + 1)
        /\ c + 1 = Len(p) - 1 - n /\ c \in Nat
    BY <1>1, <1>2, <1>3, <2>1
  <2>3. PICK cx : cx = StepsBack(p)[n + 1]
    OBVIOUS
  <2>4. cx \in CNOTs /\ cx[1] = p[c] /\ cx[2] = p[c + 1]
    <3>1. StepsBack(p)[n + 1] = <<p[Len(p) - 1 - (n + 1)], p[Len(p) - (n + 1)]>>
      BY <2>2, <1>2, <1>3
    <3>2. cx = <<p[c], p[c + 1]>>
      BY <3>1, <2>2, <2>3
    <3>3. cx \in CNOTs
      BY <2>2, <2>3, <1>2, <1>3, ElementOfSeq
    <3>4. QED
      BY <3>2, <3>3
  <2>5. PICK st : st = f[n]
    OBVIOUS
  <2>6. st \in States /\ f[n + 1] = Record(st, cx)
    BY <2>2, <2>3, <2>5, <1>4
  <2>7. /\ f[n + 1].mat[cx[2]] = Xor(st.mat[cx[2]], st.mat[cx[1]])
        /\ \A q \in Qubits \ {cx[2]} : f[n + 1].mat[q] = st.mat[q]
    BY <2>4, <2>6, RecordRows
  <2>8. \A m \in 1 .. Len(p) : i \in st.mat[p[m]] <=> m = Len(p) \/ m <= c + 1
    BY <1>6, <2>2, <2>5
  <2>9. ASSUME NEW m \in 1 .. Len(p)
        PROVE  i \in f[n + 1].mat[p[m]] <=> m = Len(p) \/ m <= c
    <3>1. CASE m = c + 1
      <4>1. i \in st.mat[cx[1]] /\ i \in st.mat[cx[2]]
        <5>1. c <= c + 1 /\ c + 1 <= c + 1
          BY <2>2
        <5>2. i \in st.mat[p[c]] /\ i \in st.mat[p[c + 1]]
          BY <5>1, <2>2, <2>8
        <5>3. QED
          BY <5>2, <2>4
      <4>2. i \notin f[n + 1].mat[cx[2]]
        BY <4>1, <2>7 DEF Xor
      <4>3. QED
        BY <3>1, <4>2, <2>2, <2>4
    <3>2. CASE m # c + 1
      <4>1. p[m] # p[c + 1]
        BY <3>2, <2>2 DEF IsPath
      <4>2. f[n + 1].mat[p[m]] = st.mat[p[m]]
        BY <4>1, <2>4, <2>7, <1>1
      <4>3. m <= c + 1 <=> m <= c
        <5>1. m \in Int /\ c \in Int
          BY <2>2, <1>1
        <5>2. QED
          BY <5>1, <3>2
      <4>4. QED
        BY <4>2, <4>3, <2>8
    <3>3. QED
      BY <3>1, <3>2
  <2>10. QED
    BY <2>2, <2>9
<1>7. QED
  <2> HIDE DEF S
  <2>1. \A n \in 0 .. N : n \in S
    BY <1>2, <1>3, <1>5, <1>6, Induction
  <2>2. QED
    BY <2>1, <1>3 DEF S

(* The edges of a tree as CNOTs. *)
TreeRun(G, r, t) ==
  /\ Len(t) \in Nat /\ t \in Seq(CNOTs) /\ Within(t, G)
  /\ \A n \in 1 .. Len(t) : t[n][2] # r
  /\ Nodes(r, t, 0) = {r}
  /\ \A n \in 1 .. Len(t) :
       /\ t[n][1] \in Nodes(r, t, n - 1)
       /\ t[n][2] \notin Nodes(r, t, n - 1)
       /\ Nodes(r, t, n) = Nodes(r, t, n - 1) \cup {t[n][2]}

LEMMA TreeFacts ==
  ASSUME NEW G \in SUBSET (Qubits \X Qubits), NEW r, NEW terminals, NEW t,
         IsTree(G, r, terminals, t)
  PROVE  TreeRun(G, r, t)
<1>1. Len(t) \in Nat /\ \A n \in 1 .. Len(t) : t[n] \in G
  BY ElementOfSeq, LenProperties DEF IsTree
<1>2. ASSUME NEW n \in 1 .. Len(t)
      PROVE  /\ t[n][1] \in Nodes(r, t, n - 1)
             /\ t[n][2] \notin Nodes(r, t, n - 1)
             /\ Nodes(r, t, n) = Nodes(r, t, n - 1) \cup {t[n][2]}
             /\ t[n] \in CNOTs /\ t[n][2] # r
  <2>1. t[n][1] \in Nodes(r, t, n - 1) /\ t[n][2] \notin Nodes(r, t, n - 1)
    BY DEF IsTree
  <2>2. 1 .. n = (1 .. n - 1) \cup {n}
    BY <1>1
  <2>3. Nodes(r, t, n) = Nodes(r, t, n - 1) \cup {t[n][2]}
    BY <2>2 DEF Nodes
  <2>4. t[n] \in Qubits \X Qubits
    BY <1>1
  <2>5. t[n][1] # t[n][2] /\ t[n][2] # r
    BY <2>1 DEF Nodes
  <2>6. QED
    BY <2>1, <2>3, <2>4, <2>5 DEF CNOTs
<1>3. t \in Seq(CNOTs)
  <2>1. t \in Seq(G)
    BY DEF IsTree
  <2>2. t = [n \in 1 .. Len(t) |-> t[n]]
    BY <2>1
  <2>3. QED
    BY <1>1, <1>2, <2>2
<1>4. Nodes(r, t, 0) = {r}
  BY DEF Nodes
<1>5. QED
  BY <1>1, <1>2, <1>3, <1>4 DEF Within, TreeRun

LEMMA FillTreeColumn ==
  ASSUME i \in Qubits, NEW G \in SUBSET (Qubits \X Qubits), NEW r, NEW terminals, NEW t,
         IsTree(G, r, terminals, t),
         NEW base \in States, i \in base.mat[r],
         NEW f, FillRun(f, base, t)
  PROVE  \A n \in 0 .. Len(t) : \A q \in Qubits :
           i \in f[n].mat[q] <=> q \in Nodes(r, t, n) \/ i \in base.mat[q]
<1>1. TreeRun(G, r, t)
  BY TreeFacts
<1>2. /\ f \in [0 .. Len(t) -> States] /\ f[0] = base
      /\ \A n \in 1 .. Len(t) : f[n] = Fill(f[n - 1], t[n])
  BY DEF FillRun
<1> DEFINE S == {n \in 0 .. Len(t) : \A q \in Qubits :
                   i \in f[n].mat[q] <=> q \in Nodes(r, t, n) \/ i \in base.mat[q]}
<1>3. 0 \in S
  BY <1>1, <1>2 DEF TreeRun
<1>4. ASSUME NEW n \in 0 .. Len(t) - 1, n \in S
      PROVE  n + 1 \in S
  <2>1. n + 1 \in 1 .. Len(t) /\ (n + 1) - 1 = n /\ n + 1 \in 0 .. Len(t) /\ n \in 0 .. Len(t)
    BY <1>1 DEF TreeRun
  <2>2. PICK cx : cx = t[n + 1]
    OBVIOUS
  <2>3. PICK st : st = f[n]
    OBVIOUS
  <2>4. /\ cx \in CNOTs /\ st \in States /\ f[n + 1] = Fill(st, cx)
        /\ cx[1] \in Nodes(r, t, n)
        /\ Nodes(r, t, n + 1) = Nodes(r, t, n) \cup {cx[2]}
    <3>1. cx \in CNOTs
      BY <2>1, <2>2, <1>1, ElementOfSeq DEF TreeRun
    <3>2. QED
      BY <3>1, <2>1, <2>2, <2>3, <1>1, <1>2 DEF TreeRun
  <2>5. \A q \in Qubits : i \in st.mat[q] <=> q \in Nodes(r, t, n) \/ i \in base.mat[q]
    BY <1>4, <2>3
  <2>6. /\ cx[1] \in Qubits /\ cx[2] \in Qubits
        /\ Record(st, cx).mat[cx[2]] = Xor(st.mat[cx[2]], st.mat[cx[1]])
        /\ \A q \in Qubits \ {cx[2]} : Record(st, cx).mat[q] = st.mat[q]
    BY <2>4, RecordRows
  <2>7. /\ i \in f[n + 1].mat[cx[2]]
        /\ \A q \in Qubits \ {cx[2]} : f[n + 1].mat[q] = st.mat[q]
    <3>1. CASE i \in st.mat[cx[2]]
      BY <3>1, <2>4 DEF Fill
    <3>2. CASE i \notin st.mat[cx[2]]
      <4>1. f[n + 1] = Record(st, cx)
        BY <3>2, <2>4 DEF Fill
      <4>2. i \in st.mat[cx[1]]
        BY <2>4, <2>5, <2>6
      <4>3. QED
        BY <3>2, <4>1, <4>2, <2>6 DEF Xor
    <3>3. QED
      BY <3>1, <3>2
  <2>8. ASSUME NEW q \in Qubits
        PROVE  i \in f[n + 1].mat[q] <=> q \in Nodes(r, t, n + 1) \/ i \in base.mat[q]
    <3>1. CASE q = cx[2]
      BY <3>1, <2>4, <2>7
    <3>2. CASE q # cx[2]
      BY <3>2, <2>4, <2>5, <2>7
    <3>3. QED
      BY <3>1, <3>2
  <2>9. QED
    BY <2>1, <2>8
<1>5. QED
  <2> HIDE DEF S
  <2>1. \A n \in 0 .. Len(t) : n \in S
    BY <1>1, <1>3, <1>4, Induction DEF TreeRun
  <2>2. QED
    BY <2>1 DEF S

LEMMA ClearTreeColumn ==
  ASSUME i \in Qubits, NEW G \in SUBSET (Qubits \X Qubits), NEW r, NEW terminals, NEW t,
         IsTree(G, r, terminals, t),
         NEW base \in States,
         \A q \in Qubits : i \in base.mat[q] <=> q \in Nodes(r, t, Len(t)),
         NEW f, RecordRun(f, base, Reverse(t))
  PROVE  \A n \in 0 .. Len(t) : \A q \in Qubits :
           i \in f[n].mat[q] <=> q \in Nodes(r, t, Len(t) - n)
<1>1. TreeRun(G, r, t)
  BY TreeFacts
<1>2. PICK L : L = Len(t)
  OBVIOUS
<1>3. /\ Len(Reverse(t)) = L
      /\ \A n \in 1 .. L : Reverse(t)[n] = t[(L - n) + 1]
  BY <1>1, <1>2, ReverseFacts DEF TreeRun
<1>4. /\ f \in [0 .. L -> States] /\ f[0] = base
      /\ \A n \in 1 .. L : f[n] = Record(f[n - 1], Reverse(t)[n])
  BY <1>3 DEF RecordRun
<1> DEFINE S == {n \in 0 .. L : \A q \in Qubits :
                   i \in f[n].mat[q] <=> q \in Nodes(r, t, L - n)}
<1>5. 0 \in S
  BY <1>1, <1>2, <1>4 DEF TreeRun
<1>6. ASSUME NEW n \in 0 .. L - 1, n \in S
      PROVE  n + 1 \in S
  <2>1. /\ n + 1 \in 1 .. L /\ (n + 1) - 1 = n /\ n + 1 \in 0 .. L /\ n \in 0 .. L
        /\ L - n \in 1 .. L /\ (L - (n + 1)) + 1 = L - n /\ (L - n) - 1 = L - (n + 1)
    BY <1>1, <1>2 DEF TreeRun
  <2>2. PICK cx : cx = t[L - n]
    OBVIOUS
  <2>3. PICK st : st = f[n]
    OBVIOUS
  <2>4. cx \in CNOTs /\ st \in States /\ f[n + 1] = Record(st, cx)
    <3>1. cx \in CNOTs
      BY <2>1, <2>2, <1>1, <1>2, ElementOfSeq DEF TreeRun
    <3>2. Reverse(t)[n + 1] = t[(L - (n + 1)) + 1]
      BY <2>1, <1>3
    <3>3. QED
      BY <3>1, <3>2, <2>1, <2>2, <2>3, <1>4
  <2>5. /\ cx[1] \in Nodes(r, t, L - (n + 1)) /\ cx[2] \notin Nodes(r, t, L - (n + 1))
        /\ Nodes(r, t, L - n) = Nodes(r, t, L - (n + 1)) \cup {cx[2]}
    BY <2>1, <2>2, <1>1, <1>2 DEF TreeRun
  <2>6. \A q \in Qubits : i \in st.mat[q] <=> q \in Nodes(r, t, L - n)
    BY <1>6, <2>3
  <2>7. /\ cx[1] \in Qubits /\ cx[2] \in Qubits
        /\ f[n + 1].mat[cx[2]] = Xor(st.mat[cx[2]], st.mat[cx[1]])
        /\ \A q \in Qubits \ {cx[2]} : f[n + 1].mat[q] = st.mat[q]
    BY <2>4, RecordRows
  <2>8. i \notin f[n + 1].mat[cx[2]]
    <3>1. i \in st.mat[cx[1]] /\ i \in st.mat[cx[2]]
      BY <2>5, <2>6, <2>7
    <3>2. QED
      BY <3>1, <2>7 DEF Xor
  <2>9. ASSUME NEW q \in Qubits
        PROVE  i \in f[n + 1].mat[q] <=> q \in Nodes(r, t, L - (n + 1))
    <3>1. CASE q = cx[2]
      BY <3>1, <2>5, <2>8
    <3>2. CASE q # cx[2]
      BY <3>2, <2>5, <2>6, <2>7
    <3>3. QED
      BY <3>1, <3>2
  <2>10. QED
    BY <2>1, <2>9
<1>7. QED
  <2> HIDE DEF S
  <2>1. L \in Nat
    BY <1>1, <1>2 DEF TreeRun
  <2>2. \A n \in 0 .. L : n \in S
    BY <2>1, <1>5, <1>6, Induction
  <2>3. QED
    BY <2>2, <1>2 DEF S

(* Row i added to the rows of T that have a 1 in column i *)
Cleared(m, T, q) == IF q # i /\ i \in m[q] /\ q \in T THEN Xor(m[q], m[i]) ELSE m[q]

LEMMA ClearColumn ==
  ASSUME i \in Qubits, NEW list \in Seq(Qubits \X Qubits),
         \A n \in 1 .. Len(list) : list[n][1] = i,
         NEW base \in States, i \in base.mat[i],
         NEW f, ClearRun(f, base, list)
  PROVE  \A q \in Qubits :
           f[Len(list)].mat[q] = Cleared(base.mat, {list[n][2] : n \in 1 .. Len(list)}, q)
<1> DEFINE Reached(n) == {list[k][2] : k \in 1 .. n}
           S == {n \in 0 .. Len(list) : \A q \in Qubits :
                   f[n].mat[q] = Cleared(base.mat, Reached(n), q)}
<1>1. Len(list) \in Nat /\ \A n \in 1 .. Len(list) : list[n] \in Qubits \X Qubits
  BY ElementOfSeq, LenProperties
<1>2. /\ f \in [0 .. Len(list) -> States] /\ f[0] = base
      /\ \A n \in 1 .. Len(list) : f[n] = Clear(f[n - 1], list[n])
  BY DEF ClearRun
<1>3. 0 \in S
  <2>1. Reached(0) = {}
    OBVIOUS
  <2>2. 0 \in 0 .. Len(list)
    BY <1>1
  <2> HIDE DEF Reached
  <2>3. QED
    BY <2>1, <2>2, <1>2 DEF Cleared
<1>4. ASSUME NEW n \in 0 .. Len(list) - 1, n \in S
      PROVE  n + 1 \in S
  <2>1. /\ n + 1 \in 1 .. Len(list) /\ (n + 1) - 1 = n /\ n + 1 \in 0 .. Len(list)
        /\ n \in 0 .. Len(list)
    BY <1>1
  <2>2. PICK cx : cx = list[n + 1]
    OBVIOUS
  <2>3. PICK st : st = f[n]
    OBVIOUS
  <2>4. /\ cx \in Qubits \X Qubits /\ cx[1] = i
        /\ st \in States /\ f[n + 1] = Clear(st, cx)
    BY <2>1, <2>2, <2>3, <1>1, <1>2
  <2>5. Reached(n + 1) = Reached(n) \cup {cx[2]}
    <3>1. 1 .. n + 1 = (1 .. n) \cup {n + 1}
      BY <2>1, <1>1
    <3>2. QED
      BY <3>1, <2>2
  <2>6. \A q \in Qubits : st.mat[q] = Cleared(base.mat, Reached(n), q)
    BY <1>4, <2>3
  <2> HIDE DEF Reached
  <2>7. \A q \in Qubits : f[n + 1].mat[q] = Cleared(base.mat, Reached(n + 1), q)
    <3>1. CASE cx[2] = i
      <4>1. f[n + 1] = st
        BY <3>1, <2>4 DEF Clear
      <4>2. QED
        BY <4>1, <3>1, <2>5, <2>6 DEF Cleared
    <3>2. CASE cx[2] # i /\ i \notin st.mat[cx[2]]
      <4>1. f[n + 1] = st
        BY <3>2, <2>4 DEF Clear
      <4>2. cx[2] \in Qubits
        BY <2>4
      <4>3. Cleared(base.mat, Reached(n + 1), cx[2]) = st.mat[cx[2]]
        BY <3>2, <4>2, <2>5, <2>6 DEF Cleared
      <4>4. \A q \in Qubits \ {cx[2]} : Cleared(base.mat, Reached(n + 1), q) = st.mat[q]
        BY <2>5, <2>6 DEF Cleared
      <4>5. QED
        BY <4>1, <4>3, <4>4
    <3>3. CASE cx[2] # i /\ i \in st.mat[cx[2]]
      <4>1. cx \in CNOTs
        BY <3>3, <2>4 DEF CNOTs
      <4>2. f[n + 1] = Record(st, cx)
        BY <3>3, <2>4 DEF Clear
      <4>3. /\ cx[2] \in Qubits /\ f[n + 1].mat[cx[2]] = Xor(st.mat[cx[2]], st.mat[i])
            /\ \A q \in Qubits \ {cx[2]} : f[n + 1].mat[q] = st.mat[q]
        <5>1. /\ cx[2] \in Qubits /\ f[n + 1].mat[cx[2]] = Xor(st.mat[cx[2]], st.mat[cx[1]])
              /\ \A q \in Qubits \ {cx[2]} : f[n + 1].mat[q] = st.mat[q]
          <6>1. st \in States
            BY <2>4
          <6>2. QED
            BY <6>1, <4>1, <4>2, RecordRows
        <5>2. QED
          BY <5>1, <2>4
      <4>4. st.mat[i] = base.mat[i]
        BY <2>6 DEF Cleared
      <4>5. st.mat[cx[2]] = base.mat[cx[2]]
        <5>1. i \notin Xor(base.mat[cx[2]], base.mat[i]) \/ i \notin base.mat[cx[2]]
          BY DEF Xor
        <5>2. QED
          BY <5>1, <3>3, <4>3, <2>6 DEF Cleared
      <4>6. Cleared(base.mat, Reached(n + 1), cx[2]) = Xor(base.mat[cx[2]], base.mat[i])
        BY <4>5, <3>3, <2>5 DEF Cleared
      <4>7. \A q \in Qubits \ {cx[2]} : Cleared(base.mat, Reached(n + 1), q) = st.mat[q]
        BY <2>5, <2>6 DEF Cleared
      <4>8. QED
        BY <4>3, <4>4, <4>5, <4>6, <4>7
    <3>4. QED
      BY <3>1, <3>2, <3>3
  <2>8. QED
    BY <2>1, <2>7
<1>5. Len(list) \in S
  <2> HIDE DEF S
  <2>1. \A n \in 0 .. Len(list) : n \in S
    BY <1>1, <1>3, <1>4, Induction
  <2>2. QED
    BY <2>1, <1>1
<1>6. QED
  BY <1>5

(* The three lists of gauss_jordan and gaussian_elim. *)
RowList(list, T) ==
  /\ list \in Seq(Qubits \X Qubits)
  /\ \A n \in 1 .. Len(list) : list[n][1] = i
  /\ {list[n][2] : n \in 1 .. Len(list)} = T

LEMMA RowLists ==
  ASSUME i \in Qubits
  PROVE  /\ RowList(AllRows, Qubits)
         /\ RowList(RowsBelow, {q \in Qubits : i < q})
         /\ RowList(RowsAbove, {q \in Qubits : q < i})
<1>1. NQ \in Nat /\ i \in Nat /\ i < NQ /\ NQ - 1 - i \in Nat
  BY SizeAssumption DEF Qubits
<1>2. RowList(AllRows, Qubits)
  <2>1. \A n \in 1 .. NQ : n - 1 \in Qubits
    BY <1>1 DEF Qubits
  <2>2. /\ AllRows \in Seq(Qubits \X Qubits) /\ Len(AllRows) = NQ
        /\ \A n \in 1 .. NQ : AllRows[n] = <<i, n - 1>>
    BY <1>1, <2>1 DEF AllRows
  <2>3. ASSUME NEW q \in Qubits
        PROVE  \E n \in 1 .. NQ : AllRows[n][2] = q
    <3>1. q + 1 \in 1 .. NQ /\ (q + 1) - 1 = q
      BY <1>1 DEF Qubits
    <3>2. QED
      BY <3>1, <2>2
  <2>4. QED
    BY <2>1, <2>2, <2>3 DEF RowList
<1>3. RowList(RowsBelow, {q \in Qubits : i < q})
  <2>1. \A n \in 1 .. NQ - 1 - i : i + n \in Qubits /\ i < i + n
    BY <1>1 DEF Qubits
  <2>2. /\ RowsBelow \in Seq(Qubits \X Qubits) /\ Len(RowsBelow) = NQ - 1 - i
        /\ \A n \in 1 .. NQ - 1 - i : RowsBelow[n] = <<i, i + n>>
    BY <1>1, <2>1 DEF RowsBelow
  <2>3. ASSUME NEW q \in Qubits, i < q
        PROVE  \E n \in 1 .. NQ - 1 - i : RowsBelow[n][2] = q
    <3>1. q - i \in 1 .. NQ - 1 - i /\ i + (q - i) = q
      BY <1>1, <2>3 DEF Qubits
    <3>2. QED
      BY <3>1, <2>2
  <2>4. QED
    BY <2>1, <2>2, <2>3 DEF RowList
<1>4. RowList(RowsAbove, {q \in Qubits : q < i})
  <2>1. \A n \in 1 .. i : i - n \in Qubits /\ i - n < i
    BY <1>1 DEF Qubits
  <2>2. /\ RowsAbove \in Seq(Qubits \X Qubits) /\ Len(RowsAbove) = i
        /\ \A n \in 1 .. i : RowsAbove[n] = <<i, i - n>>
    BY <1>1, <2>1 DEF RowsAbove
  <2>3. ASSUME NEW q \in Qubits, q < i
        PROVE  \E n \in 1 .. i : RowsAbove[n][2] = q
    <3>1. i - q \in 1 .. i /\ i - (i - q) = q
      BY <1>1, <2>3 DEF Qubits
    <3>2. QED
      BY <3>1, <2>2
  <2>4. QED
    BY <2>1, <2>2, <2>3 DEF RowList
<1>5. QED
  BY <1>2, <1>3, <1>4

Swapped(m, p) == [m EXCEPT ![i] = m[p], ![p] = m[i]]

LEMMA SwapRowsFacts ==
  ASSUME i \in Qubits, NEW m \in Matrices, NEW p \in Qubits
  PROVE  /\ SwapRows(p) \in Seq(CNOTs)
         /\ AddRows(m, SwapRows(p)) = Swapped(m, p)
         /\ Swapped(m, p) \in Matrices
         /\ Swapped(m, p)[i] = m[p] /\ Swapped(m, p)[p] = m[i]
         /\ \A q \in Qubits \ {i, p} : Swapped(m, p)[q] = m[q]
<1>1. /\ Swapped(m, p) \in Matrices
      /\ Swapped(m, p)[i] = m[p] /\ Swapped(m, p)[p] = m[i]
      /\ \A q \in Qubits \ {i, p} : Swapped(m, p)[q] = m[q]
  BY DEF Swapped, Matrices
<1>2. CASE p = i
  <2>1. SwapRows(p) = <<>> /\ <<>> \in Seq(CNOTs)
    BY <1>2 DEF SwapRows
  <2>2. AddRows(m, <<>>) = m
    BY AddRowsNone
  <2>3. Swapped(m, p) = m
    BY <1>1, <1>2 DEF Matrices
  <2>4. QED
    BY <1>1, <2>1, <2>2, <2>3
<1>3. CASE p # i
  <2>1. PICK a \in CNOTs : a = <<p, i>>
    BY <1>3 DEF CNOTs
  <2>2. PICK b \in CNOTs : b = <<i, p>>
    BY <1>3 DEF CNOTs
  <2>3. SwapRows(p) = <<a, b, a>> /\ <<a, b, a>> \in Seq(CNOTs) /\ Len(<<a, b, a>>) = 3
    BY <1>3, <2>1, <2>2 DEF SwapRows
  <2>4. PICK m1 : m1 = AddRow(m, a)
    OBVIOUS
  <2>5. PICK m2 : m2 = AddRow(m1, b)
    OBVIOUS
  <2>6. PICK m3 : m3 = AddRow(m2, a)
    OBVIOUS
  <2>7. m1 \in Matrices /\ m1[i] = Xor(m[i], m[p]) /\ \A q \in Qubits \ {i} : m1[q] = m[q]
    BY <2>1, <2>4, AddRowFacts
  <2>8. m2 \in Matrices /\ m2[p] = Xor(m1[p], m1[i]) /\ \A q \in Qubits \ {p} : m2[q] = m1[q]
    BY <2>2, <2>5, <2>7, AddRowFacts
  <2>9. m3 \in Matrices /\ m3[i] = Xor(m2[i], m2[p]) /\ \A q \in Qubits \ {i} : m3[q] = m2[q]
    BY <2>1, <2>6, <2>8, AddRowFacts
  <2>10. m3[p] = m[i]
    <3>1. m3[p] = Xor(m[p], Xor(m[i], m[p]))
      BY <1>3, <2>7, <2>8, <2>9
    <3>2. QED
      BY <3>1 DEF Xor
  <2>11. m3[i] = m[p]
    <3>1. m3[i] = Xor(Xor(m[i], m[p]), m[i])
      BY <1>3, <2>7, <2>8, <2>9, <2>10
    <3>2. QED
      BY <3>1 DEF Xor
  <2>12. \A q \in Qubits : m3[q] = Swapped(m, p)[q]
    <3>1. \A q \in Qubits \ {i, p} : m3[q] = m[q]
      BY <2>7, <2>8, <2>9
    <3>2. QED
      BY <3>1, <2>10, <2>11, <1>1
  <2>13. m3 = Swapped(m, p)
    BY <2>12, <2>9, <1>1 DEF Matrices
  <2> DEFINE h == [n \in 0 .. 3 |-> IF n = 0 THEN m ELSE IF n = 1 THEN m1
                                    ELSE IF n = 2 THEN m2 ELSE m3]
             s == <<a, b, a>>
  <2>14. Passes(h, m, s)
    <3>1. h[0] = m /\ h[1] = m1 /\ h[2] = m2 /\ h[3] = m3 /\ h \in [0 .. 3 -> Matrices]
      BY <2>7, <2>8, <2>9
    <3>2. s[1] = a /\ s[2] = b /\ s[3] = a /\ Len(s) = 3
      OBVIOUS
    <3> HIDE DEF h, s
    <3>3. \A n \in 1 .. 3 : n = 1 \/ n = 2 \/ n = 3
      OBVIOUS
    <3>4. /\ h[1] = AddRow(h[1 - 1], s[1]) /\ h[2] = AddRow(h[2 - 1], s[2])
          /\ h[3] = AddRow(h[3 - 1], s[3])
      BY <3>1, <3>2, <2>4, <2>5, <2>6
    <3>5. QED
      BY <3>1, <3>2, <3>3, <3>4 DEF Passes
  <2>15. AddRows(m, s) = h[3]
    <3>1. s \in Seq(CNOTs) /\ Len(s) = 3
      BY <2>3
    <3> HIDE DEF h, s
    <3>2. QED
      BY <2>14, <3>1, AddRowsUnique
  <2>16. QED
    BY <1>1, <2>3, <2>13, <2>15
<1>4. QED
  BY <1>2, <1>3

-----------------------------------------------------------------------------
(* The steps of gauss_jordan and gaussian_elim.                            *)

LEMMA QubitFacts ==
  /\ NQ \in Nat \ {0} /\ 0 \in Qubits
  /\ \A c \in Qubits : c \in Nat /\ c < NQ /\ Low(c) = {x \in Qubits : x < c}
  /\ \A c \in Qubits : c + 1 < NQ => c + 1 \in Qubits
  /\ \A c \in Qubits : c > 0 => c - 1 \in Qubits
  /\ \A c \in Qubits : Low(c + 1) = Low(c) \cup {c}
  /\ Low(0) = {} /\ Low(NQ) = Qubits
<1>1. NQ \in Nat \ {0}
  BY SizeAssumption
<1>2. QED
  BY <1>1 DEF Qubits, Low

LEMMA CandidateFacts ==
  ASSUME i \in Qubits, NEW p \in Candidates
  PROVE  p \in Qubits /\ ~(p < i) /\ i \in mat[p]
BY QubitFacts DEF Candidates, Qubits

LEMMA IdentityFacts ==
  ASSUME NEW m \in Matrices, DoneLeft(NQ, m)
  PROVE  m = Identity /\ Identity \in Matrices
<1>1. Low(NQ) = Qubits
  BY QubitFacts
<1>2. \A q \in Qubits : m[q] = {q}
  <2>1. ASSUME NEW q \in Qubits
        PROVE  m[q] = {q}
    <3>1. m[q] \cap Qubits = {q} \cap Qubits /\ m[q] \subseteq Qubits
      BY <1>1 DEF DoneLeft, Matrices
    <3>2. QED
      BY <3>1
  <2>2. QED
    BY <2>1
<1>3. QED
  BY <1>2 DEF Identity, Matrices

LEMMA ColumnDone ==
  ASSUME NEW c \in Qubits, NEW m \in Matrices, DoneLeft(c, m),
         \A q \in Qubits : c \in m[q] <=> q = c
  PROVE  DoneLeft(c + 1, m)
<1>1. Low(c + 1) = Low(c) \cup {c}
  BY QubitFacts
<1>2. ASSUME NEW q \in Qubits
      PROVE  m[q] \cap Low(c + 1) = {q} \cap Low(c + 1)
  <2>1. m[q] \cap Low(c) = {q} \cap Low(c)
    BY DEF DoneLeft
  <2>2. m[q] \cap {c} = {q} \cap {c}
    OBVIOUS
  <2>3. QED
    BY <2>1, <2>2, <1>1
<1>3. QED
  BY <1>2 DEF DoneLeft

LEMMA InitIInv == Init => IInv
<1> SUFFICES ASSUME Init PROVE IInv
  OBVIOUS
<1>1. operator \in Matrices /\ mat = operator /\ i = 0 /\ method \in Methods /\ graph \in Graphs
  BY InputAssumption DEF Init, Matrices
<1>2. <<>> \in Seq(CNOTs) /\ <<>> \o <<>> = <<>> /\ Len(<<>>) = 0
  OBVIOUS
<1>3. Low(0) = {} /\ 0 \in Qubits
  BY QubitFacts
<1>4. TypeInv
  BY <1>1, <1>2, <1>3 DEF TypeInv, Init
<1>5. PhaseInv
  BY DEF PhaseInv, Init
<1>6. AppliedInv
  <2>1. AddRows(operator, <<>>) = mat
    BY <1>1, AddRowsNone
  <2>2. QED
    BY <2>1, <1>2 DEF AppliedInv, Init
<1>7. CouplingInv
  BY <1>2 DEF CouplingInv, Init, Within
<1>8. DoneLeft(0, mat) /\ Lower(0, mat)
  BY <1>3 DEF DoneLeft, Lower
<1>9. EliminationInv
  BY <1>1, <1>8 DEF EliminationInv, Init
<1>10. PathInv
  BY <1>1, <1>8 DEF PathInv, Init
<1>11. TreeInv
  BY DEF TreeInv, Init
<1>12. QED
  BY <1>4, <1>5, <1>6, <1>7, <1>9, <1>10, <1>11 DEF IInv

(* What is appended to ret has been done to the rows. *)
LEMMA AppliedThen ==
  ASSUME NEW m \in Matrices, NEW r \in Seq(CNOTs), NEW s \in Seq(CNOTs),
         NEW k \in Matrices, NEW l, AddRows(m, r) = k, AddRows(k, s) = l
  PROVE  r \o s \in Seq(CNOTs) /\ AddRows(m, r \o s) = l
<1>1. r \o s \in Seq(CNOTs)
  BY ConcatProperties
<1>2. AddRows(m, r \o s) = AddRows(AddRows(m, r), s)
  BY AddRowsConcat
<1>3. QED
  BY <1>1, <1>2

(* Clearing rows of column i, with a run of Clear. *)
ClearedBy(st, base, T) ==
  /\ st.mat \in Matrices /\ st.cnots \in Seq(CNOTs)
  /\ AddRows(base, st.cnots) = st.mat
  /\ \A q \in Qubits : st.mat[q] = Cleared(base, T, q)

LEMMA ClearRows ==
  ASSUME i \in Qubits, NEW base \in Matrices, i \in base[i],
         NEW list, NEW T, RowList(list, T)
  PROVE  ClearedBy(InTurn(Clear, Start(base, {}, <<>>), list), base, T)
<1>1. PICK start : start = Start(base, {}, <<>>)
  OBVIOUS
<1>2. <<>> \in Seq(CNOTs) /\ {} \in SUBSET Qubits
  OBVIOUS
<1>3. start \in States /\ start.mat = base /\ start.cnots = <<>>
  BY <1>1, <1>2 DEF Start, States
<1>4. list \in Seq(Qubits \X Qubits)
  BY DEF RowList
<1>5. PICK f : ClearRun(f, start, list) /\ InTurn(Clear, start, list) = f[Len(list)]
  BY <1>3, <1>4, ClearRuns
<1>6. Records(f, list)
  BY <1>4, <1>5, LoopsRecord
<1>7. Len(list) \in Nat /\ Len(list) \in 0 .. Len(list)
  BY <1>4, LenProperties
<1>8. f[0] = start /\ f[Len(list)] \in States
  BY <1>5, <1>7 DEF ClearRun
<1>9. AddRows(base, f[0].cnots) = f[0].mat
  BY <1>3, <1>8, AddRowsNone
<1>10. AddRows(base, f[Len(list)].cnots) = f[Len(list)].mat
  BY <1>6, <1>7, <1>9, RecordsApplied
<1>11. \A q \in Qubits :
         f[Len(list)].mat[q] = Cleared(start.mat, {list[n][2] : n \in 1 .. Len(list)}, q)
  <2>1. i \in start.mat[i] /\ \A n \in 1 .. Len(list) : list[n][1] = i
    BY <1>3 DEF RowList
  <2>2. QED
    BY <2>1, <1>3, <1>4, <1>5, ClearColumn
<1>12. {list[n][2] : n \in 1 .. Len(list)} = T
  BY DEF RowList
<1>13. \A q \in Qubits : f[Len(list)].mat[q] = Cleared(base, T, q)
  BY <1>3, <1>11, <1>12
<1>14. f[Len(list)].mat \in Matrices /\ f[Len(list)].cnots \in Seq(CNOTs)
  BY <1>8 DEF States
<1>15. InTurn(Clear, Start(base, {}, <<>>), list) = f[Len(list)]
  BY <1>1, <1>5
<1>16. QED
  BY <1>10, <1>13, <1>14, <1>15 DEF ClearedBy

(* The rows after a step of gauss_jordan, ... *)
LEMMA JordanColumn ==
  ASSUME i \in Qubits, NEW m \in Matrices, DoneLeft(i, m),
         NEW p \in Qubits, ~(p < i), i \in m[p],
         NEW st, ClearedBy(st, Swapped(m, p), Qubits)
  PROVE  DoneLeft(i + 1, st.mat)
<1>1. PICK sw : sw = Swapped(m, p)
  OBVIOUS
<1>2. /\ sw \in Matrices /\ sw[i] = m[p] /\ sw[p] = m[i]
      /\ \A q \in Qubits \ {i, p} : sw[q] = m[q]
  BY <1>1, SwapRowsFacts
<1>3. st.mat \in Matrices /\ \A q \in Qubits : st.mat[q] = Cleared(sw, Qubits, q)
  BY <1>1 DEF ClearedBy
<1>4. m[p] \cap Low(i) = {} /\ m[i] \cap Low(i) = {} /\ {p} \cap Low(i) = {} /\ {i} \cap Low(i) = {}
  <2>1. {p} \cap Low(i) = {}
    BY NothingLow
  <2>2. {i} \cap Low(i) = {}
    BY QubitFacts, NothingLow
  <2>3. QED
    BY <2>1, <2>2 DEF DoneLeft
<1>5. \A q \in Qubits : sw[q] \cap Low(i) = {q} \cap Low(i)
  BY <1>2, <1>4 DEF DoneLeft
<1>6. ASSUME NEW q \in Qubits
      PROVE  st.mat[q] \cap Low(i) = {q} \cap Low(i)
  <2>1. Xor(sw[q], sw[i]) \cap Low(i) = sw[q] \cap Low(i)
    <3>1. sw[i] \cap Low(i) = {}
      BY <1>2, <1>4
    <3>2. QED
      BY <3>1 DEF Xor
  <2>2. QED
    BY <2>1, <1>3, <1>5 DEF Cleared
<1>7. ASSUME NEW q \in Qubits
      PROVE  i \in st.mat[q] <=> q = i
  <2>1. i \in sw[i]
    BY <1>2
  <2>2. i \in sw[q] => i \notin Xor(sw[q], sw[i])
    BY <2>1 DEF Xor
  <2>3. QED
    BY <2>1, <2>2, <1>3 DEF Cleared
<1>8. DoneLeft(i, st.mat)
  BY <1>6 DEF DoneLeft
<1>9. QED
  BY <1>3, <1>7, <1>8, ColumnDone

(* ... of the first loop of gaussian_elim, ... *)
LEMMA ElimColumn ==
  ASSUME i \in Qubits, NEW m \in Matrices, Lower(i, m),
         NEW p \in Qubits, ~(p < i), i \in m[p],
         NEW st, ClearedBy(st, Swapped(m, p), {q \in Qubits : i < q})
  PROVE  Lower(i + 1, st.mat)
<1>1. PICK sw : sw = Swapped(m, p)
  OBVIOUS
<1>2. /\ sw \in Matrices /\ sw[i] = m[p] /\ sw[p] = m[i]
      /\ \A q \in Qubits \ {i, p} : sw[q] = m[q]
  BY <1>1, SwapRowsFacts
<1>3. \A q \in Qubits : st.mat[q] = Cleared(sw, {r \in Qubits : i < r}, q)
  BY <1>1 DEF ClearedBy
<1>4. Low(i + 1) = Low(i) \cup {i} /\ Low(i) = {x \in Qubits : x < i} /\ Qubits \subseteq Nat
  BY QubitFacts
<1>5. ASSUME NEW x \in Low(i), NEW q \in Qubits, ~(q < x)
      PROVE  x \in st.mat[q] <=> q = x
  <2>1. x \in Nat /\ x < i /\ i \in Nat /\ p \in Nat /\ q \in Nat
    BY <1>4
  <2>2. ~(i < x) /\ ~(p < x) /\ i # x /\ p # x
    BY <2>1
  <2>3. x \notin m[i] /\ x \notin m[p]
    BY <2>2 DEF Lower
  <2>4. x \in sw[q] <=> q = x
    <3>1. CASE q \in {i, p}
      BY <3>1, <2>2, <2>3, <1>2
    <3>2. CASE q \notin {i, p}
      BY <3>2, <1>2, <1>5 DEF Lower
    <3>3. QED
      BY <3>1, <3>2
  <2>5. x \in Xor(sw[q], sw[i]) <=> x \in sw[q]
    BY <2>3, <1>2 DEF Xor
  <2>6. QED
    BY <2>4, <2>5, <1>3 DEF Cleared
<1>6. ASSUME NEW q \in Qubits, ~(q < i)
      PROVE  i \in st.mat[q] <=> q = i
  <2>1. i \in sw[i]
    BY <1>2
  <2>2. i \in sw[q] => i \notin Xor(sw[q], sw[i])
    BY <2>1 DEF Xor
  <2>3. q = i \/ i < q
    BY <1>4, <1>6
  <2>4. QED
    BY <2>1, <2>2, <2>3, <1>3 DEF Cleared
<1>7. QED
  BY <1>4, <1>5, <1>6 DEF Lower

(* ... and of its second one. *)
LEMMA BackColumnRows ==
  ASSUME i \in Qubits, NEW m \in Matrices, Lower(NQ, m),
         \A x \in i + 1 .. NQ - 1 : \A q \in Qubits : x \in m[q] <=> q = x,
         NEW st, ClearedBy(st, m, {q \in Qubits : q < i})
  PROVE  /\ Lower(NQ, st.mat)
         /\ \A x \in i .. NQ - 1 : \A q \in Qubits : x \in st.mat[q] <=> q = x
<1>1. /\ Low(NQ) = Qubits /\ NQ \in Nat /\ i \in Nat /\ i < NQ /\ Qubits \subseteq Nat
      /\ Qubits = 0 .. NQ - 1
  BY QubitFacts DEF Qubits
<1>2. \A q \in Qubits : st.mat[q] = Cleared(m, {r \in Qubits : r < i}, q)
  BY DEF ClearedBy
<1>3. ASSUME NEW x \in Qubits
      PROVE  x \in m[i] <=> x = i
  <2>1. CASE i < x
    BY <2>1, <1>1
  <2>2. CASE ~(i < x)
    BY <2>2, <1>1 DEF Lower
  <2>3. QED
    BY <2>1, <2>2
<1>4. \A x \in Qubits : \A q \in Qubits : x # i => (x \in Xor(m[q], m[i]) <=> x \in m[q])
  BY <1>3 DEF Xor
<1>5. \A q \in Qubits : i \in m[q] => i \notin Xor(m[q], m[i])
  BY <1>3 DEF Xor
<1>6. \A x \in Qubits : \A q \in Qubits : x # i => (x \in st.mat[q] <=> x \in m[q])
  BY <1>2, <1>4 DEF Cleared
<1>7. ASSUME NEW q \in Qubits
      PROVE  i \in st.mat[q] <=> q = i
  <2>1. CASE q < i
    BY <2>1, <1>1, <1>2, <1>3, <1>5 DEF Cleared
  <2>2. CASE ~(q < i)
    BY <2>2, <1>1, <1>2 DEF Cleared, Lower
  <2>3. QED
    BY <2>1, <2>2
<1>8. ASSUME NEW x \in Qubits, NEW q \in Qubits, ~(q < x)
      PROVE  x \in st.mat[q] <=> q = x
  <2>1. x \in m[q] <=> q = x
    BY <1>1, <1>8 DEF Lower
  <2>2. QED
    BY <2>1, <1>6, <1>7
<1>9. Lower(NQ, st.mat)
  BY <1>1, <1>8 DEF Lower
<1>10. ASSUME NEW x \in i .. NQ - 1, NEW q \in Qubits
       PROVE  x \in st.mat[q] <=> q = x
  <2>1. x \in Qubits /\ (x = i \/ x \in i + 1 .. NQ - 1)
    BY <1>1
  <2>2. CASE x = i
    BY <2>2, <1>7
  <2>3. CASE x # i
    <3>1. x \in m[q] <=> q = x
      BY <2>1, <2>3
    <3>2. QED
      BY <3>1, <2>1, <2>3, <1>6
  <2>4. QED
    BY <2>2, <2>3
<1>11. QED
  BY <1>9, <1>10

LEMMA TypeFacts ==
  ASSUME TypeInv
  PROVE  /\ i \in Qubits /\ mat \in Matrices /\ operator \in Matrices /\ pivot \in Qubits
         /\ ret \in Seq(CNOTs) /\ swap \in Seq(CNOTs) /\ compute \in Seq(CNOTs)
         /\ above_diagonal_dep \in SUBSET Qubits
         /\ graph \in Graphs /\ graph \in SUBSET (Qubits \X Qubits)
         /\ method \in {"jordan", "elim", "steiner"}
BY MethodAssumption, DeviceAssumption DEF TypeInv

LEMMA RetApplied ==
  ASSUME TypeInv, PhaseInv, AppliedInv, phase \notin {"cross", "uncross", "tree", "untree"},
         phase # "returned"
  PROVE  AddRows(operator, ret) = mat
<1>1. swap = <<>> /\ compute = <<>>
  BY DEF PhaseInv
<1>2. ret \in Seq(CNOTs)
  BY TypeFacts
<1>3. ret \o swap \o compute = ret
  BY <1>1, <1>2
<1>4. QED
  BY <1>3 DEF AppliedInv

LEMMA ColumnStep == IInv /\ Column => IInv'
<1> SUFFICES ASSUME IInv, Column PROVE IInv'
  OBVIOUS
<1>1. /\ TypeInv /\ PhaseInv /\ AppliedInv /\ CouplingInv
      /\ EliminationInv /\ PathInv /\ TreeInv
  BY DEF IInv
<1>2. /\ i \in Qubits /\ mat \in Matrices /\ operator \in Matrices /\ ret \in Seq(CNOTs)
      /\ method \in {"jordan", "elim", "steiner"}
  BY <1>1, TypeFacts
<1>3. phase = "column" /\ method # "steiner"
  BY <1>1 DEF Column, PhaseInv
<1>4. UNCHANGED <<method, graph, operator, pivot, path, s_tree, swap, compute,
                  above_diagonal_dep, crossed_diag>>
  BY DEF Column, input, scratch
<1>5. swap = <<>> /\ compute = <<>> /\ AddRows(operator, ret) = mat
  BY <1>1, <1>3, RetApplied DEF PhaseInv
<1>6. PICK p \in Candidates :
        LET st == InTurn(Clear, Start(Swapped(mat, p), {}, <<>>),
                         IF method = "jordan" THEN AllRows ELSE RowsBelow)
        IN  mat' = st.mat /\ ret' = ret \o SwapRows(p) \o st.cnots
  BY DEF Column, Swapped
<1>7. PICK list : list = IF method = "jordan" THEN AllRows ELSE RowsBelow
  OBVIOUS
<1>8. PICK T : T = IF method = "jordan" THEN Qubits ELSE {q \in Qubits : i < q}
  OBVIOUS
<1>9. RowList(list, T)
  BY <1>2, <1>7, <1>8, RowLists
<1>10. PICK st : st = InTurn(Clear, Start(Swapped(mat, p), {}, <<>>), list)
  OBVIOUS
<1>11. mat' = st.mat /\ ret' = ret \o SwapRows(p) \o st.cnots
  BY <1>6, <1>7, <1>10
<1>12. p \in Qubits /\ ~(p < i) /\ i \in mat[p]
  BY <1>2, CandidateFacts
<1>13. PICK sw : sw = Swapped(mat, p)
  OBVIOUS
<1>14. /\ SwapRows(p) \in Seq(CNOTs) /\ AddRows(mat, SwapRows(p)) = sw
       /\ sw \in Matrices /\ sw[i] = mat[p]
  BY <1>2, <1>12, <1>13, SwapRowsFacts
<1>15. ClearedBy(st, sw, T)
  <2>1. i \in sw[i]
    BY <1>12, <1>14
  <2>2. ClearedBy(InTurn(Clear, Start(sw, {}, <<>>), list), sw, T)
    BY <2>1, <1>2, <1>9, <1>14, ClearRows
  <2>3. QED
    BY <2>2, <1>10, <1>13
<1>16. mat' \in Matrices /\ st.cnots \in Seq(CNOTs) /\ AddRows(sw, st.cnots) = mat'
  BY <1>11, <1>15 DEF ClearedBy
<1>17. ret \o SwapRows(p) \in Seq(CNOTs) /\ AddRows(operator, ret \o SwapRows(p)) = sw
  BY <1>2, <1>5, <1>14, AppliedThen
<1>18. ret' \in Seq(CNOTs) /\ AddRows(operator, ret') = mat'
  <2>1. PICK r : r = ret \o SwapRows(p)
    OBVIOUS
  <2>2. r \o st.cnots \in Seq(CNOTs) /\ AddRows(operator, r \o st.cnots) = mat'
    <3>1. r \in Seq(CNOTs) /\ AddRows(operator, r) = sw /\ operator \in Matrices
      BY <2>1, <1>2, <1>17
    <3>2. sw \in Matrices /\ st.cnots \in Seq(CNOTs)
      BY <1>14, <1>16
    <3>3. PICK after : after = mat'
      OBVIOUS
    <3>4. AddRows(sw, st.cnots) = after
      BY <3>3, <1>16
    <3>5. r \o st.cnots \in Seq(CNOTs) /\ AddRows(operator, r \o st.cnots) = after
      BY <3>1, <3>2, <3>4, AppliedThen
    <3>6. QED
      BY <3>3, <3>5
  <2>3. QED
    BY <2>1, <2>2, <1>11
<1>19. \/ i + 1 < NQ /\ i' = i + 1 /\ phase' = "column"
       \/ ~(i + 1 < NQ) /\ method = "elim" /\ phase' = "back" /\ i' = i
       \/ ~(i + 1 < NQ) /\ method # "elim" /\ phase' = "done" /\ i' = i
  BY <1>3 DEF Column, Finish
<1>20. i' \in Qubits /\ (~(i + 1 < NQ) => i + 1 = NQ)
  BY <1>2, <1>19, QubitFacts
<1>21. IF method = "elim" THEN Lower(i + 1, mat') ELSE DoneLeft(i + 1, mat')
  <2>1. CASE method = "elim"
    <3>1. Lower(i, mat)
      BY <2>1, <1>1, <1>3 DEF EliminationInv
    <3>2. T = {q \in Qubits : i < q}
      BY <2>1, <1>8
    <3>3. Lower(i + 1, st.mat)
      BY <3>1, <3>2, <1>2, <1>12, <1>13, <1>15, ElimColumn
    <3>4. QED
      BY <2>1, <3>3, <1>11
  <2>2. CASE method # "elim"
    <3>1. DoneLeft(i, mat)
      BY <2>2, <1>1, <1>3 DEF EliminationInv
    <3>2. T = Qubits
      BY <2>2, <1>2, <1>3, <1>8
    <3>3. DoneLeft(i + 1, st.mat)
      BY <3>1, <3>2, <1>2, <1>12, <1>13, <1>15, JordanColumn
    <3>4. QED
      BY <2>2, <3>3, <1>11
  <2>3. QED
    BY <2>1, <2>2
<1>22. TypeInv'
  BY <1>1, <1>4, <1>16, <1>18, <1>19, <1>20 DEF TypeInv
<1>23. PhaseInv'
  BY <1>3, <1>4, <1>5, <1>19 DEF PhaseInv
<1>24. AppliedInv'
  <2>1. ret' \o swap' \o compute' = ret'
    BY <1>4, <1>5, <1>18
  <2>2. QED
    BY <2>1, <1>4, <1>18, <1>19 DEF AppliedInv
<1>25. CouplingInv'
  BY <1>3, <1>4 DEF CouplingInv
<1>26. EliminationInv'
  <2>1. CASE phase' = "column"
    BY <2>1, <1>4, <1>19, <1>21 DEF EliminationInv
  <2>2. CASE phase' = "back"
    <3>1. Lower(NQ, mat') /\ i' + 1 = NQ /\ NQ \in Nat
      BY <2>2, <1>19, <1>20, <1>21, QubitFacts
    <3>2. i' + 1 .. NQ - 1 = {}
      BY <3>1
    <3>3. QED
      BY <2>2, <3>1, <3>2 DEF EliminationInv
  <2>3. CASE phase' = "done"
    <3>1. DoneLeft(NQ, mat')
      BY <2>3, <1>19, <1>20, <1>21
    <3>2. mat' = Identity
      BY <3>1, <1>16, IdentityFacts
    <3>3. QED
      BY <2>3, <3>2 DEF EliminationInv
  <2>4. QED
    BY <2>1, <2>2, <2>3, <1>19
<1>27. PathInv' /\ TreeInv'
  BY <1>19 DEF PathInv, TreeInv
<1>28. QED
  BY <1>22, <1>23, <1>24, <1>25, <1>26, <1>27 DEF IInv

LEMMA NoPivotStep == IInv /\ NoPivot => IInv'
<1> SUFFICES ASSUME IInv, NoPivot PROVE IInv'
  OBVIOUS
<1>1. /\ TypeInv /\ PhaseInv /\ AppliedInv /\ CouplingInv
      /\ EliminationInv /\ PathInv /\ TreeInv
  BY DEF IInv
<1>2. /\ phase \in {"column", "pivot"} /\ phase' = "failed" /\ Candidates = {}
      /\ UNCHANGED <<method, graph, operator, mat, i, ret, pivot, path, s_tree, swap, compute,
                     above_diagonal_dep, crossed_diag>>
  BY DEF NoPivot, input, scratch
<1>3. i \in Qubits /\ mat \in Matrices
  BY <1>1, TypeFacts
<1>4. Lower(i, mat)
  <2>1. CASE phase = "column" /\ method = "elim"
    BY <2>1, <1>1 DEF EliminationInv
  <2>2. CASE ~(phase = "column" /\ method = "elim")
    <3>1. DoneLeft(i, mat)
      BY <2>2, <1>1, <1>2 DEF EliminationInv, PathInv
    <3>2. \A x \in Low(i) : \A q \in Qubits : x \in mat[q] \cap Low(i) <=> x \in {q} \cap Low(i)
      BY <3>1 DEF DoneLeft
    <3>3. QED
      BY <3>2 DEF Lower
  <2>3. QED
    BY <2>1, <2>2
<1>5. \A q \in Qubits : ~(q < i) => i \notin mat[q]
  <2>1. ASSUME NEW q \in Qubits, ~(q < i), i \in mat[q]
        PROVE  FALSE
    <3>1. q \in Candidates
      BY <2>1, <1>3, QubitFacts DEF Candidates, Qubits
    <3>2. QED
      BY <3>1, <1>2
  <2>2. QED
    BY <2>1
<1>6. TypeInv' /\ PhaseInv' /\ AppliedInv' /\ CouplingInv'
  BY <1>1, <1>2 DEF TypeInv, PhaseInv, AppliedInv, CouplingInv
<1>7. EliminationInv' /\ PathInv' /\ TreeInv'
  BY <1>2, <1>4, <1>5 DEF EliminationInv, PathInv, TreeInv, Lower
<1>8. QED
  BY <1>6, <1>7 DEF IInv

LEMMA BackColumnStep == IInv /\ BackColumn => IInv'
<1> SUFFICES ASSUME IInv, BackColumn PROVE IInv'
  OBVIOUS
<1>1. /\ TypeInv /\ PhaseInv /\ AppliedInv /\ CouplingInv
      /\ EliminationInv /\ PathInv /\ TreeInv
  BY DEF IInv
<1>2. i \in Qubits /\ mat \in Matrices /\ operator \in Matrices /\ ret \in Seq(CNOTs)
  BY <1>1, TypeFacts
<1>3. phase = "back" /\ method = "elim"
  BY <1>1 DEF BackColumn, PhaseInv
<1>4. UNCHANGED <<method, graph, operator, pivot, path, s_tree, swap, compute,
                  above_diagonal_dep, crossed_diag>>
  BY DEF BackColumn, input, scratch
<1>5. swap = <<>> /\ compute = <<>> /\ AddRows(operator, ret) = mat
  BY <1>1, <1>3, RetApplied DEF PhaseInv
<1>6. PICK st : st = InTurn(Clear, Start(mat, {}, <<>>), RowsAbove)
  OBVIOUS
<1>7. mat' = st.mat /\ ret' = ret \o st.cnots
  BY <1>6 DEF BackColumn
<1>8. Lower(NQ, mat) /\ \A x \in i + 1 .. NQ - 1 : \A q \in Qubits : x \in mat[q] <=> q = x
  BY <1>1, <1>3 DEF EliminationInv
<1>9. i \in mat[i]
  BY <1>2, <1>8, QubitFacts DEF Lower
<1>10. ClearedBy(st, mat, {q \in Qubits : q < i})
  <2>1. RowList(RowsAbove, {q \in Qubits : q < i})
    BY <1>2, RowLists
  <2>2. QED
    BY <2>1, <1>2, <1>6, <1>9, ClearRows
<1>11. mat' \in Matrices /\ st.cnots \in Seq(CNOTs) /\ AddRows(mat, st.cnots) = mat'
  BY <1>7, <1>10 DEF ClearedBy
<1>12. ret' \in Seq(CNOTs) /\ AddRows(operator, ret') = mat'
  BY <1>2, <1>5, <1>7, <1>11, AppliedThen
<1>13. /\ Lower(NQ, mat')
       /\ \A x \in i .. NQ - 1 : \A q \in Qubits : x \in mat'[q] <=> q = x
  BY <1>2, <1>7, <1>8, <1>10, BackColumnRows
<1>14. \/ i > 0 /\ i' = i - 1 /\ phase' = "back"
       \/ ~(i > 0) /\ phase' = "done" /\ i' = i
  BY <1>3 DEF BackColumn, Finish
<1>15. i' \in Qubits
  BY <1>2, <1>14, QubitFacts
<1>16. TypeInv'
  BY <1>1, <1>4, <1>11, <1>12, <1>14, <1>15 DEF TypeInv
<1>17. PhaseInv'
  BY <1>3, <1>4, <1>5, <1>14 DEF PhaseInv
<1>18. AppliedInv'
  <2>1. ret' \o swap' \o compute' = ret'
    BY <1>4, <1>5, <1>12
  <2>2. QED
    BY <2>1, <1>4, <1>12, <1>14 DEF AppliedInv
<1>19. CouplingInv'
  BY <1>3, <1>4 DEF CouplingInv
<1>20. EliminationInv'
  <2>1. CASE phase' = "back"
    <3>1. i' + 1 = i
      BY <2>1, <1>2, <1>14, QubitFacts
    <3>2. \A x \in i' + 1 .. NQ - 1 : \A q \in Qubits : x \in mat'[q] <=> q = x
      BY <3>1, <1>13
    <3>3. QED
      BY <2>1, <3>2, <1>13 DEF EliminationInv
  <2>2. CASE phase' = "done"
    <3>1. i = 0
      BY <2>2, <1>2, <1>14, QubitFacts
    <3>2. \A x \in Qubits : \A q \in Qubits : x \in mat'[q] <=> q = x
      BY <3>1, <1>13 DEF Qubits
    <3>3. DoneLeft(NQ, mat')
      BY <3>2, <1>11, QubitFacts DEF DoneLeft, Matrices
    <3>4. mat' = Identity
      BY <3>3, <1>11, IdentityFacts
    <3>5. QED
      BY <2>2, <3>4 DEF EliminationInv
  <2>3. QED
    BY <2>1, <2>2, <1>14
<1>21. PathInv' /\ TreeInv'
  BY <1>14 DEF PathInv, TreeInv
<1>22. QED
  BY <1>16, <1>17, <1>18, <1>19, <1>20, <1>21 DEF IInv

LEMMA ReturnStep == IInv /\ Return => IInv'
<1> SUFFICES ASSUME IInv, Return PROVE IInv'
  OBVIOUS
<1>1. /\ TypeInv /\ PhaseInv /\ AppliedInv /\ CouplingInv
      /\ EliminationInv /\ PathInv /\ TreeInv
  BY DEF IInv
<1>2. /\ i \in Qubits /\ mat \in Matrices /\ operator \in Matrices /\ ret \in Seq(CNOTs)
  BY <1>1, TypeFacts
<1>3. /\ phase = "done" /\ phase' = "returned" /\ ret' = Reverse(ret)
      /\ UNCHANGED <<method, graph, operator, mat, i, pivot, path, s_tree, swap, compute,
                     above_diagonal_dep, crossed_diag>>
  BY DEF Return, input, scratch
<1>4. AddRows(operator, ret) = mat /\ mat = Identity
  BY <1>1, <1>3, RetApplied DEF EliminationInv
<1>5. ret' \in Seq(CNOTs) /\ \A U : Within(ret, U) => Within(ret', U)
  BY <1>2, <1>3, ReverseFacts
<1>6. AddRows(Identity, ret') = operator
  <2>1. AddRows(AddRows(operator, ret), Reverse(ret)) = operator
    BY <1>2, AddRowsReverse
  <2>2. QED
    BY <2>1, <1>3, <1>4
<1>7. TypeInv'
  BY <1>1, <1>3, <1>5 DEF TypeInv
<1>8. PhaseInv'
  BY <1>1, <1>3 DEF PhaseInv
<1>9. AppliedInv'
  BY <1>3, <1>6 DEF AppliedInv
<1>10. CouplingInv'
  BY <1>1, <1>3, <1>5 DEF CouplingInv
<1>11. EliminationInv' /\ PathInv' /\ TreeInv'
  BY <1>3 DEF EliminationInv, PathInv, TreeInv
<1>12. QED
  BY <1>7, <1>8, <1>9, <1>10, <1>11 DEF IInv

-----------------------------------------------------------------------------
(* The steps of steiner_gauss.                                             *)

LEMMA StateIsStart ==
  ASSUME NEW st \in States
  PROVE  Start(st.mat, st.dep, st.cnots) = st
BY DEF Start, States

(* What holds at the end of a loop, for a run from base. *)
LoopEnds(st, X, T, pv) ==
  /\ st \in States
  /\ AddRows(X, st.cnots) = st.mat
  /\ Within(st.cnots, T)
  /\ Tracked(i, st, pv)

LEMMA LoopEnd ==
  ASSUME i \in Qubits, NEW list \in Seq(CNOTs), NEW base \in States,
         NEW f, Records(f, list), f[0] = base,
         NEW X \in Matrices, AddRows(X, base.cnots) = base.mat,
         NEW T, Within(list, T), Within(base.cnots, T),
         NEW pv, Tracked(i, base, pv), \A n \in 1 .. Len(list) : list[n][2] # pv
  PROVE  LoopEnds(f[Len(list)], X, T, pv)
<1>1. Len(list) \in Nat /\ Len(list) \in 0 .. Len(list)
  BY LenProperties
<1>2. f[Len(list)] \in States
  BY <1>1 DEF Records
<1>3. AddRows(X, f[0].cnots) = f[0].mat /\ Within(f[0].cnots, T) /\ Tracked(i, f[0], pv)
  OBVIOUS
<1>4. AddRows(X, f[Len(list)].cnots) = f[Len(list)].mat
  BY <1>1, <1>3, RecordsApplied
<1>5. Within(f[Len(list)].cnots, T)
  BY <1>1, <1>3, RecordsWithin
<1>6. Tracked(i, f[Len(list)], pv)
  BY <1>1, <1>3, RecordsTracked
<1>7. QED
  BY <1>2, <1>4, <1>5, <1>6 DEF LoopEnds

LEMMA SwapApplied ==
  ASSUME TypeInv, AppliedInv, compute = <<>>, phase # "returned"
  PROVE  AddRows(operator, ret) \in Matrices /\ AddRows(AddRows(operator, ret), swap) = mat
<1>1. ret \in Seq(CNOTs) /\ swap \in Seq(CNOTs) /\ operator \in Matrices
  BY TypeFacts
<1>2. ret \o swap \in Seq(CNOTs)
  BY <1>1, ConcatProperties
<1>3. ret \o swap \o compute = ret \o swap
  BY <1>2
<1>4. AddRows(operator, ret \o swap) = mat
  BY <1>3 DEF AppliedInv
<1>5. QED
  BY <1>1, <1>4, AddRowsType, AddRowsConcat

LEMMA ComputeApplied ==
  ASSUME TypeInv, AppliedInv, phase # "returned"
  PROVE  /\ ret \o swap \in Seq(CNOTs) /\ AddRows(operator, ret \o swap) \in Matrices
         /\ AddRows(AddRows(operator, ret \o swap), compute) = mat
<1>1. /\ ret \in Seq(CNOTs) /\ swap \in Seq(CNOTs) /\ operator \in Matrices
      /\ compute \in Seq(CNOTs)
  BY TypeFacts
<1>2. PICK r : r = ret \o swap
  OBVIOUS
<1>3. r \in Seq(CNOTs)
  BY <1>1, <1>2, ConcatProperties
<1>4. AddRows(operator, r \o compute) = mat
  BY <1>2 DEF AppliedInv
<1>5. AddRows(operator, r) \in Matrices /\ AddRows(AddRows(operator, r), compute) = mat
  BY <1>1, <1>3, <1>4, AddRowsType, AddRowsConcat
<1>6. QED
  BY <1>2, <1>3, <1>5

LEMMA ConcatWithin ==
  ASSUME NEW T, NEW s \in Seq(CNOTs), NEW t \in Seq(CNOTs), Within(s, T), Within(t, T)
  PROVE  Within(s \o t, T)
<1>1. /\ Len(s) \in Nat /\ Len(t) \in Nat /\ Len(s \o t) = Len(s) + Len(t)
      /\ \A n \in 1 .. Len(s) + Len(t) :
           (s \o t)[n] = IF n <= Len(s) THEN s[n] ELSE t[n - Len(s)]
  BY ConcatProperties, LenProperties
<1>2. ASSUME NEW n \in 1 .. Len(s) + Len(t)
      PROVE  (s \o t)[n] \in T
  <2>1. CASE n <= Len(s)
    <3>1. n \in 1 .. Len(s)
      BY <2>1, <1>1
    <3>2. QED
      BY <3>1, <2>1, <1>1 DEF Within
  <2>2. CASE ~(n <= Len(s))
    <3>1. n - Len(s) \in 1 .. Len(t)
      BY <2>2, <1>1
    <3>2. QED
      BY <3>1, <2>2, <1>1 DEF Within
  <2>3. QED
    BY <2>1, <2>2
<1>3. QED
  BY <1>1, <1>2 DEF Within

(* Phases 0 and 1: the rows, the CNOTs and the dependences after a path    *)
(* has been filled.                                                        *)
LEMMA PathFilled ==
  ASSUME i \in Qubits, mat \in Matrices, DoneLeft(i, mat),
         NEW p \in Qubits, ~(p < i), i \in mat[p],
         NEW way, IsPath(graph, p, i, way),
         NEW st, st = InTurn(Fill, Start(mat, {}, <<>>), Steps(way))
  PROVE  /\ LoopEnds(st, mat, PathSteps(way), p)
         /\ \A m \in 1 .. Len(way) : i \in st.mat[way[m]]
         /\ st.dep = {} \/ \E k \in 1 .. Len(st.cnots) : st.cnots[k][1] < i
<1>1. PICK base : base = Start(mat, {}, <<>>)
  OBVIOUS
<1>2. <<>> \in Seq(CNOTs) /\ {} \in SUBSET Qubits /\ Within(<<>>, PathSteps(way))
  BY DEF Within
<1>3. base \in States /\ base.mat = mat /\ base.cnots = <<>> /\ base.dep = {}
  BY <1>1, <1>2 DEF Start, States
<1>4. Tracked(i, base, p)
  BY <1>1, StartTracked
<1>5. /\ Len(way) \in Nat \ {0} /\ Steps(way) \in Seq(CNOTs) /\ Len(Steps(way)) = Len(way) - 1
      /\ \A n \in 1 .. Len(Steps(way)) : Steps(way)[n][2] # p
      /\ Within(Steps(way), PathSteps(way))
  BY StepsFacts
<1>6. PICK f : FillRun(f, base, Steps(way)) /\ InTurn(Fill, base, Steps(way)) = f[Len(Steps(way))]
  BY <1>3, <1>5, FillRuns
<1>7. st = f[Len(Steps(way))] /\ f[0] = base
  BY <1>1, <1>6 DEF FillRun
<1>8. Records(f, Steps(way))
  BY <1>5, <1>6, LoopsRecord
<1>9. AddRows(mat, base.cnots) = base.mat
  BY <1>3, AddRowsNone
<1>10. LoopEnds(f[Len(Steps(way))], mat, PathSteps(way), p)
  <2>1. Within(base.cnots, PathSteps(way))
    BY <1>2, <1>3
  <2>2. QED
    BY <2>1, <1>3, <1>4, <1>5, <1>7, <1>8, <1>9, LoopEnd
<1>11. \A n \in 0 .. Len(way) - 1 : \A m \in 1 .. n + 1 : i \in f[n].mat[way[m]]
  <2>1. i \in base.mat[p]
    BY <1>3
  <2>2. QED
    BY <2>1, <1>3, <1>6, FillPathColumn
<1>12. \A m \in 1 .. Len(way) : i \in f[Len(way) - 1].mat[way[m]]
  <2>1. Len(way) - 1 \in 0 .. Len(way) - 1 /\ (Len(way) - 1) + 1 = Len(way)
    BY <1>5
  <2>2. QED
    BY <2>1, <1>11
<1>13. \/ f[Len(Steps(way))].dep = {}
       \/ \E k \in 1 .. Len(f[Len(Steps(way))].cnots) : f[Len(Steps(way))].cnots[k][1] < i
  <2>1. Len(Steps(way)) \in Nat /\ Len(Steps(way)) \in 0 .. Len(Steps(way))
    BY <1>5
  <2>2. f[0].dep = {}
    BY <1>3, <1>7
  <2>3. QED
    BY <2>1, <2>2, <1>8, NoCrossing
<1>14. QED
  BY <1>5, <1>7, <1>10, <1>12, <1>13

LEMMA FillPathStep == IInv /\ FillPath => IInv'
<1> SUFFICES ASSUME IInv, FillPath PROVE IInv'
  OBVIOUS
<1>1. /\ TypeInv /\ PhaseInv /\ AppliedInv /\ CouplingInv
      /\ EliminationInv /\ PathInv /\ TreeInv
  BY DEF IInv
<1>2. /\ i \in Qubits /\ mat \in Matrices /\ operator \in Matrices /\ ret \in Seq(CNOTs)
      /\ graph \in Graphs
  BY <1>1, TypeFacts
<1>3. /\ phase = "pivot" /\ phase' = "cross" /\ method = "steiner"
      /\ UNCHANGED <<method, graph, operator, i, ret, s_tree, compute>>
  BY <1>1 DEF FillPath, input, PhaseInv
<1> DEFINE Effect(p, way) ==
             LET st == InTurn(Fill, Start(mat, {}, <<>>), Steps(way))
             IN  /\ pivot' = p
                 /\ path' = way
                 /\ mat' = st.mat
                 /\ swap' = st.cnots
                 /\ above_diagonal_dep' = st.dep
                 /\ crossed_diag' = \E n \in DOMAIN st.cnots : st.cnots[n][1] < i
<1>p. PICK p \in Candidates : \E way \in ShortestPaths(graph, p, i) : Effect(p, way)
  BY DEF FillPath
<1>4. PICK way \in ShortestPaths(graph, p, i) : Effect(p, way)
  BY <1>p
<1>5. PICK st : st = InTurn(Fill, Start(mat, {}, <<>>), Steps(way))
  OBVIOUS
<1>6. /\ pivot' = p /\ path' = way /\ mat' = st.mat /\ swap' = st.cnots
      /\ above_diagonal_dep' = st.dep
      /\ crossed_diag' <=> \E n \in DOMAIN st.cnots : st.cnots[n][1] < i
  BY <1>4, <1>5
<1>7. p \in Qubits /\ ~(p < i) /\ i \in mat[p]
  BY <1>2, CandidateFacts
<1>8. IsPath(graph, p, i, way)
  BY <1>2, <1>4, <1>7, DeviceAssumption
<1>9. DoneLeft(i, mat)
  BY <1>1, <1>3 DEF PathInv
<1>10. /\ LoopEnds(st, mat, PathSteps(way), p)
       /\ \A m \in 1 .. Len(way) : i \in st.mat[way[m]]
       /\ st.dep = {} \/ \E k \in 1 .. Len(st.cnots) : st.cnots[k][1] < i
  BY <1>2, <1>5, <1>7, <1>8, <1>9, PathFilled
<1>11. /\ st \in States /\ AddRows(mat, st.cnots) = st.mat
       /\ Within(st.cnots, PathSteps(way)) /\ Tracked(i, st, p)
  BY <1>10 DEF LoopEnds
<1>12. st.mat \in Matrices /\ st.cnots \in Seq(CNOTs) /\ st.dep \in SUBSET Qubits
  BY <1>11 DEF States
<1>13. /\ Len(way) \in Nat \ {0} /\ way[1] = p /\ way[Len(way)] = i
       /\ PathSteps(way) \subseteq graph
  BY <1>8, StepsFacts
<1>14. swap = <<>> /\ compute = <<>> /\ AddRows(operator, ret) = mat
  BY <1>1, <1>3, RetApplied DEF PhaseInv
<1>15. DOMAIN st.cnots = 1 .. Len(st.cnots)
  BY <1>12
<1>16. TypeInv'
  BY <1>1, <1>3, <1>6, <1>7, <1>12 DEF TypeInv
<1>17. PhaseInv'
  BY <1>3, <1>14 DEF PhaseInv
<1>18. AppliedInv'
  <2>1. AddRows(operator, ret \o st.cnots) = st.mat /\ ret \o st.cnots \in Seq(CNOTs)
    BY <1>2, <1>11, <1>12, <1>14, AppliedThen
  <2>2. ret' \o swap' \o compute' = ret \o st.cnots
    BY <2>1, <1>3, <1>6, <1>14
  <2>3. QED
    BY <2>1, <2>2, <1>3, <1>6 DEF AppliedInv
<1>19. CouplingInv'
  BY <1>1, <1>3, <1>6, <1>11, <1>13 DEF CouplingInv, Within
<1>20. EliminationInv'
  BY <1>3 DEF EliminationInv
<1>21. PathInv'
  <2>1. SUFFICES ASSUME crossed_diag'
        PROVE  /\ Tracked(i, Start(st.mat, st.dep, st.cnots), p)
               /\ p # i /\ IsPath(graph, p, i, way)
               /\ \A n \in 1 .. Len(way) : i \in st.mat[way[n]]
               /\ Within(st.cnots, PathSteps(way))
    BY <1>3, <1>6 DEF PathInv
  <2>2. Start(st.mat, st.dep, st.cnots) = st
    BY <1>11, StateIsStart
  <2>3. p # i
    <3>1. PICK n \in 1 .. Len(st.cnots) : st.cnots[n][1] < i
      BY <2>1, <1>6, <1>15
    <3>2. st.cnots[n] \in PathSteps(way)
      BY <1>11 DEF Within
    <3>3. PICK k \in 1 .. Len(way) - 1 : TRUE
      BY <3>2 DEF PathSteps
    <3>4. 1 \in 1 .. Len(way) /\ Len(way) \in 1 .. Len(way) /\ Len(way) # 1
      BY <3>3, <1>13
    <3>5. way[1] # way[Len(way)]
      BY <3>4, <1>8 DEF IsPath
    <3>6. QED
      BY <3>5, <1>13
  <2>4. QED
    BY <2>2, <2>3, <1>8, <1>10, <1>11
<1>22. TreeInv'
  <2>1. SUFFICES ASSUME ~crossed_diag'
        PROVE  DoneLeft(i, st.mat) /\ i \in st.mat[i]
    BY <1>3, <1>6 DEF TreeInv
  <2>2. st.dep = {}
    BY <2>1, <1>6, <1>10, <1>15
  <2>3. DoneLeft(i, st.mat)
    BY <2>2, <1>11 DEF Tracked, DoneLeft
  <2>4. Len(way) \in 1 .. Len(way)
    BY <1>13
  <2>5. QED
    BY <2>3, <2>4, <1>10, <1>13
<1>23. QED
  BY <1>16, <1>17, <1>18, <1>19, <1>20, <1>21, <1>22 DEF IInv

LEMMA ClearPathStep == IInv /\ ClearPath => IInv'
<1> SUFFICES ASSUME IInv, ClearPath PROVE IInv'
  OBVIOUS
<1>1. /\ TypeInv /\ PhaseInv /\ AppliedInv /\ CouplingInv
      /\ EliminationInv /\ PathInv /\ TreeInv
  BY DEF IInv
<1>2. /\ i \in Qubits /\ mat \in Matrices /\ swap \in Seq(CNOTs) /\ graph \in Graphs
      /\ above_diagonal_dep \in SUBSET Qubits
  BY <1>1, TypeFacts
<1>3. /\ phase = "cross" /\ crossed_diag /\ phase' = "uncross" /\ method = "steiner"
      /\ UNCHANGED <<method, graph, operator, i, ret, pivot, path, s_tree, compute,
                     crossed_diag>>
  BY <1>1 DEF ClearPath, input, PhaseInv
<1>4. PICK base : base = Start(mat, above_diagonal_dep, swap)
  OBVIOUS
<1>5. base \in States /\ base.mat = mat /\ base.cnots = swap
  BY <1>2, <1>4 DEF Start, States
<1>6. /\ Tracked(i, base, pivot) /\ pivot # i /\ IsPath(graph, pivot, i, path)
      /\ \A n \in 1 .. Len(path) : i \in base.mat[path[n]]
      /\ Within(base.cnots, PathSteps(path))
  BY <1>1, <1>3, <1>4, <1>5 DEF PathInv
<1>7. /\ StepsBack(path) \in Seq(CNOTs) /\ Len(StepsBack(path)) = Len(path) - 2
      /\ Len(path) - 2 \in Nat
      /\ \A n \in 1 .. Len(StepsBack(path)) : StepsBack(path)[n][2] # pivot
      /\ Within(StepsBack(path), PathSteps(path))
  BY <1>6, StepsBackFacts
<1>8. PICK f : /\ RecordRun(f, base, StepsBack(path))
               /\ InTurn(Record, base, StepsBack(path)) = f[Len(StepsBack(path))]
  BY <1>5, <1>7, RecordRuns
<1>9. PICK st : st = f[Len(StepsBack(path))]
  OBVIOUS
<1>10. mat' = st.mat /\ swap' = st.cnots /\ above_diagonal_dep' = st.dep
  BY <1>4, <1>8, <1>9 DEF ClearPath
<1>11. compute = <<>>
  BY <1>1, <1>3 DEF PhaseInv
<1>12. PICK X : X = AddRows(operator, ret)
  OBVIOUS
<1>13. X \in Matrices /\ AddRows(X, base.cnots) = base.mat
  BY <1>1, <1>3, <1>5, <1>11, <1>12, SwapApplied
<1>14. LoopEnds(st, X, PathSteps(path), pivot)
  <2>1. Records(f, StepsBack(path)) /\ f[0] = base
    BY <1>7, <1>8, LoopsRecord DEF RecordRun
  <2>2. LoopEnds(f[Len(StepsBack(path))], X, PathSteps(path), pivot)
    BY <2>1, <1>2, <1>5, <1>6, <1>7, <1>13, LoopEnd
  <2>3. QED
    BY <2>2, <1>9
<1>15. /\ st \in States /\ AddRows(X, st.cnots) = st.mat
       /\ Within(st.cnots, PathSteps(path)) /\ Tracked(i, st, pivot)
  BY <1>14 DEF LoopEnds
<1>16. st.mat \in Matrices /\ st.cnots \in Seq(CNOTs) /\ st.dep \in SUBSET Qubits
  BY <1>15 DEF States
<1>17. /\ path[1] = pivot /\ path[Len(path)] = i /\ PathSteps(path) \subseteq graph
  BY <1>6, StepsFacts
<1>18. \A m \in 1 .. Len(path) : i \in st.mat[path[m]] <=> m = Len(path) \/ m <= 1
  <2>1. \A n \in 0 .. Len(path) - 2 : \A m \in 1 .. Len(path) :
          i \in f[n].mat[path[m]] <=> m = Len(path) \/ m <= Len(path) - 1 - n
    BY <1>2, <1>5, <1>6, <1>8, ClearPathColumn
  <2>2. PICK N : N = Len(path) - 2
    OBVIOUS
  <2>3. N \in 0 .. Len(path) - 2 /\ Len(path) - 1 - N = 1
    BY <2>2, <1>7
  <2>4. st = f[N]
    BY <2>2, <1>7, <1>9
  <2>5. QED
    BY <2>1, <2>3, <2>4
<1>19. TypeInv'
  BY <1>1, <1>3, <1>10, <1>16 DEF TypeInv
<1>20. PhaseInv'
  BY <1>3, <1>11 DEF PhaseInv
<1>21. AppliedInv'
  <2>1. ret \in Seq(CNOTs) /\ operator \in Matrices
    BY <1>1, TypeFacts
  <2>2. AddRows(operator, ret \o st.cnots) = st.mat /\ ret \o st.cnots \in Seq(CNOTs)
    BY <2>1, <1>12, <1>13, <1>15, <1>16, AppliedThen
  <2>3. ret' \o swap' \o compute' = ret \o st.cnots
    BY <2>2, <1>3, <1>10, <1>11
  <2>4. QED
    BY <2>2, <2>3, <1>3, <1>10 DEF AppliedInv
<1>22. CouplingInv'
  BY <1>1, <1>3, <1>10, <1>15, <1>17 DEF CouplingInv, Within
<1>23. EliminationInv' /\ TreeInv'
  BY <1>3 DEF EliminationInv, TreeInv
<1>24. PathInv'
  <2>1. Start(st.mat, st.dep, st.cnots) = st
    BY <1>15, StateIsStart
  <2>2. i \in st.mat[i]
    <3>1. Len(path) \in 1 .. Len(path)
      BY <1>7
    <3>2. i \in st.mat[path[Len(path)]]
      BY <3>1, <1>18
    <3>3. QED
      BY <3>2, <1>17
  <2>3. ASSUME NEW n \in 1 .. Len(st.cnots), st.cnots[n][1] # pivot
        PROVE  i \notin st.mat[st.cnots[n][1]]
    <3>1. st.cnots[n] \in PathSteps(path)
      BY <1>15 DEF Within
    <3>2. PICK k \in 1 .. Len(path) - 1 : st.cnots[n] = <<path[k], path[k + 1]>>
      BY <3>1 DEF PathSteps
    <3>3. st.cnots[n][1] = path[k]
      BY <3>2
    <3>4. k # 1
      BY <3>3, <2>3, <1>17
    <3>5. k \in 1 .. Len(path) /\ k # Len(path) /\ ~(k <= 1)
      BY <3>4, <1>7
    <3>6. QED
      BY <3>3, <3>5, <1>18
  <2>4. QED
    BY <2>1, <2>2, <2>3, <1>3, <1>10, <1>15 DEF PathInv
<1>25. QED
  BY <1>19, <1>20, <1>21, <1>22, <1>23, <1>24 DEF IInv

(* Phases 2 and 6: the end of the computation of list, as repeated *)
LEMMA Undone ==
  ASSUME i \in Qubits, mat \in Matrices, above_diagonal_dep \in SUBSET Qubits,
         NEW list \in Seq(CNOTs),
         Tracked(i, Start(mat, above_diagonal_dep, list), pivot),
         \A n \in 1 .. Len(list) : list[n][1] # pivot => i \notin mat[list[n][1]],
         NEW X \in Matrices, AddRows(X, list) = mat,
         NEW T, Within(list, T)
  PROVE  /\ Undo(list).mat \in Matrices /\ Undo(list).cnots \in Seq(CNOTs)
         /\ AddRows(X, Undo(list).cnots) = Undo(list).mat
         /\ Within(Undo(list).cnots, T)
         /\ DoneLeft(i, Undo(list).mat)
         /\ \A q \in Qubits : i \in Undo(list).mat[q] <=> i \in mat[q]
<1>1. PICK base : base = Start(mat, above_diagonal_dep, list)
  OBVIOUS
<1>2. base \in States /\ base.mat = mat /\ base.cnots = list
  BY <1>1 DEF Start, States
<1>3. /\ Reverse(list) \in Seq(CNOTs) /\ Len(Reverse(list)) = Len(list)
      /\ Len(list) \in Nat /\ Within(Reverse(list), T)
  BY ReverseFacts
<1>4. PICK f : /\ RepeatRun(f, base, Reverse(list))
               /\ InTurn(Repeat, base, Reverse(list)) = f[Len(Reverse(list))]
  BY <1>2, <1>3, RepeatRuns
<1>5. Undo(list) = f[Len(list)]
  BY <1>1, <1>3, <1>4 DEF Undo
<1>6. Records(f, Reverse(list)) /\ f[0] = base
  BY <1>3, <1>4, LoopsRecord DEF RepeatRun
<1>7. Len(list) \in 0 .. Len(list)
  BY <1>3
<1>8. f[Len(list)] \in States
  BY <1>3, <1>6, <1>7 DEF Records
<1>9. AddRows(X, f[Len(list)].cnots) = f[Len(list)].mat
  <2>1. AddRows(X, f[0].cnots) = f[0].mat
    BY <1>2, <1>6
  <2>2. \A n \in 0 .. Len(Reverse(list)) : AddRows(X, f[n].cnots) = f[n].mat
    BY <2>1, <1>3, <1>6, RecordsApplied
  <2>3. QED
    BY <2>2, <1>3, <1>7
<1>10. Within(f[Len(list)].cnots, T)
  <2>1. Within(f[0].cnots, T)
    BY <1>2, <1>6
  <2>2. \A n \in 0 .. Len(Reverse(list)) : Within(f[n].cnots, T)
    BY <2>1, <1>3, <1>6, RecordsWithin
  <2>3. QED
    BY <2>2, <1>3, <1>7
<1>11. DoneLeft(i, f[Len(list)].mat)
  BY <1>1, <1>2, <1>4, UndoRestores
<1>12. \A q \in Qubits : i \in f[Len(list)].mat[q] <=> i \in mat[q]
  BY <1>1, <1>2, <1>4, UndoKeepsColumn
<1>13. f[Len(list)].mat \in Matrices /\ f[Len(list)].cnots \in Seq(CNOTs)
  BY <1>8 DEF States
<1>14. QED
  BY <1>5, <1>9, <1>10, <1>11, <1>12, <1>13

LEMMA UndoPathStep == IInv /\ UndoPath => IInv'
<1> SUFFICES ASSUME IInv, UndoPath PROVE IInv'
  OBVIOUS
<1>1. /\ TypeInv /\ PhaseInv /\ AppliedInv /\ CouplingInv
      /\ EliminationInv /\ PathInv /\ TreeInv
  BY DEF IInv
<1>2. /\ i \in Qubits /\ mat \in Matrices /\ swap \in Seq(CNOTs) /\ graph \in Graphs
      /\ above_diagonal_dep \in SUBSET Qubits
  BY <1>1, TypeFacts
<1>3. /\ phase = "uncross" /\ phase' = "cross" /\ method = "steiner" /\ ~crossed_diag'
      /\ UNCHANGED <<method, graph, operator, i, ret, pivot, path, s_tree, compute,
                     above_diagonal_dep>>
      /\ mat' = Undo(swap).mat /\ swap' = Undo(swap).cnots
  BY <1>1 DEF UndoPath, input, PhaseInv
<1>4. compute = <<>>
  BY <1>1, <1>3 DEF PhaseInv
<1>5. PICK X : X = AddRows(operator, ret)
  OBVIOUS
<1>6. X \in Matrices /\ AddRows(X, swap) = mat
  BY <1>1, <1>3, <1>4, <1>5, SwapApplied
<1>7. /\ Tracked(i, Start(mat, above_diagonal_dep, swap), pivot) /\ i \in mat[i]
      /\ \A n \in 1 .. Len(swap) : swap[n][1] # pivot => i \notin mat[swap[n][1]]
  BY <1>1, <1>3 DEF PathInv
<1>8. Within(swap, graph)
  BY <1>1, <1>3 DEF CouplingInv
<1>9. PICK st : st = Undo(swap)
  OBVIOUS
<1>10. /\ st.mat \in Matrices /\ st.cnots \in Seq(CNOTs)
       /\ AddRows(X, st.cnots) = st.mat
       /\ Within(st.cnots, graph)
       /\ DoneLeft(i, st.mat)
       /\ \A q \in Qubits : i \in st.mat[q] <=> i \in mat[q]
  BY <1>2, <1>6, <1>7, <1>8, <1>9, Undone
<1>11. mat' = st.mat /\ swap' = st.cnots
  BY <1>3, <1>9
<1>12. TypeInv'
  BY <1>1, <1>3, <1>10, <1>11 DEF TypeInv
<1>13. PhaseInv'
  BY <1>3, <1>4 DEF PhaseInv
<1>14. AppliedInv'
  <2>1. ret \in Seq(CNOTs) /\ operator \in Matrices
    BY <1>1, TypeFacts
  <2>2. AddRows(operator, ret \o st.cnots) = st.mat /\ ret \o st.cnots \in Seq(CNOTs)
    BY <2>1, <1>5, <1>6, <1>10, AppliedThen
  <2>3. ret' \o swap' \o compute' = ret \o st.cnots
    BY <2>2, <1>3, <1>4, <1>11
  <2>4. QED
    BY <2>2, <2>3, <1>3, <1>11 DEF AppliedInv
<1>15. CouplingInv'
  BY <1>1, <1>3, <1>10, <1>11 DEF CouplingInv
<1>16. EliminationInv' /\ PathInv'
  BY <1>3 DEF EliminationInv, PathInv
<1>17. TreeInv'
  BY <1>2, <1>3, <1>7, <1>10, <1>11 DEF TreeInv
<1>18. QED
  BY <1>12, <1>13, <1>14, <1>15, <1>16, <1>17 DEF IInv

(* Phase 4: what holds after the tree has been filled *)
LEMMA TreeFilled ==
  ASSUME i \in Qubits, mat \in Matrices, DoneLeft(i, mat), i \in mat[i],
         graph \in SUBSET (Qubits \X Qubits), NEW t,
         IsTree(graph, i, {j \in Qubits \ {i} : i \in mat[j]}, t),
         NEW st, st = InTurn(Fill, Start(mat, {}, <<>>), t)
  PROVE  /\ LoopEnds(st, mat, graph, i)
         /\ \A q \in Qubits : i \in st.mat[q] <=> q \in Nodes(i, t, Len(t))
<1>1. PICK base : base = Start(mat, {}, <<>>)
  OBVIOUS
<1>2. <<>> \in Seq(CNOTs) /\ {} \in SUBSET Qubits /\ Within(<<>>, graph)
  BY DEF Within
<1>3. base \in States /\ base.mat = mat /\ base.cnots = <<>>
  BY <1>1, <1>2 DEF Start, States
<1>4. Tracked(i, base, i)
  <2>1. ~(i < i)
    BY QubitFacts
  <2>2. QED
    BY <2>1, <1>1, StartTracked
<1>5. PICK terminals : terminals = {j \in Qubits \ {i} : i \in mat[j]}
  OBVIOUS
<1>6. IsTree(graph, i, terminals, t)
  BY <1>5
<1>7. TreeRun(graph, i, t)
  BY <1>6, TreeFacts
<1>8. /\ Len(t) \in Nat /\ t \in Seq(CNOTs) /\ Within(t, graph)
      /\ \A n \in 1 .. Len(t) : t[n][2] # i
  BY <1>7 DEF TreeRun
<1>9. PICK f : FillRun(f, base, t) /\ InTurn(Fill, base, t) = f[Len(t)]
  BY <1>3, <1>8, FillRuns
<1>10. st = f[Len(t)] /\ f[0] = base
  BY <1>1, <1>9 DEF FillRun
<1>11. Records(f, t)
  BY <1>8, <1>9, LoopsRecord
<1>12. LoopEnds(f[Len(t)], mat, graph, i)
  <2>1. Within(base.cnots, graph) /\ AddRows(mat, base.cnots) = base.mat
    BY <1>2, <1>3, AddRowsNone
  <2>2. QED
    BY <2>1, <1>3, <1>4, <1>8, <1>10, <1>11, LoopEnd
<1>13. \A q \in Qubits : i \in f[Len(t)].mat[q] <=> q \in Nodes(i, t, Len(t)) \/ i \in base.mat[q]
  <2>1. i \in base.mat[i] /\ Len(t) \in 0 .. Len(t)
    BY <1>3, <1>8
  <2>2. QED
    BY <2>1, <1>3, <1>6, <1>9, FillTreeColumn
<1>14. \A q \in Qubits : i \in mat[q] => q \in Nodes(i, t, Len(t))
  <2>1. terminals \subseteq Nodes(i, t, Len(t)) /\ i \in Nodes(i, t, Len(t))
    BY <1>6 DEF IsTree, Nodes
  <2>2. QED
    BY <2>1, <1>5
<1>15. QED
  BY <1>3, <1>10, <1>12, <1>13, <1>14

LEMMA FillTreeStep == IInv /\ FillTree => IInv'
<1> SUFFICES ASSUME IInv, FillTree PROVE IInv'
  OBVIOUS
<1>1. /\ TypeInv /\ PhaseInv /\ AppliedInv /\ CouplingInv
      /\ EliminationInv /\ PathInv /\ TreeInv
  BY DEF IInv
<1>2. /\ i \in Qubits /\ mat \in Matrices /\ operator \in Matrices /\ graph \in Graphs
      /\ graph \in SUBSET (Qubits \X Qubits)
  BY <1>1, TypeFacts
<1>3. /\ phase = "cross" /\ ~crossed_diag /\ phase' = "tree" /\ method = "steiner"
      /\ pivot' = i
      /\ UNCHANGED <<method, graph, operator, i, ret, path, swap, crossed_diag>>
  BY <1>1 DEF FillTree, input, PhaseInv
<1>4. PICK terminals : terminals = {j \in Qubits \ {i} : i \in mat[j]}
  OBVIOUS
<1>5. PICK t \in SteinerTrees(graph, i, terminals) :
        LET st == InTurn(Fill, Start(mat, {}, <<>>), t)
        IN  /\ s_tree' = t
            /\ mat' = st.mat
            /\ compute' = st.cnots
            /\ above_diagonal_dep' = st.dep
  BY <1>4 DEF FillTree
<1>6. IsTree(graph, i, terminals, t)
  <2>1. terminals \in SUBSET (Qubits \ {i})
    BY <1>4
  <2>2. QED
    BY <2>1, <1>2, <1>5, DeviceAssumption
<1>7. PICK st : st = InTurn(Fill, Start(mat, {}, <<>>), t)
  OBVIOUS
<1>8. /\ s_tree' = t /\ mat' = st.mat /\ compute' = st.cnots /\ above_diagonal_dep' = st.dep
  BY <1>5, <1>7
<1>9. DoneLeft(i, mat) /\ i \in mat[i]
  BY <1>1, <1>3 DEF TreeInv
<1>10. /\ LoopEnds(st, mat, graph, i)
       /\ \A q \in Qubits : i \in st.mat[q] <=> q \in Nodes(i, t, Len(t))
  BY <1>2, <1>4, <1>6, <1>7, <1>9, TreeFilled
<1>11. /\ st \in States /\ AddRows(mat, st.cnots) = st.mat
       /\ Within(st.cnots, graph) /\ Tracked(i, st, i)
  BY <1>10 DEF LoopEnds
<1>12. st.mat \in Matrices /\ st.cnots \in Seq(CNOTs) /\ st.dep \in SUBSET Qubits
  BY <1>11 DEF States
<1>13. compute = <<>> /\ compute \in Seq(CNOTs)
  BY <1>1, <1>3 DEF PhaseInv, TypeInv
<1>14. TypeInv'
  BY <1>1, <1>3, <1>8, <1>12 DEF TypeInv
<1>15. PhaseInv'
  BY <1>3 DEF PhaseInv
<1>16. AppliedInv'
  <2>1. PICK r : r = ret \o swap
    OBVIOUS
  <2>2. r \in Seq(CNOTs) /\ AddRows(operator, r) \in Matrices
        /\ AddRows(AddRows(operator, r), compute) = mat
    BY <2>1, <1>1, <1>3, ComputeApplied
  <2>3. AddRows(operator, r) = mat
    BY <2>2, <1>13, AddRowsNone
  <2>4. AddRows(operator, r \o st.cnots) = st.mat
    BY <2>2, <2>3, <1>2, <1>11, <1>12, AppliedThen
  <2>5. ret' \o swap' \o compute' = r \o st.cnots
    BY <2>1, <1>3, <1>8
  <2>6. QED
    BY <2>4, <2>5, <1>3, <1>8 DEF AppliedInv
<1>17. CouplingInv'
  BY <1>1, <1>3, <1>8, <1>11 DEF CouplingInv
<1>18. EliminationInv' /\ PathInv'
  BY <1>3 DEF EliminationInv, PathInv
<1>19. TreeInv'
  <2>1. Start(st.mat, st.dep, st.cnots) = st
    BY <1>11, StateIsStart
  <2>2. QED
    BY <2>1, <1>3, <1>6, <1>8, <1>10, <1>11 DEF TreeInv
<1>20. QED
  BY <1>14, <1>15, <1>16, <1>17, <1>18, <1>19 DEF IInv

LEMMA ClearTreeStep == IInv /\ ClearTree => IInv'
<1> SUFFICES ASSUME IInv, ClearTree PROVE IInv'
  OBVIOUS
<1>1. /\ TypeInv /\ PhaseInv /\ AppliedInv /\ CouplingInv
      /\ EliminationInv /\ PathInv /\ TreeInv
  BY DEF IInv
<1>2. /\ i \in Qubits /\ mat \in Matrices /\ compute \in Seq(CNOTs) /\ graph \in Graphs
      /\ above_diagonal_dep \in SUBSET Qubits /\ graph \in SUBSET (Qubits \X Qubits)
      /\ operator \in Matrices
  BY <1>1, TypeFacts
<1>3. /\ phase = "tree" /\ phase' = "untree" /\ method = "steiner" /\ pivot = i
      /\ UNCHANGED <<method, graph, operator, i, ret, pivot, path, s_tree, swap,
                     crossed_diag>>
  BY <1>1 DEF ClearTree, input, PhaseInv, TreeInv
<1>4. PICK base : base = Start(mat, above_diagonal_dep, compute)
  OBVIOUS
<1>5. base \in States /\ base.mat = mat /\ base.cnots = compute
  BY <1>2, <1>4 DEF Start, States
<1>6. PICK t : t = s_tree
  OBVIOUS
<1>7. Tracked(i, base, i)
  BY <1>1, <1>3, <1>4 DEF TreeInv
<1>8. PICK terminals : IsTree(graph, i, terminals, t)
  BY <1>1, <1>3, <1>6 DEF TreeInv
<1>9. \A q \in Qubits : i \in base.mat[q] <=> q \in Nodes(i, t, Len(t))
  BY <1>1, <1>3, <1>5, <1>6 DEF TreeInv
<1>10. TreeRun(graph, i, t)
  BY <1>2, <1>8, TreeFacts
<1>11. /\ Len(t) \in Nat /\ t \in Seq(CNOTs) /\ Within(t, graph)
       /\ \A n \in 1 .. Len(t) : t[n][2] # i
  BY <1>10 DEF TreeRun
<1>12. /\ Reverse(t) \in Seq(CNOTs) /\ Len(Reverse(t)) = Len(t)
       /\ \A n \in 1 .. Len(t) : Reverse(t)[n] = t[(Len(t) - n) + 1]
       /\ Within(Reverse(t), graph)
  BY <1>11, ReverseFacts
<1>13. \A n \in 1 .. Len(Reverse(t)) : Reverse(t)[n][2] # i
  <2>1. ASSUME NEW n \in 1 .. Len(t)
        PROVE  Reverse(t)[n][2] # i
    <3>1. (Len(t) - n) + 1 \in 1 .. Len(t)
      BY <1>11
    <3>2. QED
      BY <3>1, <1>11, <1>12
  <2>2. QED
    BY <2>1, <1>12
<1>14. PICK f : RecordRun(f, base, Reverse(t)) /\ InTurn(Record, base, Reverse(t)) = f[Len(Reverse(t))]
  BY <1>5, <1>12, RecordRuns
<1>15. PICK st : st = f[Len(Reverse(t))]
  OBVIOUS
<1>16. mat' = st.mat /\ compute' = st.cnots /\ above_diagonal_dep' = st.dep
  BY <1>4, <1>6, <1>14, <1>15 DEF ClearTree
<1>17. PICK r : r = ret \o swap
  OBVIOUS
<1>18. PICK X : X = AddRows(operator, r)
  OBVIOUS
<1>19. r \in Seq(CNOTs) /\ X \in Matrices /\ AddRows(X, base.cnots) = base.mat
  BY <1>1, <1>3, <1>5, <1>17, <1>18, ComputeApplied
<1>20. LoopEnds(st, X, graph, i)
  <2>1. Records(f, Reverse(t)) /\ f[0] = base
    BY <1>12, <1>14, LoopsRecord DEF RecordRun
  <2>2. Within(base.cnots, graph)
    BY <1>1, <1>3, <1>5 DEF CouplingInv
  <2>3. LoopEnds(f[Len(Reverse(t))], X, graph, i)
    BY <2>1, <2>2, <1>2, <1>5, <1>7, <1>12, <1>13, <1>19, LoopEnd
  <2>4. QED
    BY <2>3, <1>15
<1>21. /\ st \in States /\ AddRows(X, st.cnots) = st.mat
       /\ Within(st.cnots, graph) /\ Tracked(i, st, i)
  BY <1>20 DEF LoopEnds
<1>22. st.mat \in Matrices /\ st.cnots \in Seq(CNOTs) /\ st.dep \in SUBSET Qubits
  BY <1>21 DEF States
<1>23. \A q \in Qubits : i \in st.mat[q] <=> q = i
  <2>1. \A n \in 0 .. Len(t) : \A q \in Qubits :
          i \in f[n].mat[q] <=> q \in Nodes(i, t, Len(t) - n)
    BY <1>2, <1>5, <1>8, <1>9, <1>14, ClearTreeColumn
  <2>2. PICK N : N = Len(t)
    OBVIOUS
  <2>3. N \in 0 .. Len(t) /\ Len(t) - N = 0 /\ st = f[N]
    BY <2>2, <1>11, <1>12, <1>15
  <2>4. Nodes(i, t, 0) = {i}
    BY <1>10 DEF TreeRun
  <2>5. QED
    BY <2>1, <2>3, <2>4
<1>24. TypeInv'
  BY <1>1, <1>3, <1>16, <1>22 DEF TypeInv
<1>25. PhaseInv'
  BY <1>3 DEF PhaseInv
<1>26. AppliedInv'
  <2>1. AddRows(operator, r \o st.cnots) = st.mat
    BY <1>2, <1>18, <1>19, <1>21, <1>22, AppliedThen
  <2>2. ret' \o swap' \o compute' = r \o st.cnots
    BY <1>3, <1>16, <1>17
  <2>3. QED
    BY <2>1, <2>2, <1>3, <1>16 DEF AppliedInv
<1>27. CouplingInv'
  BY <1>1, <1>3, <1>16, <1>21 DEF CouplingInv
<1>28. EliminationInv' /\ PathInv'
  BY <1>3 DEF EliminationInv, PathInv
<1>29. TreeInv'
  <2>1. Start(st.mat, st.dep, st.cnots) = st
    BY <1>21, StateIsStart
  <2>2. QED
    BY <2>1, <1>3, <1>16, <1>21, <1>23 DEF TreeInv
<1>30. QED
  BY <1>24, <1>25, <1>26, <1>27, <1>28, <1>29 DEF IInv

LEMMA UndoTreeStep == IInv /\ UndoTree => IInv'
<1> SUFFICES ASSUME IInv, UndoTree PROVE IInv'
  OBVIOUS
<1>1. /\ TypeInv /\ PhaseInv /\ AppliedInv /\ CouplingInv
      /\ EliminationInv /\ PathInv /\ TreeInv
  BY DEF IInv
<1>2. /\ i \in Qubits /\ mat \in Matrices /\ compute \in Seq(CNOTs) /\ graph \in Graphs
      /\ ret \in Seq(CNOTs) /\ swap \in Seq(CNOTs)
      /\ above_diagonal_dep \in SUBSET Qubits /\ operator \in Matrices
  BY <1>1, TypeFacts
<1>3. PICK st : st = Undo(compute)
  OBVIOUS
<1>4. /\ phase = "untree" /\ method = "steiner" /\ UNCHANGED <<method, graph, operator>>
      /\ above_diagonal_dep' = {} /\ pivot' = 0 /\ swap' = <<>> /\ compute' = <<>>
      /\ mat' = st.mat /\ ret' = ret \o swap \o st.cnots
  BY <1>1, <1>3 DEF UndoTree, input, PhaseInv
<1>5. \/ i + 1 < NQ /\ i' = i + 1 /\ phase' = "pivot"
      \/ ~(i + 1 < NQ) /\ i' = i /\ phase' = "done"
  BY DEF UndoTree, Finish
<1>6. /\ i' \in Qubits /\ 0 \in Qubits /\ (~(i + 1 < NQ) => i + 1 = NQ)
  BY <1>2, <1>5, QubitFacts
<1>7. PICK r : r = ret \o swap
  OBVIOUS
<1>8. PICK X : X = AddRows(operator, r)
  OBVIOUS
<1>9. r \in Seq(CNOTs) /\ X \in Matrices /\ AddRows(X, compute) = mat
  BY <1>1, <1>4, <1>7, <1>8, ComputeApplied
<1>10. /\ Tracked(i, Start(mat, above_diagonal_dep, compute), pivot) /\ pivot = i
       /\ \A q \in Qubits : i \in mat[q] <=> q = i
  BY <1>1, <1>4 DEF TreeInv
<1>11. \A n \in 1 .. Len(compute) : compute[n][1] # pivot => i \notin mat[compute[n][1]]
  <2>1. \A n \in 1 .. Len(compute) : compute[n] \in CNOTs
    BY <1>2, ElementOfSeq
  <2>2. \A cx \in CNOTs : cx[1] \in Qubits
    BY DEF CNOTs
  <2>3. QED
    BY <2>1, <2>2, <1>10
<1>12. Within(compute, graph) /\ Within(ret, graph) /\ Within(swap, graph)
  BY <1>1, <1>4 DEF CouplingInv
<1>13. /\ st.mat \in Matrices /\ st.cnots \in Seq(CNOTs)
       /\ AddRows(X, st.cnots) = st.mat
       /\ Within(st.cnots, graph)
       /\ DoneLeft(i, st.mat)
       /\ \A q \in Qubits : i \in st.mat[q] <=> i \in mat[q]
  BY <1>2, <1>3, <1>9, <1>10, <1>11, <1>12, Undone
<1>14. DoneLeft(i + 1, st.mat)
  <2>1. \A q \in Qubits : i \in st.mat[q] <=> q = i
    BY <1>10, <1>13
  <2>2. QED
    BY <2>1, <1>2, <1>13, ColumnDone
<1>15. ret' = r \o st.cnots /\ ret' \in Seq(CNOTs) /\ AddRows(operator, ret') = st.mat
  <2>1. r \o st.cnots \in Seq(CNOTs) /\ AddRows(operator, r \o st.cnots) = st.mat
    BY <1>2, <1>8, <1>9, <1>13, AppliedThen
  <2>2. QED
    BY <2>1, <1>4, <1>7
<1>16. TypeInv'
  <2>1. <<>> \in Seq(CNOTs) /\ {} \in SUBSET Qubits
    OBVIOUS
  <2>2. QED
    BY <2>1, <1>1, <1>4, <1>5, <1>6, <1>13, <1>15 DEF TypeInv
<1>17. PhaseInv'
  BY <1>4, <1>5 DEF PhaseInv
<1>18. AppliedInv'
  <2>1. ret' \o swap' \o compute' = ret'
    BY <1>4, <1>15
  <2>2. QED
    BY <2>1, <1>4, <1>5, <1>15 DEF AppliedInv
<1>19. CouplingInv'
  <2>1. Within(r, graph)
    BY <1>2, <1>7, <1>12, ConcatWithin
  <2>2. Within(ret', graph)
    BY <2>1, <1>9, <1>13, <1>15, ConcatWithin
  <2>3. Within(<<>>, graph)
    BY DEF Within
  <2>4. QED
    BY <2>2, <2>3, <1>4 DEF CouplingInv
<1>20. EliminationInv'
  <2>1. CASE phase' = "pivot"
    BY <2>1 DEF EliminationInv
  <2>2. CASE phase' = "done"
    <3>1. DoneLeft(NQ, st.mat)
      BY <2>2, <1>5, <1>6, <1>14
    <3>2. st.mat = Identity
      BY <3>1, <1>13, IdentityFacts
    <3>3. QED
      BY <2>2, <3>2, <1>4 DEF EliminationInv
  <2>3. QED
    BY <2>1, <2>2, <1>5
<1>21. PathInv'
  BY <1>4, <1>5, <1>14 DEF PathInv
<1>22. TreeInv'
  BY <1>5 DEF TreeInv
<1>23. QED
  BY <1>16, <1>17, <1>18, <1>19, <1>20, <1>21, <1>22 DEF IInv

LEMMA StutterStep == IInv /\ UNCHANGED vars => IInv'
<1> SUFFICES ASSUME IInv, UNCHANGED vars PROVE IInv'
  OBVIOUS
<1>1. UNCHANGED <<method, graph, operator, mat, i, phase, ret, pivot, path, s_tree, swap,
                  compute, above_diagonal_dep, crossed_diag>>
  BY DEF vars, input, scratch
<1>2. TypeInv' /\ PhaseInv' /\ AppliedInv' /\ CouplingInv'
  BY <1>1 DEF IInv, TypeInv, PhaseInv, AppliedInv, CouplingInv
<1>3. EliminationInv' /\ PathInv' /\ TreeInv'
  BY <1>1 DEF IInv, EliminationInv, PathInv, TreeInv
<1>4. QED
  BY <1>2, <1>3 DEF IInv

-----------------------------------------------------------------------------
(* Operators that are not invertible: columns that add up to nothing.      *)

Even(A) == Cardinality(A) % 2 = 0

(* The columns S add up to nothing. *)
Dependent(m, S) == \A q \in Qubits : Even(m[q] \cap S)

LEMMA QubitSets ==
  ASSUME NEW A \in SUBSET Qubits
  PROVE  IsFiniteSet(A) /\ Cardinality(A) \in Nat
<1>1. 0 \in Int /\ NQ - 1 \in Int
  BY QubitFacts
<1>2. IsFiniteSet(Qubits)
  BY <1>1, FS_Interval DEF Qubits
<1>3. IsFiniteSet(A)
  BY <1>2, FS_Subset
<1>4. QED
  BY <1>3, FS_CardinalityType

LEMMA DependentOrNot ==
  ASSUME NEW m \in Matrices
  PROVE  Invertible(m) <=> \A S \in (SUBSET Qubits) \ {{}} : ~Dependent(m, S)
<1>1. ASSUME NEW S \in SUBSET Qubits, NEW q \in Qubits
      PROVE  Cardinality(m[q] \cap S) % 2 = 1 <=> ~Even(m[q] \cap S)
  <2>1. Cardinality(m[q] \cap S) \in Nat
    BY QubitSets
  <2>2. PICK c \in Nat : c = Cardinality(m[q] \cap S)
    BY <2>1
  <2>3. c % 2 = 1 <=> c % 2 # 0
    OBVIOUS
  <2>4. QED
    BY <2>2, <2>3 DEF Even
<1>2. QED
  BY <1>1 DEF Invertible, Dependent

LEMMA EvenSum ==
  ASSUME NEW A \in SUBSET Qubits, NEW B \in SUBSET Qubits, Even(A), Even(B)
  PROVE  Even(Xor(A, B))
<1>1. /\ IsFiniteSet(A) /\ IsFiniteSet(B) /\ IsFiniteSet(A \ B) /\ IsFiniteSet(B \ A)
      /\ Cardinality(A) \in Nat /\ Cardinality(B) \in Nat /\ Cardinality(A \cap B) \in Nat
      /\ Cardinality(A \ B) \in Nat /\ Cardinality(B \ A) \in Nat
  BY QubitSets
<1>2. Cardinality(A \ B) = Cardinality(A) - Cardinality(A \cap B)
  BY <1>1, FS_Difference
<1>3. Cardinality(B \ A) = Cardinality(B) - Cardinality(A \cap B)
  <2>1. Cardinality(B \ A) = Cardinality(B) - Cardinality(B \cap A)
    BY <1>1, FS_Difference
  <2>2. B \cap A = A \cap B
    OBVIOUS
  <2>3. QED
    BY <2>1, <2>2
<1>4. Cardinality(Xor(A, B)) = Cardinality(A \ B) + Cardinality(B \ A)
  <2>1. (A \ B) \cap (B \ A) = {}
    OBVIOUS
  <2>2. Cardinality((A \ B) \cup (B \ A))
          = Cardinality(A \ B) + Cardinality(B \ A) - Cardinality((A \ B) \cap (B \ A))
    BY <1>1, FS_Union
  <2>3. Cardinality({}) = 0
    BY FS_EmptySet
  <2>4. QED
    BY <1>1, <2>1, <2>2, <2>3 DEF Xor
<1>5. PICK a \in Nat, b \in Nat, c \in Nat :
        a = Cardinality(A) /\ b = Cardinality(B) /\ c = Cardinality(A \cap B)
  BY <1>1
<1>6. Cardinality(Xor(A, B)) = a + b - 2 * c
  BY <1>2, <1>3, <1>4, <1>5
<1>7. a % 2 = 0 /\ b % 2 = 0
  BY <1>5 DEF Even
<1>8. (a + b - 2 * c) % 2 = 0
  BY <1>7
<1>9. QED
  BY <1>6, <1>8 DEF Even

LEMMA DependentRow ==
  ASSUME NEW m \in Matrices, NEW cx \in CNOTs, NEW S \in SUBSET Qubits, Dependent(m, S)
  PROVE  Dependent(AddRow(m, cx), S)
<1> SUFFICES ASSUME NEW q \in Qubits PROVE Even(AddRow(m, cx)[q] \cap S)
  BY DEF Dependent
<1>1. cx[1] \in Qubits /\ cx[2] \in Qubits
  BY DEF CNOTs
<1>2. CASE q # cx[2]
  <2>1. AddRow(m, cx)[q] = m[q]
    BY <1>1, <1>2 DEF AddRow, Matrices
  <2>2. QED
    BY <2>1 DEF Dependent
<1>3. CASE q = cx[2]
  <2>1. AddRow(m, cx)[q] = Xor(m[q], m[cx[1]])
    BY <1>1, <1>3 DEF AddRow, Matrices
  <2>2. Xor(m[q], m[cx[1]]) \cap S = Xor(m[q] \cap S, m[cx[1]] \cap S)
    BY DEF Xor
  <2>3. Even(m[q] \cap S) /\ Even(m[cx[1]] \cap S)
    BY <1>1 DEF Dependent
  <2>4. Even(Xor(m[q] \cap S, m[cx[1]] \cap S))
    <3>1. PICK A \in SUBSET Qubits, B \in SUBSET Qubits : A = m[q] \cap S /\ B = m[cx[1]] \cap S
      OBVIOUS
    <3>2. QED
      BY <2>3, <3>1, EvenSum
  <2>5. QED
    BY <2>1, <2>2, <2>4
<1>4. QED
  BY <1>2, <1>3

LEMMA DependentRows ==
  ASSUME NEW m \in Matrices, NEW s \in Seq(CNOTs), NEW S \in SUBSET Qubits, Dependent(m, S)
  PROVE  Dependent(AddRows(m, s), S)
<1>1. PICK h : Passes(h, m, s) /\ AddRows(m, s) = h[Len(s)]
  BY AddRowsRun
<1>2. PICK N \in Nat : N = Len(s)
  BY LenProperties
<1> DEFINE dependent == {n \in 0 .. N : Dependent(h[n], S)}
<1>3. 0 \in dependent
  BY <1>1, <1>2 DEF Passes
<1>4. ASSUME NEW n \in 0 .. N - 1, n \in dependent
      PROVE  n + 1 \in dependent
  <2>1. n \in 0 .. N /\ n + 1 \in 1 .. N /\ n + 1 \in 0 .. N /\ (n + 1) - 1 = n
    BY <1>2
  <2>2. h[n] \in Matrices /\ s[n + 1] \in CNOTs
    BY <2>1, <1>1, <1>2, ElementOfSeq DEF Passes
  <2>3. h[n + 1] = AddRow(h[n], s[n + 1])
    BY <2>1, <1>1, <1>2 DEF Passes
  <2>4. Dependent(AddRow(h[n], s[n + 1]), S)
    BY <1>4, <2>2, DependentRow
  <2>5. QED
    BY <2>1, <2>3, <2>4
<1> HIDE DEF dependent
<1>5. N \in dependent
  <2>1. \A n \in 0 .. N : n \in dependent
    BY <1>3, <1>4, Induction
  <2>2. QED
    BY <2>1
<1>6. QED
  BY <1>1, <1>2, <1>5 DEF dependent

(* CNOTs make no operator invertible, and none that is not. *)
LEMMA SameInvertible ==
  ASSUME NEW m \in Matrices, NEW s \in Seq(CNOTs)
  PROVE  Invertible(AddRows(m, s)) <=> Invertible(m)
<1>1. PICK x \in Matrices : x = AddRows(m, s)
  BY AddRowsType
<1>2. Reverse(s) \in Seq(CNOTs)
  BY ReverseFacts
<1>3. AddRows(x, Reverse(s)) = m
  BY <1>1, AddRowsReverse
<1>4. \A S \in SUBSET Qubits : Dependent(x, S) <=> Dependent(m, S)
  <2>1. ASSUME NEW S \in SUBSET Qubits, Dependent(x, S)
        PROVE  Dependent(m, S)
    BY <2>1, <1>2, <1>3, DependentRows
  <2>2. ASSUME NEW S \in SUBSET Qubits, Dependent(m, S)
        PROVE  Dependent(x, S)
    BY <2>2, <1>1, DependentRows
  <2>3. QED
    BY <2>1, <2>2
<1>5. QED
  BY <1>1, <1>4, DependentOrNot

LEMMA IdentityInvertible == Identity \in Matrices /\ Invertible(Identity)
<1>1. Identity \in Matrices
  BY DEF Identity, Matrices
<1>2. ASSUME NEW S \in (SUBSET Qubits) \ {{}}
      PROVE  ~Dependent(Identity, S)
  <2>1. PICK q \in Qubits : q \in S
    OBVIOUS
  <2>2. Identity[q] \cap S = {q}
    BY <2>1 DEF Identity
  <2>3. Cardinality({q}) = 1
    BY FS_Singleton
  <2>4. ~Even(Identity[q] \cap S)
    BY <2>2, <2>3 DEF Even
  <2>5. QED
    BY <2>4 DEF Dependent
<1>3. QED
  BY <1>1, <1>2, DependentOrNot

(* Columns up to c, and c among them, that add up to nothing in all rows   *)
(* but the first r ones.                                                   *)
AddUp(c, m, S, r) ==
  /\ S \in SUBSET Qubits /\ c \in S
  /\ \A x \in S : ~(x < r)
  /\ \A q \in Qubits : ~(q < r) => Even(m[q] \cap S)

(* One row more, with its own column if that is needed. *)
LEMMA AddUpMore ==
  ASSUME NEW m \in Matrices, NEW c \in Qubits, Lower(c, m), NEW r \in Low(c),
         NEW S, AddUp(c, m, S, r + 1)
  PROVE  \E T : AddUp(c, m, T, r)
<1>1. r \in Qubits /\ r \in Nat /\ r < c /\ \A q \in Qubits : q \in Nat
  BY QubitFacts
<1>2. S \in SUBSET Qubits /\ c \in S /\ r \notin S /\ \A x \in S : ~(x < r)
  BY <1>1 DEF AddUp
<1>3. \A q \in Qubits : ~(q < r) => (r \in m[q] <=> q = r)
  BY DEF Lower
<1>4. \A q \in Qubits : ~(q < r) /\ q # r => ~(q < r + 1)
  BY <1>1
<1>5. CASE Even(m[r] \cap S)
  <2>1. AddUp(c, m, S, r)
    BY <1>2, <1>4, <1>5 DEF AddUp
  <2>2. QED
    BY <2>1
<1>6. CASE ~Even(m[r] \cap S)
  <2>1. Even(m[r] \cap (S \cup {r}))
    <3>1. r \in m[r]
      BY <1>1, <1>3
    <3>2. m[r] \cap (S \cup {r}) = (m[r] \cap S) \cup {r} /\ r \notin m[r] \cap S
      BY <3>1, <1>2
    <3>3. PICK A \in SUBSET Qubits : A = m[r] \cap S
      BY <1>2
    <3>4. IsFiniteSet(A) /\ Cardinality(A) \in Nat
      BY QubitSets
    <3>5. Cardinality(A \cup {r}) = Cardinality(A) + 1
      BY <3>2, <3>3, <3>4, FS_AddElement
    <3>6. PICK a \in Nat : a = Cardinality(A)
      BY <3>4
    <3>7. a % 2 # 0 => (a + 1) % 2 = 0
      OBVIOUS
    <3>8. QED
      BY <1>6, <3>2, <3>3, <3>5, <3>6, <3>7 DEF Even
  <2>2. \A q \in Qubits : ~(q < r) /\ q # r => m[q] \cap (S \cup {r}) = m[q] \cap S
    BY <1>3
  <2>3. \A q \in Qubits : ~(q < r) /\ q # r => Even(m[q] \cap S)
    BY <1>4 DEF AddUp
  <2>4. \A q \in Qubits : ~(q < r) => Even(m[q] \cap (S \cup {r}))
    BY <2>1, <2>2, <2>3
  <2>5. AddUp(c, m, S \cup {r}, r)
    BY <1>1, <1>2, <2>4 DEF AddUp
  <2>6. QED
    BY <2>5
<1>7. QED
  BY <1>5, <1>6

(* A column without a pivot is a sum of columns before it.                 *)
LEMMA NothingToPivot ==
  ASSUME NEW m \in Matrices, NEW c \in Qubits, Lower(c, m),
         \A q \in Qubits : ~(q < c) => c \notin m[q]
  PROVE  ~Invertible(m)
<1>1. c \in Nat /\ \A q \in Qubits : q \in Nat
  BY QubitFacts
<1> DEFINE added == {k \in 0 .. c : \E S : AddUp(c, m, S, c - k)}
<1>2. 0 \in added
  <2>1. \A q \in Qubits : ~(q < c) => m[q] \cap {c} = {}
    OBVIOUS
  <2>2. Even({})
    BY FS_EmptySet DEF Even
  <2>3. AddUp(c, m, {c}, c)
    BY <1>1, <2>1, <2>2 DEF AddUp
  <2>4. c - 0 = c /\ 0 \in 0 .. c
    BY <1>1
  <2>5. QED
    BY <2>3, <2>4
<1>3. ASSUME NEW k \in 0 .. c - 1, k \in added
      PROVE  k + 1 \in added
  <2>1. PICK r : r = c - (k + 1)
    OBVIOUS
  <2>2. r \in Low(c) /\ r + 1 = c - k /\ k + 1 \in 0 .. c
    BY <1>1, <2>1 DEF Low
  <2>3. PICK S : AddUp(c, m, S, r + 1)
    BY <1>3, <2>2
  <2>4. \E T : AddUp(c, m, T, r)
    BY <2>2, <2>3, AddUpMore
  <2>5. QED
    BY <2>1, <2>2, <2>4
<1> HIDE DEF added
<1>4. c \in added
  <2>1. \A k \in 0 .. c : k \in added
    BY <1>1, <1>2, <1>3, Induction
  <2>2. QED
    BY <1>1, <2>1
<1>5. PICK S : AddUp(c, m, S, c - c)
  BY <1>4 DEF added
<1>6. \A q \in Qubits : ~(q < c - c)
  BY <1>1
<1>7. S \in (SUBSET Qubits) \ {{}} /\ Dependent(m, S)
  BY <1>5, <1>6 DEF AddUp, Dependent
<1>8. QED
  BY <1>7, DependentOrNot

-----------------------------------------------------------------------------
(* The inductive invariant holds of gauss_jordan, gaussian_elim and        *)
(* steiner_gauss, at the end of every column and between the phases of     *)
(* steiner_gauss.                                                          *)
THEOREM Invariance == Spec => []IInv
<1>1. IInv /\ [Next]_vars => IInv'
  BY ColumnStep, NoPivotStep, BackColumnStep, FillPathStep, ClearPathStep, UndoPathStep,
     FillTreeStep, ClearTreeStep, UndoTreeStep, ReturnStep, StutterStep DEF Next
<1>2. QED
  BY InitIInv, <1>1, PTL DEF Spec

(* The columns that are done stay done, whatever paths and trees the       *)
(* device answers with: phases 2 and 6 of steiner_gauss take back exactly  *)
(* what phases 1, 2, 4 and 5 have done to the columns before i.            *)
THEOREM DoneStaysDone == Spec => []ColumnsDone
<1>1. IInv => ColumnsDone
  <2> SUFFICES ASSUME IInv, phase \in {"column", "pivot"},
                      NEW c \in 0 .. i - 1, NEW r \in Qubits
               PROVE  (method = "elim" /\ r < c) \/ (c \in mat[r] <=> r = c)
    BY DEF ColumnsDone
  <2>1. c \in Low(i) /\ TypeInv /\ PhaseInv /\ EliminationInv /\ PathInv
    BY DEF Low, IInv
  <2>2. CASE phase = "column" /\ method = "elim"
    BY <2>1, <2>2 DEF EliminationInv, Lower
  <2>3. CASE ~(phase = "column" /\ method = "elim")
    <3>1. DoneLeft(i, mat)
      BY <2>1, <2>3 DEF EliminationInv, PathInv
    <3>2. c \in mat[r] \cap Low(i) <=> c \in {r} \cap Low(i)
      BY <3>1 DEF DoneLeft
    <3>3. QED
      BY <3>2, <2>1
  <2>4. QED
    BY <2>2, <2>3
<1>2. QED
  BY Invariance, <1>1, PTL

(* The CNOTs that gauss_jordan, gaussian_elim and steiner_gauss return     *)
(* compute the operator they were given, and none is refused that could    *)
(* have been computed.                                                     *)
THEOREM SynthesisIsCorrect == Spec => []Synthesized
<1>1. IInv => Synthesized
  <2> SUFFICES ASSUME IInv PROVE Synthesized
    OBVIOUS
  <2>1. /\ TypeInv /\ PhaseInv /\ AppliedInv /\ EliminationInv
        /\ i \in Qubits /\ mat \in Matrices /\ operator \in Matrices /\ ret \in Seq(CNOTs)
    BY TypeFacts DEF IInv
  <2>2. ASSUME phase = "returned"
        PROVE  AddRows(Identity, ret) = operator /\ Invertible(operator)
    <3>1. AddRows(Identity, ret) = operator
      BY <2>1, <2>2 DEF AppliedInv
    <3>2. Identity \in Matrices /\ Invertible(Identity)
      BY IdentityInvertible
    <3>3. QED
      BY <2>1, <3>1, <3>2, SameInvertible
  <2>3. ASSUME phase = "failed"
        PROVE  ~Invertible(operator)
    <3>1. AddRows(operator, ret) = mat
      BY <2>1, <2>3, RetApplied
    <3>2. ~Invertible(mat)
      BY <2>1, <2>3, NothingToPivot DEF EliminationInv
    <3>3. QED
      BY <2>1, <3>1, <3>2, SameInvertible
  <2>4. QED
    BY <2>2, <2>3 DEF Synthesized
<1>2. QED
  BY Invariance, <1>1, PTL

(* Every CNOT of steiner_gauss, repeated ones included, is between coupled *)
(* qubits.                                                                 *)
THEOREM OnlyOnCouplings == Spec => []OnCouplings
<1>1. IInv => OnCouplings
  <2> SUFFICES ASSUME IInv, method = "steiner", NEW n \in DOMAIN ret
               PROVE  ret[n] \in graph
    BY DEF OnCouplings
  <2>1. ret \in Seq(CNOTs) /\ Within(ret, graph)
    BY DEF IInv, TypeInv, CouplingInv
  <2>2. n \in 1 .. Len(ret)
    BY <2>1
  <2>3. QED
    BY <2>1, <2>2 DEF Within
<1>2. QED
  BY Invariance, <1>1, PTL
=============================================================================
