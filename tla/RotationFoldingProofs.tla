----------------------- MODULE RotationFoldingProofs -----------------------
(***************************************************************************)
(* Proofs about RotationFolding for every number of qubits and every set   *)
(* of programs.                                                            *)
(*                                                                         *)
(* First of the replacements: what fold deletes stays deleted, and in a    *)
(* program of which fold deletes nothing there are no two rotations that   *)
(* it could merge.  Of Paulis these use only that conjugation is a         *)
(* function.                                                               *)
(*                                                                         *)
(* Then of meanings.  The words of a canonical frame obey the same         *)
(* relations as Paulis, so that a Pauli has a word in every frame,         *)
(* products become products, and a Clifford operator, as the optimizer     *)
(* keeps it, is a change of frame.  With that, the list that the visit     *)
(* builds is the program, whatever the angles (ListIsProgram), and a       *)
(* rotation that is moved as fold moves it does not change what the list   *)
(* does, so that the program after the replacements is the program before  *)
(* (FoldingPreserves).                                                     *)
(***************************************************************************)
EXTENDS RotationFolding, FiniteSetTheorems, WellFoundedInduction, TLAPS

LEMMA LeastElement ==
  ASSUME NEW U \in SUBSET Nat, U # {}
  PROVE  \E n \in U : \A m \in U : ~(m < n)
<1>1. IsWellFoundedOn(OpToRel(<, Nat), Nat)
  BY NatLessThanWellFounded
<1>2. \E n \in U : \A m \in U : ~(<<m, n>> \in OpToRel(<, Nat))
  BY <1>1, WFMin
<1>3. QED
  BY <1>2 DEF OpToRel

(* Induction up to N, for a set in place of a predicate. *)
LEMMA Induction ==
  ASSUME NEW N \in Nat, NEW S, 0 \in S, \A n \in 0 .. N - 1 : n \in S => n + 1 \in S
  PROVE  \A n \in 0 .. N : n \in S
<1> DEFINE Missing == {n \in 0 .. N : n \notin S}
<1>1. SUFFICES ASSUME Missing # {} PROVE FALSE
  OBVIOUS
<1>2. PICK n \in Missing : \A m \in Missing : ~(m < n)
  <2>1. Missing \in SUBSET Nat
    OBVIOUS
  <2>2. QED
    BY <2>1, <1>1, LeastElement
<1>3. n - 1 \in 0 .. N - 1 /\ n - 1 \in S
  BY <1>2
<1>4. n - 1 + 1 = n
  BY <1>2
<1>5. QED
  BY <1>2, <1>3, <1>4

-----------------------------------------------------------------------------
(* Lists of elements, whatever the elements are.                           *)

IsList(s) == s \in Seq(Range(s))

LEMMA RangeOfList ==
  ASSUME NEW s, IsList(s)
  PROVE  Len(s) \in Nat /\ DOMAIN s = 1 .. Len(s) /\ \A n \in 1 .. Len(s) : s[n] \in Range(s)
BY DEF IsList, Range

LEMMA ListOver ==
  ASSUME NEW S, NEW s \in Seq(S)
  PROVE  IsList(s)
<1>1. PICK N \in Nat : N = Len(s)
  OBVIOUS
<1>2. DOMAIN s = 1 .. N /\ s = [n \in 1 .. N |-> s[n]]
  BY <1>1
<1>3. \A n \in 1 .. N : s[n] \in Range(s)
  BY <1>2 DEF Range
<1>4. QED
  BY <1>2, <1>3 DEF IsList

LEMMA EmptyList == IsList(<<>>) /\ Len(<<>>) = 0
<1>1. <<>> \in Seq({})
  OBVIOUS
<1>2. QED
  BY <1>1, ListOver

LEMMA AppendList ==
  ASSUME NEW s, IsList(s), NEW e
  PROVE  /\ IsList(Append(s, e)) /\ Len(Append(s, e)) = Len(s) + 1
         /\ Append(s, e)[Len(s) + 1] = e
         /\ \A n \in 1 .. Len(s) : Append(s, e)[n] = s[n]
<1> DEFINE S == Range(s) \cup {e}
<1>1. s \in Seq(S) /\ e \in S
  BY DEF IsList
<1> HIDE DEF S
<1>2. /\ Append(s, e) \in Seq(S) /\ Len(Append(s, e)) = Len(s) + 1
      /\ Append(s, e)[Len(s) + 1] = e
      /\ \A n \in 1 .. Len(s) : Append(s, e)[n] = s[n]
  BY <1>1
<1>3. QED
  BY <1>2, ListOver

Concatenated(whole, s, t, S) ==
  /\ whole \in Seq(S) /\ Len(whole) = Len(s) + Len(t)
  /\ \A n \in 1 .. Len(s) : whole[n] = s[n]
  /\ \A n \in 1 .. Len(t) : whole[Len(s) + n] = t[n]

LEMMA Concat ==
  ASSUME NEW S, NEW s \in Seq(S), NEW t \in Seq(S)
  PROVE  Concatenated(s \o t, s, t, S)
<1>1. s \o t \in Seq(S) /\ Len(s \o t) = Len(s) + Len(t)
  OBVIOUS
<1>2. \A n \in 1 .. Len(s) + Len(t) : (s \o t)[n] = IF n <= Len(s) THEN s[n] ELSE t[n - Len(s)]
  OBVIOUS
<1>3. \A n \in 1 .. Len(t) : Len(s) + n \in 1 .. Len(s) + Len(t) /\ ~(Len(s) + n <= Len(s))
                             /\ (Len(s) + n) - Len(s) = n
  OBVIOUS
<1>4. \A n \in 1 .. Len(s) : n \in 1 .. Len(s) + Len(t) /\ n <= Len(s)
  OBVIOUS
<1>5. QED
  BY <1>1, <1>2, <1>3, <1>4 DEF Concatenated

LEMMA AppendTwo ==
  ASSUME NEW s, IsList(s), NEW d, NEW e
  PROVE  /\ IsList(s \o <<d, e>>) /\ Len(s \o <<d, e>>) = Len(s) + 2
         /\ (s \o <<d, e>>)[Len(s) + 1] = d /\ (s \o <<d, e>>)[Len(s) + 2] = e
         /\ \A n \in 1 .. Len(s) : (s \o <<d, e>>)[n] = s[n]
<1> DEFINE S == Range(s) \cup {d, e}
<1>1. s \in Seq(S) /\ d \in S /\ e \in S
  BY DEF IsList
<1> HIDE DEF S
<1>2. PICK t : t = <<d, e>>
  OBVIOUS
<1>3. t \in Seq(S) /\ Len(t) = 2 /\ t[1] = d /\ t[2] = e
  BY <1>1, <1>2
<1>4. PICK N \in Nat : N = Len(s)
  BY <1>1
<1>5. PICK r : r = s \o t
  OBVIOUS
<1>6. /\ r \in Seq(S) /\ Len(r) = Len(s) + Len(t)
      /\ \A n \in 1 .. Len(s) : r[n] = s[n]
      /\ \A n \in 1 .. Len(t) : r[Len(s) + n] = t[n]
  <2>1. Concatenated(r, s, t, S)
    BY <1>1, <1>3, <1>5, Concat
  <2>2. QED
    BY <2>1 DEF Concatenated
<1>7. 1 \in 1 .. Len(t) /\ 2 \in 1 .. Len(t)
  BY <1>3
<1>8. r[Len(s) + 1] = d /\ r[Len(s) + 2] = e
  BY <1>3, <1>6, <1>7
<1>9. QED
  BY <1>2, <1>3, <1>5, <1>6, <1>8, ListOver

LEMMA RemoveAtList ==
  ASSUME NEW s, IsList(s), NEW k \in 1 .. Len(s)
  PROVE  /\ IsList(RemoveAt(s, k)) /\ Len(RemoveAt(s, k)) = Len(s) - 1
         /\ \A n \in 1 .. Len(s) - 1 : RemoveAt(s, k)[n] = IF n < k THEN s[n] ELSE s[n + 1]
<1>1. PICK N \in Nat : N = Len(s)
  BY RangeOfList
<1> DEFINE front == SubSeq(s, 1, k - 1)
           back == SubSeq(s, k + 1, N)
<1>2. s \in Seq(Range(s))
  BY DEF IsList
<1>3. /\ front \in Seq(Range(s)) /\ Len(front) = k - 1
      /\ \A n \in 1 .. k - 1 : front[n] = s[n]
  BY <1>1, <1>2
<1>4. /\ back \in Seq(Range(s)) /\ Len(back) = N - k
      /\ \A n \in 1 .. N - k : back[n] = s[k + n]
  BY <1>1, <1>2
<1>5. RemoveAt(s, k) = front \o back
  BY <1>1 DEF RemoveAt
<1> HIDE DEF front, back
<1>6. PICK whole : whole = front \o back
  OBVIOUS
<1>7. /\ whole \in Seq(Range(s)) /\ Len(whole) = N - 1
      /\ \A n \in 1 .. k - 1 : whole[n] = front[n]
      /\ \A n \in 1 .. N - k : whole[k - 1 + n] = back[n]
  <2>1. /\ whole \in Seq(Range(s)) /\ Len(whole) = Len(front) + Len(back)
        /\ \A n \in 1 .. Len(front) : whole[n] = front[n]
        /\ \A n \in 1 .. Len(back) : whole[Len(front) + n] = back[n]
    <3>1. Concatenated(whole, front, back, Range(s))
      BY <1>3, <1>4, <1>6, Concat
    <3>2. QED
      BY <3>1 DEF Concatenated
  <2>2. Len(front) = k - 1 /\ Len(back) = N - k /\ k - 1 + (N - k) = N - 1
    BY <1>1, <1>3, <1>4
  <2>3. QED
    BY <2>1, <2>2
<1>8. ASSUME NEW n \in 1 .. N - 1 PROVE whole[n] = IF n < k THEN s[n] ELSE s[n + 1]
  <2>1. CASE n < k
    BY <1>3, <1>7, <2>1
  <2>2. CASE ~(n < k)
    <3>1. PICK j \in 1 .. N - k : n = k - 1 + j /\ n + 1 = k + j
      <4>1. n - k + 1 \in 1 .. N - k /\ n = k - 1 + (n - k + 1) /\ n + 1 = k + (n - k + 1)
        BY <1>1, <2>2
      <4>2. QED
        BY <4>1
    <3>2. whole[n] = back[j] /\ back[j] = s[n + 1]
      BY <1>4, <1>7, <2>2, <3>1
    <3>3. QED
      BY <2>2, <3>2
  <2>3. QED
    BY <2>1, <2>2
<1>9. QED
  BY <1>1, <1>5, <1>6, <1>7, <1>8, ListOver

-----------------------------------------------------------------------------
(* The lists of rotations that the visit makes.                            *)

(* An element made for a statement before the n-th; and no two for one.    *)
IsRotation(e) == e = Rotation(e.id, e.theta, e.pauli)

Accumulated(list, n) ==
  /\ IsList(list)
  /\ \A k \in 1 .. Len(list) : list[k].kind = "rotation" =>
       IsRotation(list[k]) /\ list[k].id \in 1 .. n - 1
  /\ \A j, k \in 1 .. Len(list) :
       list[j].kind = "rotation" /\ list[k].kind = "rotation" /\ list[j].id = list[k].id => j = k

(* No rotation of one list is one of the other. *)
Apart(list, other) ==
  \A j \in 1 .. Len(list), k \in 1 .. Len(other) :
    list[j].kind = "rotation" /\ other[k].kind = "rotation" => list[j].id # other[k].id

(* The rotations from the m-th to the n-th element are still to be folded. *)
KeptIn(list, m, n) ==
  \A k \in m .. n : list[k].kind = "rotation" => replaced[list[k].id] = Kept

TypeInv ==
  /\ program \in Programs
  /\ next \in 1 .. Len(program) + 1
  /\ pc \in {"visit", "fold", "done"}
  /\ replaced = [n \in 1 .. Len(program) |-> replaced[n]]
  /\ it \in Nat /\ forward \in Nat
  /\ pc # "fold" => moving = Nothing
  /\ moving = Nothing => forward = 0

ScopeInv ==
  /\ outer # <<>> <=> Inside(program, next)
  /\ outer # <<>> =>
       /\ Accumulated(outer[1], next)
       /\ Apart(accum, outer[1])
       /\ KeptIn(outer[1], 1, Len(outer[1]))

ListInv ==
  /\ Accumulated(accum, next)
  /\ \A n \in next .. Len(program) : replaced[n] = Kept
  /\ pc = "visit" => KeptIn(accum, 1, Len(accum))

FoldInv ==
  pc = "fold" =>
    /\ next <= Len(program) => program[next].op = "leave"
    /\ it <= Len(accum)
    /\ KeptIn(accum, 2, it)
    /\ moving # Nothing =>
         /\ it > 1 /\ accum[it].kind = "rotation"
         /\ IsRotation(moving) /\ moving.id = accum[it].id
         /\ forward < it

Inv == TypeInv /\ ScopeInv /\ ListInv /\ FoldInv

LEMMA ProgramIsList ==
  ASSUME TypeInv
  PROVE  /\ IsList(program) /\ Len(program) \in Nat /\ DOMAIN program = 1 .. Len(program)
         /\ \A n \in 1 .. Len(program) :
              /\ program[n].id = n
              /\ program[n].op = "enter" => ~Inside(program, n)
              /\ program[n].op = "leave" => Inside(program, n)
         /\ ~Inside(program, Len(program) + 1)
<1>1. WellFormed(program)
  BY ProgramAssumption DEF TypeInv
<1>2. IsList(program)
  BY <1>1, ListOver DEF WellFormed
<1>3. QED
  BY <1>1, <1>2, RangeOfList DEF WellFormed

(* Entering and leaving bodies. *)
LEMMA InsideNext ==
  ASSUME NEW p, NEW n \in Nat, n > 0
  PROVE  /\ p[n].op = "enter" => Inside(p, n + 1)
         /\ p[n].op = "leave" => ~Inside(p, n + 1)
         /\ p[n].op \notin {"enter", "leave"} => (Inside(p, n + 1) <=> Inside(p, n))
<1>0. (n + 1) - 1 = n
  OBVIOUS
<1>1. ASSUME p[n].op = "enter" PROVE Inside(p, n + 1)
  <2>1. n \in 1 .. n /\ n + 1 .. n = {}
    OBVIOUS
  <2>2. QED
    BY <1>0, <1>1, <2>1 DEF Inside
<1>2. ASSUME p[n].op = "leave", Inside(p, n + 1) PROVE FALSE
  <2>1. PICK m \in 1 .. n : p[m].op = "enter" /\ \A k \in m + 1 .. n : p[k].op # "leave"
    BY <1>0, <1>2 DEF Inside
  <2>2. m # n
    BY <1>2, <2>1
  <2>3. n \in m + 1 .. n
    BY <2>2
  <2>4. QED
    BY <1>2, <2>1, <2>3
<1>3. ASSUME p[n].op \notin {"enter", "leave"}, Inside(p, n + 1) PROVE Inside(p, n)
  <2>1. PICK m \in 1 .. n : p[m].op = "enter" /\ \A k \in m + 1 .. n : p[k].op # "leave"
    BY <1>0, <1>3 DEF Inside
  <2>2. m # n
    BY <1>3, <2>1
  <2>3. m \in 1 .. n - 1 /\ \A k \in m + 1 .. n - 1 : p[k].op # "leave"
    BY <2>1, <2>2
  <2>4. QED
    BY <2>1, <2>3 DEF Inside
<1>4. ASSUME p[n].op \notin {"enter", "leave"}, Inside(p, n) PROVE Inside(p, n + 1)
  <2>1. PICK m \in 1 .. n - 1 : p[m].op = "enter" /\ \A k \in m + 1 .. n - 1 : p[k].op # "leave"
    BY <1>4 DEF Inside
  <2>2. m \in 1 .. n /\ \A k \in m + 1 .. n : k = n \/ k \in m + 1 .. n - 1
    OBVIOUS
  <2>3. \A k \in m + 1 .. n : p[k].op # "leave"
    BY <1>4, <2>1, <2>2
  <2>4. QED
    BY <1>0, <2>1, <2>2, <2>3 DEF Inside
<1>5. QED
  BY <1>1, <1>2, <1>3, <1>4

(* A list of statements before n is one of statements before n + 1. *)
LEMMA AccumulatedGrows ==
  ASSUME NEW list, NEW n \in Nat, Accumulated(list, n)
  PROVE  Accumulated(list, n + 1)
<1>1. \A x : x \in 1 .. n - 1 => x \in 1 .. (n + 1) - 1
  OBVIOUS
<1>2. QED
  BY <1>1 DEF Accumulated

(* Elements that are no rotations may be added. *)
LEMMA AddOthers ==
  ASSUME NEW list, NEW n \in Nat, Accumulated(list, n), NEW more, IsList(more),
         Len(list) <= Len(more), \A k \in 1 .. Len(list) : more[k] = list[k],
         \A k \in Len(list) + 1 .. Len(more) : more[k].kind # "rotation"
  PROVE  /\ Accumulated(more, n)
         /\ \A k \in 1 .. Len(more) : more[k].kind = "rotation" =>
              k \in 1 .. Len(list) /\ more[k] = list[k]
<1>1. Len(list) \in Nat /\ Len(more) \in Nat
  BY RangeOfList DEF Accumulated
<1>2. \A k \in 1 .. Len(more) : k \in 1 .. Len(list) \/ k \in Len(list) + 1 .. Len(more)
  BY <1>1
<1>3. \A k \in 1 .. Len(more) : more[k].kind = "rotation" =>
        k \in 1 .. Len(list) /\ more[k] = list[k]
  BY <1>2
<1>4. QED
  BY <1>3 DEF Accumulated

-----------------------------------------------------------------------------
LEMMA InitInv == Init => Inv
<1> SUFFICES ASSUME Init PROVE Inv
  OBVIOUS
<1>1. WellFormed(program)
  BY ProgramAssumption DEF Init
<1>2. Len(program) \in Nat /\ DOMAIN program = 1 .. Len(program)
  BY <1>1, RangeOfList DEF WellFormed, IsList
<1>3. replaced = [n \in 1 .. Len(program) |-> Kept]
  BY <1>2 DEF Init
<1>4. TypeInv
  BY <1>2, <1>3 DEF Init, TypeInv
<1>5. ~Inside(program, 1)
  BY DEF Inside
<1>6. ScopeInv
  BY <1>5 DEF Init, ScopeInv
<1>7. ListInv
  <2>1. IsList(accum) /\ Len(accum) = 0
    BY EmptyList DEF Init
  <2>2. Accumulated(accum, next) /\ KeptIn(accum, 1, Len(accum))
    BY <2>1 DEF Accumulated, KeptIn
  <2>3. \A n \in next .. Len(program) : replaced[n] = Kept
    BY <1>2, <1>3 DEF Init
  <2>4. QED
    BY <2>2, <2>3 DEF ListInv
<1>8. FoldInv
  BY DEF Init, FoldInv
<1>9. QED
  BY <1>4, <1>6, <1>7, <1>8 DEF Inv

(* What the visit of a statement leaves. *)
LEMMA VisitInv ==
  ASSUME Inv, Visit
  PROVE  Inv'
<1> DEFINE s == program[next]
<1>1. /\ pc = "visit" /\ next <= Len(program) /\ next' = next + 1
      /\ program' = program /\ pc' = pc /\ it' = it /\ forward' = forward
      /\ moving' = moving /\ replaced' = replaced
      /\ VisitClifford(s) \/ VisitRotation(s) \/ VisitOther(s) \/ EnterGate(s)
  BY DEF Visit
<1>2. /\ next \in 1 .. Len(program) /\ Len(program) \in Nat /\ s.id = next
      /\ s.op = "leave" => Inside(program, next)
      /\ s.op = "enter" => ~Inside(program, next)
  BY <1>1, ProgramIsList DEF Inv, TypeInv
<1>3. TypeInv'
  BY <1>1, <1>2 DEF Inv, TypeInv
<1>4. FoldInv'
  BY <1>1 DEF FoldInv
<1>5. replaced[next] = Kept /\ \A n \in next + 1 .. Len(program) : replaced[n] = Kept
  BY <1>2 DEF Inv, ListInv
<1>6. Accumulated(accum, next) /\ Accumulated(accum, next + 1) /\ Len(accum) \in Nat
      /\ KeptIn(accum, 1, Len(accum))
  BY <1>1, <1>2, AccumulatedGrows, RangeOfList DEF Inv, ListInv, Accumulated
<1>7. outer # <<>> => Accumulated(outer[1], next + 1) /\ Apart(accum, outer[1])
                      /\ KeptIn(outer[1], 1, Len(outer[1]))
  BY <1>2, AccumulatedGrows DEF Inv, ScopeInv
<1> HIDE DEF s
<1>8. CASE VisitClifford(s)
  <2>1. s.op \notin {"enter", "leave"} /\ accum' = accum /\ outer' = outer
    BY <1>8 DEF VisitClifford, CliffordGates
  <2>2. Inside(program, next + 1) <=> Inside(program, next)
    BY <1>2, <2>1, InsideNext DEF s
  <2>3. ScopeInv'
    BY <1>1, <1>7, <2>1, <2>2 DEF Inv, ScopeInv, KeptIn
  <2>4. ListInv'
    BY <1>1, <1>5, <1>6, <2>1 DEF ListInv, KeptIn
  <2>5. QED
    BY <1>3, <1>4, <2>3, <2>4 DEF Inv
<1>9. CASE VisitRotation(s)
  <2>1. PICK pauli : pauli = Conjugate(clifford, On(s.args[1], s.axis))
    OBVIOUS
  <2>2. PICK e : e = Rotation(next, s.theta, pauli)
    OBVIOUS
  <2>3. s.op \notin {"enter", "leave"} /\ accum' = Append(accum, e) /\ outer' = outer
    BY <1>2, <1>9, <2>1, <2>2 DEF VisitRotation
  <2>4. e.kind = "rotation" /\ e.id = next /\ IsRotation(e)
    BY <2>2 DEF Rotation, IsRotation
  <2>5. /\ IsList(accum') /\ Len(accum') = Len(accum) + 1 /\ accum'[Len(accum) + 1] = e
        /\ \A n \in 1 .. Len(accum) : accum'[n] = accum[n]
        /\ \A n \in 1 .. Len(accum') : n \in 1 .. Len(accum) \/ n = Len(accum) + 1
    BY <1>6, <2>3, AppendList DEF Accumulated
  <2>6. /\ \A n \in 1 .. Len(accum) : accum[n].kind = "rotation" =>
              accum[n].id \in 1 .. next - 1 /\ IsRotation(accum[n])
        /\ \A x \in 1 .. next - 1 : x # next /\ x \in 1 .. (next + 1) - 1
        /\ next \in 1 .. (next + 1) - 1
    BY <1>2, <1>6 DEF Accumulated
  <2>7. \A n \in 1 .. Len(accum') : accum'[n].kind = "rotation" =>
          IsRotation(accum'[n]) /\ accum'[n].id \in 1 .. (next + 1) - 1
    BY <2>4, <2>5, <2>6
  <2>8. ASSUME NEW j \in 1 .. Len(accum'), NEW k \in 1 .. Len(accum'),
               accum'[j].kind = "rotation", accum'[k].kind = "rotation", accum'[j].id = accum'[k].id
        PROVE  j = k
    <3>1. CASE j \in 1 .. Len(accum) /\ k \in 1 .. Len(accum)
      <4>1. accum'[j] = accum[j] /\ accum'[k] = accum[k]
        BY <2>5, <3>1
      <4>2. QED
        BY <1>6, <2>8, <3>1, <4>1 DEF Accumulated
    <3>2. CASE ~(j \in 1 .. Len(accum) /\ k \in 1 .. Len(accum))
      BY <2>4, <2>5, <2>6, <2>8, <3>2
    <3>3. QED
      BY <3>1, <3>2
  <2>9. Accumulated(accum', next + 1)
    <3>1. IsList(accum')
      BY <2>5
    <3>2. \A j, k \in 1 .. Len(accum') :
            accum'[j].kind = "rotation" /\ accum'[k].kind = "rotation"
              /\ accum'[j].id = accum'[k].id => j = k
      BY <2>8
    <3>3. QED
      BY <2>7, <3>1, <3>2 DEF Accumulated
  <2>10. \A n \in 1 .. Len(accum') : accum'[n].kind = "rotation" => replaced[accum'[n].id] = Kept
    BY <1>5, <1>6, <2>4, <2>5 DEF KeptIn
  <2>11. ListInv'
    BY <1>1, <1>5, <2>9, <2>10 DEF ListInv, KeptIn
  <2>12. Inside(program, next + 1) <=> Inside(program, next)
    BY <1>2, <2>3, InsideNext DEF s
  <2>13. outer # <<>> => Apart(accum', outer[1])
    <3> SUFFICES ASSUME outer # <<>>, NEW j \in 1 .. Len(accum'), NEW k \in 1 .. Len(outer[1]),
                        accum'[j].kind = "rotation", outer[1][k].kind = "rotation"
                 PROVE  accum'[j].id # outer[1][k].id
      BY DEF Apart
    <3>1. Accumulated(outer[1], next) /\ Apart(accum, outer[1])
      BY DEF Inv, ScopeInv
    <3>2. outer[1][k].id \in 1 .. next - 1
      BY <3>1 DEF Accumulated
    <3>3. CASE j \in 1 .. Len(accum)
      <4>1. accum'[j] = accum[j]
        BY <2>5, <3>3
      <4>2. QED
        BY <3>1, <3>3, <4>1 DEF Apart
    <3>4. CASE j = Len(accum) + 1
      BY <2>4, <2>5, <2>6, <3>2, <3>4
    <3>5. QED
      BY <2>5, <3>3, <3>4
  <2>14. ScopeInv'
    BY <1>1, <1>7, <2>3, <2>12, <2>13 DEF Inv, ScopeInv, KeptIn
  <2>15. QED
    BY <1>3, <1>4, <2>11, <2>14 DEF Inv
<1>10. CASE VisitOther(s)
  <2>1. PICK c : c = CliffordOp(clifford)
    OBVIOUS
  <2>2. PICK u : u = Uninterp(s)
    OBVIOUS
  <2>3. s.op \notin {"enter", "leave"} /\ accum' = accum \o <<c, u>> /\ outer' = outer
    BY <1>10, <2>1, <2>2 DEF VisitOther, PushUninterp, CliffordGates
  <2>4. c.kind # "rotation" /\ u.kind # "rotation"
    BY <2>1, <2>2 DEF CliffordOp, Uninterp
  <2>5. /\ IsList(accum') /\ Len(accum') = Len(accum) + 2
        /\ accum'[Len(accum) + 1] = c /\ accum'[Len(accum) + 2] = u
        /\ \A n \in 1 .. Len(accum) : accum'[n] = accum[n]
    BY <1>6, <2>3, AppendTwo DEF Accumulated
  <2>6. Len(accum) <= Len(accum')
        /\ \A k \in Len(accum) + 1 .. Len(accum') : accum'[k].kind # "rotation"
    <3>1. \A k \in Len(accum) + 1 .. Len(accum') : k = Len(accum) + 1 \/ k = Len(accum) + 2
      BY <1>6, <2>5
    <3>2. QED
      BY <1>6, <2>4, <2>5, <3>1
  <2>7. /\ Accumulated(accum', next + 1)
        /\ \A k \in 1 .. Len(accum') : accum'[k].kind = "rotation" =>
             k \in 1 .. Len(accum) /\ accum'[k] = accum[k]
    BY <1>2, <1>6, <2>5, <2>6, AddOthers
  <2>8. ListInv'
    BY <1>1, <1>5, <1>6, <2>7 DEF ListInv, KeptIn
  <2>9. Inside(program, next + 1) <=> Inside(program, next)
    BY <1>2, <2>3, InsideNext DEF s
  <2>10. outer # <<>> => Apart(accum', outer[1])
    BY <1>7, <2>7 DEF Apart
  <2>11. ScopeInv'
    BY <1>1, <1>7, <2>3, <2>9, <2>10 DEF Inv, ScopeInv, KeptIn
  <2>12. QED
    BY <1>3, <1>4, <2>8, <2>11 DEF Inv
<1>11. CASE EnterGate(s)
  <2>1. s.op = "enter" /\ outer' = <<accum, clifford>> /\ accum' = <<>>
    BY <1>11 DEF EnterGate
  <2>2. outer' # <<>> /\ outer'[1] = accum
    BY <2>1
  <2>3. Inside(program, next + 1)
    BY <1>2, <2>1, InsideNext DEF s
  <2>4. IsList(accum') /\ Len(accum') = 0
    BY <2>1, EmptyList
  <2>5. Apart(accum', accum) /\ Accumulated(accum', next + 1)
    BY <2>4 DEF Apart, Accumulated
  <2>6. ScopeInv'
    BY <1>1, <1>6, <2>2, <2>3, <2>5 DEF ScopeInv, KeptIn
  <2>7. ListInv'
    BY <1>1, <1>5, <2>4, <2>5 DEF ListInv, KeptIn
  <2>8. QED
    BY <1>3, <1>4, <2>6, <2>7 DEF Inv
<1>12. QED
  BY <1>1, <1>8, <1>9, <1>10, <1>11 DEF s

LEMMA StartFoldInv ==
  ASSUME Inv, StartFold
  PROVE  Inv'
<1>1. PICK e : e = CliffordOp(clifford)
  OBVIOUS
<1>2. /\ pc = "visit" /\ AtEnd /\ pc' = "fold" /\ accum' = Append(accum, e) /\ it' = Len(accum')
      /\ program' = program /\ next' = next /\ outer' = outer /\ forward' = forward
      /\ moving' = moving /\ replaced' = replaced /\ moving = Nothing
  BY <1>1 DEF StartFold, Inv, TypeInv
<1>3. Accumulated(accum, next) /\ KeptIn(accum, 1, Len(accum)) /\ next \in Nat /\ Len(accum) \in Nat
  BY <1>2, ProgramIsList, RangeOfList DEF Inv, ListInv, TypeInv, Accumulated
<1>4. /\ IsList(accum') /\ Len(accum') = Len(accum) + 1 /\ accum'[Len(accum) + 1] = e
      /\ \A n \in 1 .. Len(accum) : accum'[n] = accum[n]
  BY <1>2, <1>3, AppendList DEF Accumulated
<1>5. e.kind # "rotation"
  BY <1>1 DEF CliffordOp
<1>6. /\ Accumulated(accum', next)
      /\ \A k \in 1 .. Len(accum') : accum'[k].kind = "rotation" =>
           k \in 1 .. Len(accum) /\ accum'[k] = accum[k]
  <2>1. Len(accum) <= Len(accum')
        /\ \A k \in Len(accum) + 1 .. Len(accum') : accum'[k].kind # "rotation"
    BY <1>3, <1>4, <1>5
  <2>2. QED
    BY <1>3, <1>4, <2>1, AddOthers
<1>7. TypeInv' /\ Len(accum') \in Nat
  BY <1>2, <1>3, <1>4 DEF Inv, TypeInv
<1>8. ScopeInv'
  <2>1. outer # <<>> => Apart(accum', outer[1])
    BY <1>6 DEF Inv, ScopeInv, Apart
  <2>2. QED
    BY <1>2, <2>1 DEF Inv, ScopeInv, KeptIn
<1>9. ListInv'
  BY <1>2, <1>6 DEF Inv, ListInv
<1>10. FoldInv'
  <2>1. \A k \in 2 .. Len(accum') : k \in 1 .. Len(accum')
    OBVIOUS
  <2>2. \A k \in 2 .. Len(accum') :
          accum'[k].kind = "rotation" => replaced'[accum'[k].id] = Kept
    BY <1>2, <1>3, <1>6, <2>1 DEF KeptIn
  <2>3. next <= Len(program) => program[next].op = "leave"
    BY <1>2 DEF AtEnd
  <2>4. QED
    BY <1>2, <1>7, <2>2, <2>3 DEF FoldInv, KeptIn
<1>11. QED
  BY <1>7, <1>8, <1>9, <1>10 DEF Inv

LEMMA SkipElementInv ==
  ASSUME Inv, SkipElement
  PROVE  Inv'
<1>1. /\ pc = "fold" /\ moving = Nothing /\ it > 0 /\ it' = it - 1 /\ it \in Nat /\ it <= Len(accum)
      /\ UNCHANGED <<program, next, pc, accum, clifford, outer, forward, moving, replaced>>
      /\ Len(accum) \in Nat
  BY RangeOfList DEF SkipElement, Folding, Inv, TypeInv, FoldInv, ListInv, Accumulated
<1>2. TypeInv'
  BY <1>1 DEF Inv, TypeInv
<1>3. ScopeInv' /\ ListInv'
  BY <1>1 DEF Inv, ScopeInv, ListInv, KeptIn
<1>4. FoldInv'
  <2>1. \A k \in 2 .. it - 1 : k \in 2 .. it
    BY <1>1
  <2>2. KeptIn(accum, 2, it - 1)
    BY <1>1, <2>1 DEF Inv, FoldInv, KeptIn
  <2>3. QED
    BY <1>1, <2>2 DEF Inv, FoldInv, KeptIn
<1>5. QED
  BY <1>2, <1>3, <1>4 DEF Inv

LEMMA TakeRotationInv ==
  ASSUME Inv, TakeRotation
  PROVE  Inv'
<1>1. /\ pc = "fold" /\ moving = Nothing /\ it > 1 /\ it \in Nat /\ it <= Len(accum)
      /\ accum[it].kind = "rotation" /\ moving' = accum[it] /\ forward' = it - 1
      /\ UNCHANGED <<program, next, pc, accum, clifford, outer, it, replaced>>
      /\ Len(accum) \in Nat
  BY RangeOfList DEF TakeRotation, Folding, Inv, TypeInv, FoldInv, ListInv, Accumulated
<1>2. IsRotation(accum[it])
  <2>1. it \in 1 .. Len(accum)
    BY <1>1
  <2>2. QED
    BY <1>1, <2>1 DEF Inv, ListInv, Accumulated
<1>3. moving' # Nothing
  BY <1>1 DEF Nothing
<1>4. TypeInv'
  BY <1>1, <1>3 DEF Inv, TypeInv
<1>5. ScopeInv' /\ ListInv'
  BY <1>1 DEF Inv, ScopeInv, ListInv, KeptIn
<1>6. FoldInv'
  BY <1>1, <1>2, <1>3 DEF Inv, FoldInv, KeptIn
<1>7. QED
  BY <1>4, <1>5, <1>6 DEF Inv

LEMMA EndFoldInv ==
  ASSUME Inv, EndFold
  PROVE  Inv'
<1>1. /\ pc = "fold" /\ moving = Nothing /\ it' = 0 /\ forward = 0
      /\ program' = program /\ forward' = forward /\ moving' = moving /\ replaced' = replaced
      /\ Len(program) \in Nat /\ next \in 1 .. Len(program) + 1
  BY ProgramIsList DEF EndFold, Folding, Inv, TypeInv
<1>2. CASE next > Len(program)
  <2>1. pc' = "done" /\ UNCHANGED <<next, accum, clifford, outer>>
    BY <1>2 DEF EndFold
  <2>2. QED
    BY <1>1, <2>1 DEF Inv, TypeInv, ScopeInv, ListInv, FoldInv, KeptIn
<1>3. CASE ~(next > Len(program))
  <2>1. pc' = "visit" /\ next' = next + 1 /\ accum' = outer[1] /\ outer' = <<>>
    BY <1>3 DEF EndFold
  <2>2. program[next].op = "leave" /\ next \in 1 .. Len(program)
    BY <1>1, <1>3 DEF Inv, FoldInv
  <2>3. Inside(program, next) /\ ~Inside(program, next + 1)
    BY <1>1, <2>2, ProgramIsList, InsideNext DEF Inv
  <2>4. /\ outer # <<>> /\ Accumulated(outer[1], next) /\ KeptIn(outer[1], 1, Len(outer[1]))
    BY <2>3 DEF Inv, ScopeInv
  <2>5. Accumulated(outer[1], next + 1)
    BY <1>1, <2>4, AccumulatedGrows
  <2>6. \A n \in next + 1 .. Len(program) : replaced[n] = Kept
    BY <1>1 DEF Inv, ListInv
  <2>7. TypeInv'
    BY <1>1, <2>1, <2>2 DEF Inv, TypeInv
  <2>8. ScopeInv' /\ FoldInv'
    BY <1>1, <2>1, <2>3 DEF ScopeInv, FoldInv
  <2>9. ListInv'
    BY <1>1, <2>1, <2>4, <2>5, <2>6 DEF ListInv, KeptIn
  <2>10. QED
    BY <2>7, <2>8, <2>9 DEF Inv
<1>4. QED
  BY <1>2, <1>3

(* The rotation in hand, and those met. *)
LEMMA InHand ==
  ASSUME Inv, moving # Nothing
  PROVE  /\ pc = "fold" /\ it \in Nat /\ it > 1 /\ it <= Len(accum) /\ Len(accum) \in Nat
         /\ forward \in Nat /\ forward < it
         /\ accum[it].kind = "rotation" /\ moving.id = accum[it].id /\ IsRotation(moving)
         /\ moving.id \in 1 .. next - 1 /\ next - 1 <= Len(program)
         /\ Len(program) \in Nat /\ next \in Nat
         /\ replaced[moving.id] = Kept
<1>1. /\ pc = "fold" /\ it \in Nat /\ it > 1 /\ it <= Len(accum) /\ Len(accum) \in Nat
      /\ forward \in Nat /\ forward < it
      /\ accum[it].kind = "rotation" /\ moving.id = accum[it].id /\ IsRotation(moving)
      /\ KeptIn(accum, 2, it)
  BY RangeOfList DEF Inv, TypeInv, FoldInv, ListInv, Accumulated
<1>2. it \in 1 .. Len(accum) /\ it \in 2 .. it
  BY <1>1
<1>3. moving.id \in 1 .. next - 1
  BY <1>1, <1>2 DEF Inv, ListInv, Accumulated
<1>4. replaced[moving.id] = Kept
  BY <1>1, <1>2 DEF KeptIn
<1>5. Len(program) \in Nat /\ next \in 1 .. Len(program) + 1
  BY ProgramIsList DEF Inv, TypeInv
<1>6. QED
  BY <1>1, <1>3, <1>4, <1>5

LEMMA PassInv ==
  ASSUME Inv, Pass
  PROVE  Inv'
<1>1. /\ forward > 0 /\ forward' = forward - 1 /\ forward \in Nat
      /\ UNCHANGED <<program, next, pc, accum, clifford, outer, it, replaced>>
      /\ \/ moving' = moving
         \/ \E P : moving' = [moving EXCEPT !.pauli = P]
  BY DEF Pass, Meets, Inv, TypeInv
<1>2. /\ moving # Nothing /\ pc = "fold" /\ it > 1 /\ accum[it].kind = "rotation"
      /\ IsRotation(moving) /\ moving.id = accum[it].id /\ forward < it
  BY <1>1 DEF Inv, TypeInv, FoldInv
<1>3. moving' # Nothing /\ IsRotation(moving)' /\ moving'.id = moving.id
  <2>1. moving.kind = "rotation"
    BY <1>2 DEF IsRotation, Rotation
  <2>2. CASE moving' = moving
    BY <1>2, <2>2 DEF IsRotation
  <2>3. ASSUME NEW P, moving' = [moving EXCEPT !.pauli = P]
        PROVE  moving' # Nothing /\ IsRotation(moving') /\ moving'.id = moving.id
    <3>1. moving' = Rotation(moving.id, moving.theta, P)
      BY <1>2, <2>3 DEF IsRotation, Rotation
    <3>2. QED
      BY <3>1 DEF IsRotation, Rotation, Nothing
  <2>4. QED
    BY <1>1, <2>2, <2>3
<1>4. TypeInv'
  BY <1>1, <1>2, <1>3 DEF Inv, TypeInv
<1>5. ScopeInv' /\ ListInv'
  BY <1>1 DEF Inv, ScopeInv, ListInv, KeptIn
<1>6. FoldInv'
  <2>1. /\ next <= Len(program) => program[next].op = "leave"
        /\ it <= Len(accum) /\ KeptIn(accum, 2, it)
    BY <1>2 DEF Inv, FoldInv
  <2>2. KeptIn(accum, 2, it)'
    BY <1>1, <2>1 DEF KeptIn
  <2>3. forward' < it
    BY <1>1, <1>2, InHand
  <2>4. QED
    BY <1>1, <1>2, <1>3, <2>1, <2>2, <2>3 DEF FoldInv
<1>7. QED
  BY <1>4, <1>5, <1>6 DEF Inv

(* Writing the angle of one rotation, and no other, leaves the others.     *)
OnlyAt(m, n) ==
  /\ replaced' = [k \in 1 .. Len(program) |-> replaced'[k]]
  /\ \A k \in 1 .. Len(program) : k \notin {m, n} => replaced'[k] = replaced[k]

LEMMA OthersKept ==
  ASSUME Inv, NEW m \in 1 .. next - 1, NEW n \in 1 .. next - 1, OnlyAt(m, n)
  PROVE  /\ \A k \in next .. Len(program) : replaced'[k] = Kept
         /\ outer # <<>> /\ (\A k \in 1 .. Len(outer[1]) :
                               outer[1][k].kind = "rotation" => outer[1][k].id \notin {m, n})
              => \A k \in 1 .. Len(outer[1]) :
                   outer[1][k].kind = "rotation" => replaced'[outer[1][k].id] = Kept
<1>1. Len(program) \in Nat /\ next \in 1 .. Len(program) + 1
  BY ProgramIsList DEF Inv, TypeInv
<1>2. \A k \in next .. Len(program) : k \in 1 .. Len(program) /\ k \notin {m, n}
  BY <1>1
<1>3. \A k \in next .. Len(program) : replaced'[k] = Kept
  BY <1>2 DEF OnlyAt, Inv, ListInv
<1>4. ASSUME outer # <<>>, NEW k \in 1 .. Len(outer[1]), outer[1][k].kind = "rotation",
             outer[1][k].id \notin {m, n}
      PROVE  replaced'[outer[1][k].id] = Kept
  <2>1. replaced[outer[1][k].id] = Kept
    BY <1>4 DEF Inv, ScopeInv, KeptIn
  <2>2. outer[1][k].id \in 1 .. next - 1
    BY <1>4 DEF Inv, ScopeInv, Accumulated
  <2>3. outer[1][k].id \in 1 .. Len(program)
    BY <1>1, <2>2
  <2>4. QED
    BY <1>4, <2>1, <2>3 DEF OnlyAt
<1>5. QED
  BY <1>3, <1>4

LEMMA StopInv ==
  ASSUME Inv, Stop
  PROVE  /\ Inv'
         /\ \A n \in 1 .. Len(program) : replaced[n] = 0 => replaced'[n] = 0
<1>1. /\ moving # Nothing /\ replaced' = Settle(moving, replaced) /\ it' = it - 1
      /\ moving' = Nothing /\ forward' = 0
      /\ UNCHANGED <<program, next, pc, accum, clifford, outer>>
  BY DEF Stop
<1>2. /\ pc = "fold" /\ it \in Nat /\ it > 1 /\ it <= Len(accum) /\ Len(accum) \in Nat
      /\ accum[it].kind = "rotation" /\ moving.id = accum[it].id
      /\ moving.id \in 1 .. next - 1 /\ next - 1 <= Len(program)
      /\ Len(program) \in Nat /\ next \in Nat /\ replaced[moving.id] = Kept
  BY <1>1, InHand
<1>3. OnlyAt(moving.id, moving.id)
  <2>1. replaced = [k \in 1 .. Len(program) |-> replaced[k]]
    BY DEF Inv, TypeInv
  <2>2. replaced' = replaced \/ replaced' = [replaced EXCEPT ![moving.id] = moving.theta]
    BY <1>1 DEF Settle
  <2>3. QED
    BY <2>1, <2>2 DEF OnlyAt
<1>4. ASSUME NEW n \in 1 .. Len(program), replaced[n] = 0 PROVE replaced'[n] = 0
  <2>1. n # moving.id
    BY <1>2, <1>4 DEF Kept
  <2>2. QED
    BY <1>3, <1>4, <2>1 DEF OnlyAt
<1>5. TypeInv'
  BY <1>1, <1>2, <1>3 DEF Inv, TypeInv, OnlyAt
<1>6. \A k \in next .. Len(program) : replaced'[k] = Kept
  BY <1>2, <1>3, OthersKept
<1>7. ScopeInv'
  <2>1. ASSUME outer # <<>>
        PROVE  \A k \in 1 .. Len(outer[1]) :
                 outer[1][k].kind = "rotation" => replaced'[outer[1][k].id] = Kept
    <3>1. Apart(accum, outer[1]) /\ it \in 1 .. Len(accum)
      BY <1>2, <2>1 DEF Inv, ScopeInv
    <3>2. \A k \in 1 .. Len(outer[1]) :
            outer[1][k].kind = "rotation" => outer[1][k].id \notin {moving.id, moving.id}
      BY <1>2, <3>1 DEF Apart
    <3>3. QED
      BY <1>2, <1>3, <2>1, <3>2, OthersKept
  <2>2. QED
    BY <1>1, <2>1 DEF Inv, ScopeInv, KeptIn
<1>8. ListInv'
  BY <1>1, <1>2, <1>6 DEF Inv, ListInv
<1>9. FoldInv'
  <2>1. ASSUME NEW k \in 2 .. it - 1, accum[k].kind = "rotation"
        PROVE  replaced'[accum[k].id] = Kept
    <3>1. k \in 2 .. it /\ k # it /\ k \in 1 .. Len(accum) /\ it \in 1 .. Len(accum)
      BY <1>2
    <3>2. accum[k].id # moving.id /\ accum[k].id \in 1 .. next - 1
      BY <1>2, <2>1, <3>1 DEF Inv, ListInv, Accumulated
    <3>3. accum[k].id \in 1 .. Len(program)
      BY <1>2, <3>2
    <3>4. replaced[accum[k].id] = Kept
      BY <1>2, <2>1, <3>1 DEF Inv, FoldInv, KeptIn
    <3>5. QED
      BY <1>3, <3>2, <3>3, <3>4 DEF OnlyAt
  <2>2. QED
    BY <1>1, <1>2, <2>1 DEF Inv, FoldInv, KeptIn
<1>10. QED
  BY <1>4, <1>5, <1>7, <1>8, <1>9 DEF Inv

(* The list after a merge: the rotation met is gone, or it is the first. *)
LEMMA ErasedList ==
  ASSUME Inv, moving # Nothing, Meets("rotation"), NEW list, list = ErasedFrom(forward)
  PROVE  /\ Accumulated(list, next)
         /\ it - 1 - (Len(accum) - Len(list)) \in Nat
         /\ it - 1 - (Len(accum) - Len(list)) <= Len(list)
         /\ \A k \in 1 .. Len(list) : \E j \in 1 .. Len(accum) : list[k] = accum[j]
         /\ \A k \in 2 .. it - 1 - (Len(accum) - Len(list)) :
              \E j \in 2 .. it - 1 : j # forward /\ list[k] = accum[j]
<1>1. /\ it \in Nat /\ it > 1 /\ it <= Len(accum) /\ Len(accum) \in Nat
      /\ forward \in Nat /\ forward < it /\ forward > 0
  BY InHand DEF Meets
<1>2. Accumulated(accum, next)
  BY DEF Inv, ListInv
<1>3. CASE forward = 1
  <2>1. list = accum
    BY <1>3 DEF ErasedFrom
  <2>2. it - 1 - (Len(accum) - Len(list)) = it - 1
    BY <1>1, <2>1
  <2>3. QED
    BY <1>1, <1>2, <1>3, <2>1, <2>2
<1>4. CASE forward # 1
  <2>1. list = RemoveAt(accum, forward) /\ forward \in 1 .. Len(accum) /\ IsList(accum)
    BY <1>1, <1>2, <1>4 DEF ErasedFrom, Accumulated
  <2>2. /\ IsList(list) /\ Len(list) = Len(accum) - 1
        /\ \A n \in 1 .. Len(accum) - 1 : list[n] = IF n < forward THEN accum[n] ELSE accum[n + 1]
    BY <2>1, RemoveAtList
  <2>3. it - 1 - (Len(accum) - Len(list)) = it - 2 /\ it - 2 \in Nat
    BY <1>1, <1>4, <2>2
  <2> DEFINE old(k) == IF k < forward THEN k ELSE k + 1
  <2>4. \A k \in 1 .. Len(list) : old(k) \in 1 .. Len(accum) /\ list[k] = accum[old(k)]
    BY <1>1, <2>1, <2>2
  <2>5. \A j, k \in 1 .. Len(list) : old(j) = old(k) => j = k
    BY <1>1, <2>2
  <2>6. \A k \in 2 .. it - 2 : old(k) \in 2 .. it - 1 /\ old(k) # forward /\ k \in 1 .. Len(list)
    BY <1>1, <2>2
  <2> HIDE DEF old
  <2>7. Accumulated(list, next)
    <3>1. \A k \in 1 .. Len(list) : list[k].kind = "rotation" =>
            IsRotation(list[k]) /\ list[k].id \in 1 .. next - 1
      BY <1>2, <2>4 DEF Accumulated
    <3>2. ASSUME NEW j \in 1 .. Len(list), NEW k \in 1 .. Len(list),
                 list[j].kind = "rotation", list[k].kind = "rotation", list[j].id = list[k].id
          PROVE  j = k
      <4>1. old(j) = old(k)
        BY <1>2, <2>4, <3>2 DEF Accumulated
      <4>2. QED
        BY <2>5, <4>1
    <3>3. QED
      BY <2>2, <3>1, <3>2 DEF Accumulated
  <2>8. /\ it - 1 - (Len(accum) - Len(list)) \in Nat
        /\ it - 1 - (Len(accum) - Len(list)) <= Len(list)
    BY <1>1, <2>2, <2>3
  <2>9. \A k \in 1 .. Len(list) : \E j \in 1 .. Len(accum) : list[k] = accum[j]
    BY <2>4
  <2>10. \A k \in 2 .. it - 2 : \E j \in 2 .. it - 1 : j # forward /\ list[k] = accum[j]
    BY <2>4, <2>6
  <2>11. QED
    BY <2>3, <2>7, <2>8, <2>9, <2>10
<1>5. QED
  BY <1>3, <1>4

LEMMA MergeInv ==
  ASSUME Inv, Merge
  PROVE  /\ Inv'
         /\ \A n \in 1 .. Len(program) : replaced[n] = 0 => replaced'[n] = 0
         /\ \E n \in 1 .. Len(program) : replaced'[n] = 0
<1>1. /\ Meets("rotation") /\ accum' = ErasedFrom(forward)
      /\ it' = it - 1 - (Len(accum) - Len(accum'))
      /\ moving' = Nothing /\ forward' = 0
      /\ UNCHANGED <<program, next, pc, clifford, outer>>
  BY DEF Merge
<1>2. moving # Nothing
  BY <1>1 DEF Meets, Inv, TypeInv
<1>3. /\ pc = "fold" /\ it \in Nat /\ it > 1 /\ it <= Len(accum) /\ Len(accum) \in Nat
      /\ forward \in Nat /\ forward < it /\ IsRotation(moving)
      /\ accum[it].kind = "rotation" /\ moving.id = accum[it].id
      /\ moving.id \in 1 .. next - 1 /\ next - 1 <= Len(program)
      /\ Len(program) \in Nat /\ next \in Nat /\ replaced[moving.id] = Kept
  BY <1>2, InHand
<1>4. PICK P : P = accum[forward]
  OBVIOUS
<1>5. /\ forward \in 1 .. Len(accum) /\ it \in 1 .. Len(accum) /\ P.kind = "rotation"
      /\ P.id \in 1 .. next - 1 /\ P.id # moving.id
  <2>1. forward \in 1 .. Len(accum) /\ it \in 1 .. Len(accum) /\ forward # it /\ P.kind = "rotation"
    BY <1>1, <1>3, <1>4 DEF Meets
  <2>2. QED
    BY <1>3, <1>4, <2>1 DEF Inv, ListInv, Accumulated
<1>6. PICK R : /\ R = [moving EXCEPT !.theta = MergedAngle(moving, P)]
               /\ replaced' = Settle(R, [replaced EXCEPT ![P.id] = 0])
  BY <1>4 DEF Merge
<1>7. R.id = moving.id
  BY <1>3, <1>6 DEF IsRotation, Rotation
<1>8. P.id \in 1 .. Len(program) /\ moving.id \in 1 .. Len(program)
  BY <1>3, <1>5
<1>9. OnlyAt(moving.id, P.id) /\ replaced'[P.id] = 0
  <2>1. replaced = [k \in 1 .. Len(program) |-> replaced[k]]
    BY DEF Inv, TypeInv
  <2>2. PICK list : list = [replaced EXCEPT ![P.id] = 0]
    OBVIOUS
  <2>3. /\ list = [k \in 1 .. Len(program) |-> list[k]] /\ list[P.id] = 0
        /\ \A k \in 1 .. Len(program) : k # P.id => list[k] = replaced[k]
    BY <1>8, <2>1, <2>2
  <2>4. replaced' = list \/ replaced' = [list EXCEPT ![moving.id] = R.theta]
    BY <1>6, <1>7, <2>2 DEF Settle
  <2>5. QED
    BY <1>5, <1>8, <2>3, <2>4 DEF OnlyAt
<1>10. ASSUME NEW n \in 1 .. Len(program), replaced[n] = 0 PROVE replaced'[n] = 0
  <2>1. n # moving.id
    BY <1>3, <1>10 DEF Kept
  <2>2. QED
    BY <1>9, <1>10, <2>1 DEF OnlyAt
<1>11. /\ Accumulated(accum', next) /\ it' \in Nat /\ it' <= Len(accum')
       /\ \A k \in 1 .. Len(accum') : \E j \in 1 .. Len(accum) : accum'[k] = accum[j]
       /\ \A k \in 2 .. it' : \E j \in 2 .. it - 1 : j # forward /\ accum'[k] = accum[j]
  BY <1>1, <1>2, ErasedList
<1>12. TypeInv'
  BY <1>1, <1>3, <1>9, <1>11 DEF Inv, TypeInv, OnlyAt
<1>13. \A k \in next .. Len(program) : replaced'[k] = Kept
  BY <1>3, <1>5, <1>9, OthersKept
<1>14. ScopeInv'
  <2>1. ASSUME outer # <<>>
        PROVE  /\ \A k \in 1 .. Len(outer[1]) :
                    outer[1][k].kind = "rotation" => replaced'[outer[1][k].id] = Kept
               /\ Apart(accum', outer[1])
    <3>1. Apart(accum, outer[1])
      BY <2>1 DEF Inv, ScopeInv
    <3>2. \A k \in 1 .. Len(outer[1]) :
            outer[1][k].kind = "rotation" => outer[1][k].id \notin {moving.id, P.id}
      BY <1>3, <1>4, <1>5, <3>1 DEF Apart
    <3>3. Apart(accum', outer[1])
      BY <1>11, <3>1 DEF Apart
    <3>4. QED
      BY <1>3, <1>5, <1>9, <2>1, <3>2, <3>3, OthersKept
  <2>2. QED
    BY <1>1, <2>1 DEF Inv, ScopeInv, KeptIn
<1>15. ListInv'
  BY <1>1, <1>3, <1>11, <1>13 DEF Inv, ListInv
<1>16. FoldInv'
  <2>1. ASSUME NEW k \in 2 .. it', accum'[k].kind = "rotation"
        PROVE  replaced'[accum'[k].id] = Kept
    <3>1. PICK j \in 2 .. it - 1 : j # forward /\ accum'[k] = accum[j]
      BY <1>11
    <3>2. j \in 2 .. it /\ j # it /\ j \in 1 .. Len(accum) /\ accum[j].kind = "rotation"
      BY <1>3, <2>1, <3>1
    <3>3. accum[j].id \notin {moving.id, P.id} /\ accum[j].id \in 1 .. next - 1
      BY <1>3, <1>4, <1>5, <3>1, <3>2 DEF Inv, ListInv, Accumulated
    <3>4. accum[j].id \in 1 .. Len(program)
      BY <1>3, <3>3
    <3>5. replaced[accum[j].id] = Kept
      BY <1>3, <3>2 DEF Inv, FoldInv, KeptIn
    <3>6. QED
      BY <1>9, <3>1, <3>3, <3>4, <3>5 DEF OnlyAt
  <2>2. QED
    BY <1>1, <1>3, <1>11, <2>1 DEF Inv, FoldInv, KeptIn
<1>17. QED
  BY <1>8, <1>9, <1>10, <1>12, <1>14, <1>15, <1>16 DEF Inv

LEMMA UnchangedInv ==
  ASSUME Inv, UNCHANGED vars
  PROVE  Inv'
BY DEF vars, Inv, TypeInv, ScopeInv, ListInv, FoldInv, KeptIn

LEMMA NextInv == Inv /\ [Next]_vars => Inv'
BY VisitInv, StartFoldInv, SkipElementInv, TakeRotationInv, EndFoldInv, MergeInv, PassInv,
   StopInv, UnchangedInv DEF Next

(* The lists and the replacements fit together in every state of visit and *)
(* fold: no rotation is in the list twice, in the list of the main program *)
(* and in that of a gate body; and none that fold has yet to come to has   *)
(* been replaced, but perhaps the first, which it does not come to.        *)
THEOREM ListsAreRight == Spec => []Inv
BY InitInv, NextInv, PTL DEF Spec

LEMMA DeletedStays ==
  Inv /\ [Next]_vars => \A n \in DOMAIN replaced : replaced[n] = 0 => replaced'[n] = 0
<1> SUFFICES ASSUME Inv, [Next]_vars, NEW n \in DOMAIN replaced, replaced[n] = 0
             PROVE  replaced'[n] = 0
  OBVIOUS
<1>1. n \in 1 .. Len(program)
  BY DEF Inv, TypeInv
<1>2. CASE Merge
  BY <1>1, <1>2, MergeInv
<1>3. CASE Stop
  BY <1>1, <1>3, StopInv
<1>4. CASE Visit \/ StartFold \/ SkipElement \/ TakeRotation \/ EndFold \/ Pass \/ UNCHANGED vars
  <2>1. replaced' = replaced
    BY <1>4 DEF Visit, StartFold, SkipElement, TakeRotation, EndFold, Pass, vars
  <2>2. QED
    BY <2>1
<1>5. QED
  BY <1>2, <1>3, <1>4 DEF Next

(* A gate that was deleted because another one was merged into it never    *)
(* comes back, although its rotation may still be in the list.             *)
THEOREM DeletionIsFinal == Spec => DeletedStaysDeleted
<1>1. Inv /\ [Next]_vars => [\A n \in DOMAIN replaced : replaced[n] = 0 => replaced'[n] = 0]_vars
  BY DeletedStays
<1>2. QED
  BY <1>1, ListsAreRight, PTL DEF Spec, DeletedStaysDeleted

-----------------------------------------------------------------------------
(* What a rotation is on its way to the front of a list.                   *)

OnTheWay(f, list, m, k) ==
  IF k = 0 THEN list[m].pauli ELSE Past(list[m - k], f[k - 1])

IsWay(f, list, m, N) == f = [k \in 0 .. N |-> OnTheWay(f, list, m, k)]

LEMMA WayExists ==
  ASSUME NEW list, NEW m, NEW N \in Nat
  PROVE  \E f : IsWay(f, list, m, N)
<1> DEFINE reached == {n \in 0 .. N : \E f : IsWay(f, list, m, n)}
<1>1. 0 \in reached
  <2> DEFINE f == [k \in 0 .. 0 |-> list[m].pauli]
  <2>1. f = [k \in 0 .. 0 |-> OnTheWay(f, list, m, k)]
    <3>1. \A k \in 0 .. 0 : OnTheWay(f, list, m, k) = list[m].pauli
      BY DEF OnTheWay
    <3>2. QED
      BY <3>1
  <2>2. IsWay(f, list, m, 0)
    BY <2>1 DEF IsWay
  <2>3. QED
    BY <2>2
<1>2. \A n \in 0 .. N - 1 : n \in reached => n + 1 \in reached
  <2> SUFFICES ASSUME NEW n \in 0 .. N - 1, n \in reached PROVE n + 1 \in reached
    OBVIOUS
  <2>1. PICK f : IsWay(f, list, m, n)
    OBVIOUS
  <2> DEFINE last == Past(list[m - (n + 1)], f[n])
             g == [k \in 0 .. n + 1 |-> IF k <= n THEN f[k] ELSE last]
  <2>2. ASSUME NEW k \in 0 .. n + 1 PROVE g[k] = OnTheWay(g, list, m, k)
    <3>1. CASE k <= n
      <4>1. k \in 0 .. n /\ (k # 0 => k - 1 \in 0 .. n + 1 /\ k - 1 <= n)
        BY <3>1
      <4>2. f[k] = OnTheWay(f, list, m, k)
        BY <2>1, <4>1 DEF IsWay
      <4>3. g[k] = f[k] /\ (k # 0 => g[k - 1] = f[k - 1])
        BY <3>1, <4>1
      <4>4. QED
        BY <4>2, <4>3 DEF OnTheWay
    <3>2. CASE ~(k <= n)
      <4>1. k = n + 1 /\ k - 1 = n /\ n \in 0 .. n + 1 /\ k # 0
        BY <3>2
      <4>2. g[k] = last /\ g[n] = f[n]
        BY <3>2, <4>1
      <4>3. QED
        BY <4>1, <4>2 DEF OnTheWay
    <3>3. QED
      BY <3>1, <3>2
  <2>3. g = [k \in 0 .. n + 1 |-> g[k]]
    OBVIOUS
  <2> HIDE DEF g
  <2>4. g = [k \in 0 .. n + 1 |-> OnTheWay(g, list, m, k)]
    BY <2>2, <2>3
  <2>5. IsWay(g, list, m, n + 1)
    BY <2>4 DEF IsWay
  <2>6. QED
    BY <2>5
<1> HIDE DEF reached
<1>3. \A n \in 0 .. N : n \in reached
  BY <1>1, <1>2, Induction
<1>4. QED
  BY <1>3 DEF reached

LEMMA MovedIsWay ==
  ASSUME NEW list, NEW m, NEW n, NEW N \in Nat, N = m - 1 - n
  PROVE  \E f : IsWay(f, list, m, N) /\ Moved(list, m, n) = f[N]
<1> DEFINE past == CHOOSE past : past = [k \in 0 .. m - 1 - n |->
                     IF k = 0 THEN list[m].pauli ELSE Past(list[m - k], past[k - 1])]
<1>1. Moved(list, m, n) = past[m - 1 - n]
  BY DEF Moved
<1>2. \E f : IsWay(f, list, m, N)
  BY WayExists
<1>3. IsWay(past, list, m, N)
  BY <1>2 DEF IsWay, OnTheWay
<1>4. QED
  BY <1>1, <1>3

LEMMA WaysAgree ==
  ASSUME NEW list, NEW m, NEW M \in Nat, NEW N \in Nat, M <= N,
         NEW f, IsWay(f, list, m, M), NEW g, IsWay(g, list, m, N)
  PROVE  f[M] = g[M]
<1> DEFINE same == {k \in 0 .. M : f[k] = g[k]}
<1>1. /\ \A k \in 0 .. M : f[k] = OnTheWay(f, list, m, k)
      /\ \A k \in 0 .. N : g[k] = OnTheWay(g, list, m, k)
  BY DEF IsWay
<1>2. 0 \in same
  <2>1. 0 \in 0 .. M /\ 0 \in 0 .. N
    OBVIOUS
  <2>2. QED
    BY <1>1, <2>1 DEF OnTheWay
<1>3. \A k \in 0 .. M - 1 : k \in same => k + 1 \in same
  <2> SUFFICES ASSUME NEW k \in 0 .. M - 1, k \in same PROVE k + 1 \in same
    OBVIOUS
  <2>1. k + 1 \in 0 .. M /\ k + 1 \in 0 .. N /\ (k + 1) - 1 = k /\ k + 1 # 0
    OBVIOUS
  <2>2. /\ f[k + 1] = Past(list[m - (k + 1)], f[k])
        /\ g[k + 1] = Past(list[m - (k + 1)], g[k])
    BY <1>1, <2>1 DEF OnTheWay
  <2>3. QED
    BY <2>1, <2>2
<1> HIDE DEF same
<1>4. \A k \in 0 .. M : k \in same
  BY <1>2, <1>3, Induction
<1>5. M \in 0 .. M
  OBVIOUS
<1>6. QED
  BY <1>4, <1>5 DEF same

LEMMA MovedStarts ==
  ASSUME NEW list, NEW m \in Nat
  PROVE  Moved(list, m, m - 1) = list[m].pauli
<1>1. PICK N \in Nat : N = 0 /\ N = m - 1 - (m - 1)
  OBVIOUS
<1>2. PICK f : IsWay(f, list, m, N) /\ Moved(list, m, m - 1) = f[N]
  BY <1>1, MovedIsWay
<1>3. f[0] = OnTheWay(f, list, m, 0)
  BY <1>1, <1>2 DEF IsWay
<1>4. QED
  BY <1>1, <1>2, <1>3 DEF OnTheWay

LEMMA MovedGoesOn ==
  ASSUME NEW list, NEW m \in Nat, NEW n \in 1 .. m - 1
  PROVE  Moved(list, m, n - 1) = Past(list[n], Moved(list, m, n))
<1>1. PICK N \in Nat : N = m - 1 - n
  OBVIOUS
<1>2. PICK M \in Nat : M = N + 1
  OBVIOUS
<1>3. M = m - 1 - (n - 1) /\ M - 1 = N /\ N <= M /\ m - M = n /\ M \in 0 .. M /\ M # 0
  BY <1>1, <1>2
<1>4. PICK f : IsWay(f, list, m, N) /\ Moved(list, m, n) = f[N]
  BY <1>1, MovedIsWay
<1>5. PICK g : IsWay(g, list, m, M) /\ Moved(list, m, n - 1) = g[M]
  BY <1>3, MovedIsWay
<1>6. f[N] = g[N]
  BY <1>3, <1>4, <1>5, WaysAgree
<1>7. g[M] = OnTheWay(g, list, m, M)
  BY <1>3, <1>5 DEF IsWay
<1>8. g[M] = Past(list[n], g[N])
  BY <1>3, <1>7 DEF OnTheWay
<1>9. QED
  BY <1>4, <1>5, <1>6, <1>8

-----------------------------------------------------------------------------
(* As long as nothing is deleted, the list of the main program stays as it *)
(* is, and fold has tried each pair of rotations behind it.                *)

FoldingProgram ==
  /\ next > Len(program) /\ pc # "visit"
  /\ \A n \in DOMAIN replaced : replaced[n] # 0

TriedInv ==
  /\ pc = "done" => next > Len(program) /\ it = 0
  /\ FoldingProgram =>
       /\ \A m \in it + 1 .. Len(accum) : \A n \in 1 .. m - 1 : ~Mergeable(accum, m, n)
       /\ moving # Nothing =>
            /\ moving.pauli = Moved(accum, it, forward)
            /\ \A n \in forward + 1 .. it - 1 : ~Mergeable(accum, it, n)

(* Another element may be skipped, and a rotation that is stopped is not   *)
(* merged with anything from there to the front.                           *)
LEMMA NoRotation ==
  ASSUME NEW list, NEW m, list[m].kind # "rotation"
  PROVE  \A n : ~Mergeable(list, m, n)
BY DEF Mergeable

LEMMA Stopped ==
  ASSUME NEW list, NEW m \in Nat, NEW k \in 1 .. m - 1,
         \/ list[k].kind = "rotation" /\ ~Commute(Moved(list, m, k), list[k].pauli)
         \/ list[k].kind = "uninterp" /\ ~TrivialOn(Moved(list, m, k), Range(list[k].qubits))
  PROVE  \A n \in 1 .. k - 1 : ~Mergeable(list, m, n)
<1> SUFFICES ASSUME NEW n \in 1 .. k - 1, Mergeable(list, m, n) PROVE FALSE
  OBVIOUS
<1>1. k \in n + 1 .. m - 1
  OBVIOUS
<1>2. QED
  BY <1>1 DEF Mergeable

LEMMA TriedOthers ==
  ASSUME Inv, TriedInv, Visit \/ StartFold \/ SkipElement \/ TakeRotation \/ EndFold
  PROVE  TriedInv'
<1>0. Len(program) \in Nat /\ next \in Nat /\ Len(accum) \in Nat /\ it \in Nat
  BY ProgramIsList, RangeOfList DEF Inv, TypeInv, ListInv, Accumulated
<1>1. CASE Visit
  BY <1>1 DEF Visit, TriedInv, FoldingProgram
<1>2. CASE StartFold
  <2>1. /\ pc' = "fold" /\ it' = Len(accum') /\ moving' = moving /\ moving = Nothing
    BY <1>2 DEF StartFold, Inv, TypeInv
  <2>2. Len(accum') \in Nat
    BY <1>2, StartFoldInv, RangeOfList DEF Inv, ListInv, Accumulated
  <2>3. it' + 1 .. Len(accum') = {}
    BY <2>1, <2>2
  <2>4. QED
    BY <2>1, <2>3 DEF TriedInv
<1>3. CASE SkipElement
  <2>1. /\ pc = "fold" /\ it > 0 /\ it' = it - 1 /\ accum[it].kind # "rotation" /\ moving = Nothing
        /\ UNCHANGED <<program, next, pc, accum, moving, replaced>>
    BY <1>3 DEF SkipElement, Folding
  <2>2. \A m \in it - 1 + 1 .. Len(accum) : m = it \/ m \in it + 1 .. Len(accum)
    BY <1>0, <2>1
  <2>3. \A n : ~Mergeable(accum, it, n)
    BY <2>1, NoRotation
  <2>4. FoldingProgram' => FoldingProgram
    BY <2>1 DEF FoldingProgram
  <2>5. FoldingProgram => \A m \in it - 1 + 1 .. Len(accum) : \A n \in 1 .. m - 1 : ~Mergeable(accum, m, n)
    BY <2>2, <2>3 DEF TriedInv
  <2>6. QED
    BY <2>1, <2>4, <2>5 DEF TriedInv
<1>4. CASE TakeRotation
  <2>1. /\ it > 1 /\ moving' = accum[it] /\ forward' = it - 1 /\ pc = "fold"
        /\ UNCHANGED <<program, next, pc, accum, it, replaced>>
    BY <1>4 DEF TakeRotation, Folding
  <2>2. Moved(accum, it, it - 1) = accum[it].pauli
    BY <1>0, MovedStarts
  <2>3. it - 1 + 1 .. it - 1 = {}
    BY <1>0
  <2>4. FoldingProgram' => FoldingProgram
    BY <2>1 DEF FoldingProgram
  <2>5. FoldingProgram => \A m \in it + 1 .. Len(accum) : \A n \in 1 .. m - 1 : ~Mergeable(accum, m, n)
    BY DEF TriedInv
  <2>6. QED
    BY <2>1, <2>2, <2>3, <2>4, <2>5 DEF TriedInv
<1>5. CASE EndFold
  <2>1. /\ pc = "fold" /\ moving = Nothing /\ it \in {0, 1} /\ it' = 0
        /\ UNCHANGED <<program, moving, replaced>>
    BY <1>5 DEF EndFold, Folding
  <2>2. CASE next > Len(program)
    <3>1. pc' = "done" /\ UNCHANGED <<next, accum>>
      BY <1>5, <2>2 DEF EndFold
    <3>2. \A m \in 0 + 1 .. Len(accum) : m = 1 \/ m \in it + 1 .. Len(accum)
      BY <1>0, <2>1
    <3>3. 1 .. 1 - 1 = {}
      OBVIOUS
    <3>4. FoldingProgram' => FoldingProgram
      BY <2>1, <3>1 DEF FoldingProgram
    <3>5. FoldingProgram => \A m \in 0 + 1 .. Len(accum) : \A n \in 1 .. m - 1 : ~Mergeable(accum, m, n)
      BY <3>2, <3>3 DEF TriedInv
    <3>6. QED
      BY <2>1, <2>2, <3>1, <3>4, <3>5 DEF TriedInv
  <2>3. CASE ~(next > Len(program))
    <3>1. pc' = "visit"
      BY <1>5, <2>3 DEF EndFold
    <3>2. QED
      BY <3>1 DEF TriedInv, FoldingProgram
  <2>4. QED
    BY <2>2, <2>3
<1>6. QED
  BY <1>1, <1>2, <1>3, <1>4, <1>5

LEMMA TriedPass ==
  ASSUME Inv, TriedInv, Pass
  PROVE  TriedInv'
<1>1. /\ forward > 0 /\ forward' = forward - 1
      /\ UNCHANGED <<program, next, pc, accum, it, replaced>>
  BY DEF Pass, Meets
<1>2. moving # Nothing
  BY <1>1 DEF Inv, TypeInv
<1>3. /\ it \in Nat /\ it > 1 /\ forward \in Nat /\ forward < it /\ IsRotation(moving) /\ pc = "fold"
  BY <1>2, InHand
<1>4. FoldingProgram' => FoldingProgram
  BY <1>1 DEF FoldingProgram
<1>5. ASSUME FoldingProgram
      PROVE  /\ \A m \in it + 1 .. Len(accum) : \A n \in 1 .. m - 1 : ~Mergeable(accum, m, n)
             /\ moving.pauli = Moved(accum, it, forward)
             /\ \A n \in forward + 1 .. it - 1 : ~Mergeable(accum, it, n)
  BY <1>2, <1>5 DEF TriedInv
<1>6. ASSUME FoldingProgram
      PROVE  moving'.pauli = Moved(accum, it, forward - 1) /\ ~Mergeable(accum, it, forward)
  <2>0. forward \in 1 .. it - 1
    BY <1>1, <1>3
  <2>1. Moved(accum, it, forward - 1) = Past(accum[forward], moving.pauli)
    BY <1>3, <1>5, <1>6, <2>0, MovedGoesOn
  <2>2. CASE accum[forward].kind = "rotation" /\ ~CanMerge(moving, accum[forward]) /\ moving' = moving
    BY <1>5, <1>6, <2>1, <2>2 DEF Past, Mergeable, CanMerge
  <2>3. CASE accum[forward].kind = "uninterp" /\ moving' = moving
    BY <2>1, <2>3 DEF Past, Mergeable
  <2>4. CASE accum[forward].kind = "clifford"
               /\ moving' = [moving EXCEPT !.pauli = Conjugate(accum[forward].map, @)]
    <3>1. moving'.pauli = Conjugate(accum[forward].map, moving.pauli)
      BY <1>3, <2>4 DEF IsRotation, Rotation
    <3>2. QED
      BY <2>1, <2>4, <3>1 DEF Past, Mergeable
  <2>5. QED
    BY <2>2, <2>3, <2>4 DEF Pass, Meets
<1>7. \A n \in forward - 1 + 1 .. it - 1 : n = forward \/ n \in forward + 1 .. it - 1
  BY <1>1, <1>3
<1>8. ASSUME FoldingProgram
      PROVE  \A n \in forward - 1 + 1 .. it - 1 : ~Mergeable(accum, it, n)
  BY <1>5, <1>6, <1>7, <1>8
<1>9. QED
  BY <1>1, <1>3, <1>4, <1>5, <1>6, <1>8 DEF TriedInv

LEMMA TriedStop ==
  ASSUME Inv, TriedInv, Stop
  PROVE  TriedInv'
<1>1. /\ moving # Nothing /\ it' = it - 1 /\ moving' = Nothing
      /\ UNCHANGED <<program, next, pc, accum>>
  BY DEF Stop
<1>2. /\ it \in Nat /\ it > 1 /\ it <= Len(accum) /\ Len(accum) \in Nat
      /\ forward \in Nat /\ forward < it /\ pc = "fold"
  BY <1>1, InHand
<1>3. FoldingProgram' => FoldingProgram
  <2>1. /\ replaced = [n \in 1 .. Len(program) |-> replaced[n]]
        /\ replaced' = [n \in 1 .. Len(program) |-> replaced'[n]]
        /\ \A n \in 1 .. Len(program) : replaced[n] = 0 => replaced'[n] = 0
    BY <1>1, StopInv DEF Inv, TypeInv
  <2>2. DOMAIN replaced = 1 .. Len(program) /\ DOMAIN replaced' = 1 .. Len(program)
    BY <2>1
  <2>3. QED
    BY <1>1, <2>1, <2>2 DEF FoldingProgram
<1>4. ASSUME FoldingProgram
      PROVE  \A n \in 1 .. it - 1 : ~Mergeable(accum, it, n)
  <2>1. /\ moving.pauli = Moved(accum, it, forward)
        /\ \A n \in forward + 1 .. it - 1 : ~Mergeable(accum, it, n)
    BY <1>1, <1>4 DEF TriedInv
  <2>2. CASE forward = 0
    BY <2>1, <2>2
  <2>3. CASE forward # 0
    <3>1. forward \in 1 .. it - 1
      BY <1>2, <2>3
    <3>2. ~Mergeable(accum, it, forward)
      BY <2>1, <2>3 DEF Stop, Meets, CanMerge, Mergeable
    <3>3. \/ accum[forward].kind = "rotation" /\ ~Commute(Moved(accum, it, forward), accum[forward].pauli)
          \/ accum[forward].kind = "uninterp"
               /\ ~TrivialOn(Moved(accum, it, forward), Range(accum[forward].qubits))
      BY <2>1, <2>3 DEF Stop, Meets
    <3>4. \A n \in 1 .. forward - 1 : ~Mergeable(accum, it, n)
      BY <1>2, <3>1, <3>3, Stopped
    <3>5. \A n \in 1 .. it - 1 : n \in 1 .. forward - 1 \/ n = forward \/ n \in forward + 1 .. it - 1
      BY <1>2, <3>1
    <3>6. QED
      BY <2>1, <3>2, <3>4, <3>5
  <2>4. QED
    BY <2>2, <2>3
<1>5. \A m \in it - 1 + 1 .. Len(accum) : m = it \/ m \in it + 1 .. Len(accum)
  BY <1>2
<1>6. ASSUME FoldingProgram
      PROVE  \A m \in it - 1 + 1 .. Len(accum) : \A n \in 1 .. m - 1 : ~Mergeable(accum, m, n)
  BY <1>4, <1>5, <1>6 DEF TriedInv
<1>7. QED
  BY <1>1, <1>2, <1>3, <1>6 DEF TriedInv

LEMMA NextTried == Inv /\ TriedInv /\ [Next]_vars => TriedInv'
<1> SUFFICES ASSUME Inv, TriedInv, [Next]_vars PROVE TriedInv'
  OBVIOUS
<1>1. CASE Merge
  <2>1. PICK n \in 1 .. Len(program) : replaced'[n] = 0
    BY <1>1, MergeInv
  <2>2. replaced' = [k \in 1 .. Len(program) |-> replaced'[k]] /\ pc' = pc /\ pc = "fold"
    BY <1>1, MergeInv, InHand DEF Merge, Meets, Inv, TypeInv
  <2>3. ~FoldingProgram'
    <3>1. n \in DOMAIN replaced'
      BY <2>2
    <3>2. QED
      BY <2>1, <3>1 DEF FoldingProgram
  <2>4. QED
    BY <2>2, <2>3 DEF TriedInv
<1>2. CASE UNCHANGED vars
  BY <1>2 DEF vars, TriedInv, FoldingProgram
<1>3. QED
  BY <1>1, <1>2, TriedOthers, TriedPass, TriedStop DEF Next

LEMMA InitTried == Init => TriedInv
BY DEF Init, TriedInv, FoldingProgram

(* If fold has deleted no gate, there were no two rotations to merge: each *)
(* pair is stopped by something between the two, or is about different     *)
(* Paulis where they meet.                                                 *)
THEOREM EveryMergeIsTried == Spec => []NothingOverlooked
<1>1. Inv /\ TriedInv => NothingOverlooked
  <2> SUFFICES ASSUME Inv, TriedInv, pc = "done", \A n \in DOMAIN replaced : replaced[n] # 0
               PROVE  \A m \in DOMAIN accum : \A n \in 1 .. m - 1 : ~Mergeable(accum, m, n)
    BY DEF NothingOverlooked
  <2>1. FoldingProgram
    BY DEF TriedInv, FoldingProgram
  <2>2. DOMAIN accum = 1 .. Len(accum) /\ Len(accum) \in Nat
    BY RangeOfList DEF Inv, ListInv, Accumulated
  <2>3. QED
    BY <2>1, <2>2 DEF TriedInv
<1>2. QED
  BY <1>1, ListsAreRight, InitTried, NextTried, PTL DEF Spec

(* Finite sets of operators, and words of them.                            *)
Ops   == {S \in SUBSET (Names \X Nat) : IsFiniteSet(S)}
Words == [x : Ops, z : Ops, phase : 0 .. 3]

v ** w == WordProduct(v, w)
Idle   == Word({}, {})

Overlap(A, B) == Cardinality(A \cap B) % 2
Beta(v, w)    == Overlap(v.z, w.x)

LEMMA XorFacts ==
  ASSUME NEW A \in Ops, NEW B \in Ops
  PROVE  /\ XorOf(A, B) \in Ops
         /\ A \cap B \in Ops
<1>1. A \cap B \subseteq A /\ XorOf(A, B) \subseteq A \cup B
  BY DEF XorOf
<1>2. IsFiniteSet(A) /\ IsFiniteSet(A \cup B)
  BY FS_Union DEF Ops
<1>3. QED
  BY <1>1, <1>2, FS_Subset DEF Ops

LEMMA HalfOdd ==
  ASSUME NEW a \in Nat, NEW b \in Nat, NEW c \in Nat
  PROVE  (a + b) % 2 = (((a + c) % 2) + ((b + c) % 2)) % 2
OBVIOUS

LEMMA TwiceMod ==
  ASSUME NEW p \in 0 .. 3, NEW q \in 0 .. 3, NEW a \in Nat
  PROVE  (p + q + 2 * a) % 4 = (p + q + 2 * (a % 2)) % 4
OBVIOUS

LEMMA Parts ==
  ASSUME NEW A, NEW B, IsFiniteSet(A), IsFiniteSet(B), A \cap B = {}
  PROVE  /\ IsFiniteSet(A \cup B)
         /\ Cardinality(A) \in Nat /\ Cardinality(B) \in Nat
         /\ Cardinality(A \cup B) = Cardinality(A) + Cardinality(B)
<1>1. IsFiniteSet(A \cup B) /\ Cardinality(A \cup B) = Cardinality(A) + Cardinality(B) - 0
  BY FS_Union, FS_EmptySet
<1>2. PICK a : a = Cardinality(A)
  OBVIOUS
<1>3. PICK b : b = Cardinality(B)
  OBVIOUS
<1>4. a \in Nat /\ b \in Nat
  BY <1>2, <1>3, FS_CardinalityType
<1>5. a + b - 0 = a + b
  BY <1>4
<1>6. QED
  BY <1>1, <1>2, <1>3, <1>4, <1>5

LEMMA CardNat ==
  ASSUME NEW A \in Ops
  PROVE  Cardinality(A) \in Nat
BY FS_CardinalityType DEF Ops

LEMMA CardXor ==
  ASSUME NEW A \in Ops, NEW B \in Ops
  PROVE  /\ Cardinality(A) \in Nat /\ Cardinality(B) \in Nat /\ Cardinality(XorOf(A, B)) \in Nat
         /\ Cardinality(XorOf(A, B)) % 2 = ((Cardinality(A) % 2) + (Cardinality(B) % 2)) % 2
<1>1. PICK C : C = A \cap B
  OBVIOUS
<1>2. PICK D : D = A \ B
  OBVIOUS
<1>3. PICK E : E = B \ A
  OBVIOUS
<1>4. IsFiniteSet(C) /\ IsFiniteSet(D) /\ IsFiniteSet(E)
  BY <1>1, <1>2, <1>3, FS_Subset DEF Ops
<1>5. A = D \cup C /\ B = E \cup C /\ XorOf(A, B) = D \cup E
  BY <1>1, <1>2, <1>3 DEF XorOf
<1>6. D \cap C = {} /\ E \cap C = {} /\ D \cap E = {}
  BY <1>1, <1>2, <1>3
<1>7. /\ Cardinality(D) \in Nat /\ Cardinality(C) \in Nat /\ Cardinality(E) \in Nat
      /\ Cardinality(D \cup C) = Cardinality(D) + Cardinality(C)
      /\ Cardinality(E \cup C) = Cardinality(E) + Cardinality(C)
      /\ Cardinality(D \cup E) = Cardinality(D) + Cardinality(E)
  BY <1>4, <1>6, Parts
<1>8. PICK c \in Nat : c = Cardinality(C)
  BY <1>7
<1>9. PICK d \in Nat : d = Cardinality(D)
  BY <1>7
<1>10. PICK e \in Nat : e = Cardinality(E)
  BY <1>7
<1>11. Cardinality(A) = d + c /\ Cardinality(B) = e + c /\ Cardinality(XorOf(A, B)) = d + e
  BY <1>5, <1>7, <1>8, <1>9, <1>10
<1>12. d + c \in Nat /\ e + c \in Nat /\ d + e \in Nat /\ (d + e) % 2 = (((d + c) % 2) + ((e + c) % 2)) % 2
  BY HalfOdd
<1>13. QED
  BY <1>11, <1>12

LEMMA IdleWord == Idle \in Words /\ Idle.x = {} /\ Idle.z = {} /\ Idle.phase = 0
<1>1. {} \in Ops
  BY FS_EmptySet DEF Ops
<1>2. QED
  BY <1>1 DEF Idle, Word, Words

LEMMA PhasedWord ==
  ASSUME NEW v \in Words, NEW n \in 0 .. 3
  PROVE  /\ TimesI(v, n) \in Words
         /\ TimesI(v, n).x = v.x /\ TimesI(v, n).z = v.z /\ TimesI(v, n).phase = (v.phase + n) % 4
<1>1. TimesI(v, n) = [x |-> v.x, z |-> v.z, phase |-> (v.phase + n) % 4]
  BY DEF TimesI, Words
<1>2. v.x \in Ops /\ v.z \in Ops /\ (v.phase + n) % 4 \in 0 .. 3
  BY DEF Words
<1>3. QED
  BY <1>1, <1>2 DEF Words

LEMMA WordTypes ==
  ASSUME NEW v \in Words, NEW w \in Words
  PROVE  /\ v ** w \in Words
         /\ Cardinality(v.z \cap w.x) \in Nat /\ Beta(v, w) \in 0 .. 1
         /\ (v ** w).x = XorOf(v.x, w.x) /\ (v ** w).z = XorOf(v.z, w.z)
         /\ (v ** w).phase = (v.phase + w.phase + 2 * Beta(v, w)) % 4
<1>1. v.x \in Ops /\ v.z \in Ops /\ v.phase \in 0 .. 3 /\ w.x \in Ops /\ w.z \in Ops /\ w.phase \in 0 .. 3
  BY DEF Words
<1>2. XorOf(v.x, w.x) \in Ops /\ XorOf(v.z, w.z) \in Ops
  BY <1>1, XorFacts
<1>3. Cardinality(v.z \cap w.x) \in Nat
  BY <1>1, XorFacts, CardNat
<1>4. PICK c \in Nat : c = Cardinality(v.z \cap w.x)
  BY <1>3
<1>5. Beta(v, w) = c % 2 /\ c % 2 \in 0 .. 1
  BY <1>4 DEF Beta, Overlap
<1>6. PICK p \in 0 .. 3 : p = v.phase
  BY <1>1
<1>7. PICK q \in 0 .. 3 : q = w.phase
  BY <1>1
<1>8. (p + q + 2 * c) % 4 = (p + q + 2 * (c % 2)) % 4
  BY TwiceMod
<1>12. (p + q + 2 * c) % 4 \in 0 .. 3
  OBVIOUS
<1>9. v ** w = [x |-> XorOf(v.x, w.x), z |-> XorOf(v.z, w.z), phase |-> (p + q + 2 * c) % 4]
  BY <1>4, <1>6, <1>7 DEF **, WordProduct
<1>10. v ** w \in Words
  BY <1>2, <1>9, <1>12 DEF Words
<1>11. QED
  BY <1>3, <1>5, <1>6, <1>7, <1>8, <1>9, <1>10

LEMMA SameWord ==
  ASSUME NEW v \in Words, NEW w \in Words, v.x = w.x, v.z = w.z, v.phase = w.phase
  PROVE  v = w
BY DEF Words

LEMMA OverlapXor ==
  ASSUME NEW A \in Ops, NEW B \in Ops, NEW C \in Ops
  PROVE  /\ Overlap(XorOf(A, B), C) = (Overlap(A, C) + Overlap(B, C)) % 2
         /\ Overlap(C, XorOf(A, B)) = (Overlap(C, A) + Overlap(C, B)) % 2
<1>1. PICK D \in Ops : D = A \cap C /\ D = C \cap A
  BY XorFacts
<1>2. PICK E \in Ops : E = B \cap C /\ E = C \cap B
  BY XorFacts
<1>3. XorOf(A, B) \cap C = XorOf(D, E) /\ C \cap XorOf(A, B) = XorOf(D, E)
  BY <1>1, <1>2 DEF XorOf
<1>4. Cardinality(XorOf(D, E)) % 2 = ((Cardinality(D) % 2) + (Cardinality(E) % 2)) % 2
  BY CardXor
<1>5. QED
  <2>1. Overlap(XorOf(A, B), C) = Cardinality(XorOf(D, E)) % 2
        /\ Overlap(C, XorOf(A, B)) = Cardinality(XorOf(D, E)) % 2
    BY <1>3 DEF Overlap
  <2>2. /\ Overlap(A, C) = Cardinality(D) % 2 /\ Overlap(C, A) = Cardinality(D) % 2
        /\ Overlap(B, C) = Cardinality(E) % 2 /\ Overlap(C, B) = Cardinality(E) % 2
    BY <1>1, <1>2 DEF Overlap
  <2>3. Cardinality(D) \in Nat /\ Cardinality(E) \in Nat /\ Cardinality(XorOf(D, E)) \in Nat
    BY CardXor
  <2>4. QED
    BY <1>4, <2>1, <2>2, <2>3

LEMMA BetaProduct ==
  ASSUME NEW v \in Words, NEW w \in Words, NEW u \in Words
  PROVE  /\ Beta(v ** w, u) = (Beta(v, u) + Beta(w, u)) % 2
         /\ Beta(u, v ** w) = (Beta(u, v) + Beta(u, w)) % 2
<1>1. (v ** w).x = XorOf(v.x, w.x) /\ (v ** w).z = XorOf(v.z, w.z)
  BY WordTypes
<1>2. v.x \in Ops /\ v.z \in Ops /\ w.x \in Ops /\ w.z \in Ops /\ u.x \in Ops /\ u.z \in Ops
  BY DEF Words
<1>3. QED
  BY <1>1, <1>2, OverlapXor DEF Beta

LEMMA BetaOthers ==
  ASSUME NEW v \in Words, NEW u \in Words, NEW n \in 0 .. 3
  PROVE  /\ Beta(TimesI(v, n), u) = Beta(v, u)
         /\ Beta(u, TimesI(v, n)) = Beta(u, v)
BY PhasedWord DEF Beta, Overlap

LEMMA BetaIdle ==
  ASSUME NEW u \in Words
  PROVE  Beta(Idle, u) = 0 /\ Beta(u, Idle) = 0
<1>1. {} \cap u.x = {} /\ u.z \cap {} = {} /\ Cardinality({}) = 0
  BY FS_EmptySet
<1>2. QED
  BY <1>1, IdleWord DEF Beta, Overlap

LEMMA AntiIsBeta ==
  ASSUME NEW v \in Words, NEW w \in Words
  PROVE  AntiCommute(v, w) <=> Beta(v, w) # Beta(w, v)
<1>1. PICK a \in Nat : a = Cardinality(v.z \cap w.x)
  BY WordTypes
<1>2. PICK b \in Nat : b = Cardinality(w.z \cap v.x)
  BY WordTypes
<1>3. v.x \cap w.z = w.z \cap v.x
  OBVIOUS
<1>4. (a + b) % 2 = 1 <=> a % 2 # b % 2
  OBVIOUS
<1>5. QED
  BY <1>1, <1>2, <1>3, <1>4 DEF AntiCommute, Beta, Overlap

-----------------------------------------------------------------------------
LEMMA PhasesAssoc ==
  ASSUME NEW p \in 0 .. 3, NEW q \in 0 .. 3, NEW r \in 0 .. 3,
         NEW a \in 0 .. 1, NEW b \in 0 .. 1, NEW c \in 0 .. 1
  PROVE  (((p + q + 2 * a) % 4) + r + 2 * ((b + c) % 2)) % 4
           = (p + ((q + r + 2 * c) % 4) + 2 * ((a + b) % 2)) % 4
OBVIOUS

LEMMA WordAssoc ==
  ASSUME NEW v \in Words, NEW w \in Words, NEW u \in Words
  PROVE  (v ** w) ** u = v ** (w ** u)
<1>1. PICK l \in Words : l = v ** w
  BY WordTypes
<1>2. PICK r \in Words : r = w ** u
  BY WordTypes
<1>3. XorOf(XorOf(v.x, w.x), u.x) = XorOf(v.x, XorOf(w.x, u.x))
      /\ XorOf(XorOf(v.z, w.z), u.z) = XorOf(v.z, XorOf(w.z, u.z))
  BY DEF XorOf
<1>4. /\ l.x = XorOf(v.x, w.x) /\ l.z = XorOf(v.z, w.z)
      /\ l.phase = (v.phase + w.phase + 2 * Beta(v, w)) % 4
  BY <1>1, WordTypes
<1>5. /\ r.x = XorOf(w.x, u.x) /\ r.z = XorOf(w.z, u.z)
      /\ r.phase = (w.phase + u.phase + 2 * Beta(w, u)) % 4
  BY <1>2, WordTypes
<1>6. /\ l ** u \in Words /\ (l ** u).x = XorOf(l.x, u.x) /\ (l ** u).z = XorOf(l.z, u.z)
      /\ (l ** u).phase = (l.phase + u.phase + 2 * Beta(l, u)) % 4
  BY WordTypes
<1>7. /\ v ** r \in Words /\ (v ** r).x = XorOf(v.x, r.x) /\ (v ** r).z = XorOf(v.z, r.z)
      /\ (v ** r).phase = (v.phase + r.phase + 2 * Beta(v, r)) % 4
  BY WordTypes
<1>8. Beta(l, u) = (Beta(v, u) + Beta(w, u)) % 2 /\ Beta(v, r) = (Beta(v, w) + Beta(v, u)) % 2
  BY <1>1, <1>2, BetaProduct
<1>9. /\ Beta(v, w) \in 0 .. 1 /\ Beta(v, u) \in 0 .. 1 /\ Beta(w, u) \in 0 .. 1
      /\ v.phase \in 0 .. 3 /\ w.phase \in 0 .. 3 /\ u.phase \in 0 .. 3
  BY WordTypes DEF Words
<1>10. (l ** u).phase = (v ** r).phase
  BY <1>4, <1>5, <1>6, <1>7, <1>8, <1>9, PhasesAssoc
<1>11. (l ** u).x = (v ** r).x /\ (l ** u).z = (v ** r).z
  BY <1>3, <1>4, <1>5, <1>6, <1>7
<1>12. QED
  BY <1>1, <1>2, <1>6, <1>7, <1>10, <1>11, SameWord

LEMMA WordUnit ==
  ASSUME NEW v \in Words
  PROVE  Idle ** v = v /\ v ** Idle = v /\ TimesI(v, 0) = v
<1>1. PICK e \in Words : e = Idle
  BY IdleWord
<1>2. XorOf({}, v.x) = v.x /\ XorOf({}, v.z) = v.z /\ XorOf(v.x, {}) = v.x /\ XorOf(v.z, {}) = v.z
  BY DEF XorOf
<1>3. Beta(e, v) = 0 /\ Beta(v, e) = 0 /\ v.phase \in 0 .. 3
  BY <1>1, BetaIdle DEF Words
<1>4. e.x = {} /\ e.z = {} /\ e.phase = 0
  BY <1>1, IdleWord
<1>5. \A p \in 0 .. 3 : (0 + p + 2 * 0) % 4 = p /\ (p + 0 + 2 * 0) % 4 = p /\ (p + 0) % 4 = p
  OBVIOUS
<1>6. /\ e ** v \in Words /\ (e ** v).x = XorOf(e.x, v.x) /\ (e ** v).z = XorOf(e.z, v.z)
      /\ (e ** v).phase = (e.phase + v.phase + 2 * Beta(e, v)) % 4
  BY WordTypes
<1>7. /\ v ** e \in Words /\ (v ** e).x = XorOf(v.x, e.x) /\ (v ** e).z = XorOf(v.z, e.z)
      /\ (v ** e).phase = (v.phase + e.phase + 2 * Beta(v, e)) % 4
  BY WordTypes
<1>8. (e ** v).phase = v.phase /\ (v ** e).phase = v.phase
  BY <1>3, <1>4, <1>5, <1>6, <1>7
<1>9. e ** v = v
  BY <1>2, <1>4, <1>6, <1>8, SameWord
<1>10. v ** e = v
  BY <1>2, <1>4, <1>7, <1>8, SameWord
<1>11. PICK n \in 0 .. 3 : n = 0
  OBVIOUS
<1>12. TimesI(v, n) = v
  <2>1. /\ TimesI(v, n) \in Words
        /\ TimesI(v, n).x = v.x /\ TimesI(v, n).z = v.z /\ TimesI(v, n).phase = (v.phase + n) % 4
    BY PhasedWord
  <2>2. TimesI(v, n).phase = v.phase
    BY <1>3, <1>5, <1>11, <2>1
  <2>3. QED
    BY <2>1, <2>2, SameWord
<1>13. QED
  BY <1>1, <1>9, <1>10, <1>11, <1>12

LEMMA PhasesI ==
  ASSUME NEW p \in 0 .. 3, NEW q \in 0 .. 3, NEW a \in 0 .. 1, NEW n \in 0 .. 3
  PROVE  /\ (((p + n) % 4) + q + 2 * a) % 4 = (((p + q + 2 * a) % 4) + n) % 4
         /\ (p + ((q + n) % 4) + 2 * a) % 4 = (((p + q + 2 * a) % 4) + n) % 4
OBVIOUS

LEMMA WordI ==
  ASSUME NEW v \in Words, NEW w \in Words, NEW n \in 0 .. 3
  PROVE  /\ TimesI(v, n) ** w = TimesI(v ** w, n)
         /\ v ** TimesI(w, n) = TimesI(v ** w, n)
<1>1. PICK c \in Words : c = v ** w
  BY WordTypes
<1>2. PICK k \in Words : k = TimesI(v, n)
  BY PhasedWord
<1>3. PICK l \in Words : l = TimesI(w, n)
  BY PhasedWord
<1>4. PICK d \in Words : d = TimesI(c, n)
  BY PhasedWord
<1>5. Beta(k, w) = Beta(v, w) /\ Beta(v, l) = Beta(v, w)
      /\ Beta(v, w) \in 0 .. 1 /\ v.phase \in 0 .. 3 /\ w.phase \in 0 .. 3
  <2>1. Beta(k, w) = Beta(v, w) /\ Beta(v, l) = Beta(v, w)
    BY <1>2, <1>3, BetaOthers
  <2>2. Beta(v, w) \in 0 .. 1
    BY WordTypes
  <2>3. QED
    BY <2>1, <2>2 DEF Words
<1>6. /\ c.x = XorOf(v.x, w.x) /\ c.z = XorOf(v.z, w.z)
      /\ c.phase = (v.phase + w.phase + 2 * Beta(v, w)) % 4
  BY <1>1, WordTypes
<1>7. /\ k.x = v.x /\ k.z = v.z /\ k.phase = (v.phase + n) % 4
      /\ l.x = w.x /\ l.z = w.z /\ l.phase = (w.phase + n) % 4
      /\ d.x = c.x /\ d.z = c.z /\ d.phase = (c.phase + n) % 4
  BY <1>2, <1>3, <1>4, PhasedWord
<1>11. PICK p \in 0 .. 3 : p = v.phase
  BY <1>5
<1>12. PICK q \in 0 .. 3 : q = w.phase
  BY <1>5
<1>13. PICK b \in 0 .. 1 : b = Beta(v, w)
  BY <1>5
<1>14. /\ (((p + n) % 4) + q + 2 * b) % 4 = (((p + q + 2 * b) % 4) + n) % 4
       /\ (p + ((q + n) % 4) + 2 * b) % 4 = (((p + q + 2 * b) % 4) + n) % 4
  BY PhasesI
<1>8. k ** w = d
  <2>1. /\ k ** w \in Words /\ (k ** w).x = XorOf(k.x, w.x) /\ (k ** w).z = XorOf(k.z, w.z)
        /\ (k ** w).phase = (k.phase + w.phase + 2 * Beta(k, w)) % 4
    BY WordTypes
  <2>2. (k ** w).phase = d.phase
    BY <1>5, <1>6, <1>7, <1>11, <1>12, <1>13, <1>14, <2>1
  <2>3. QED
    BY <1>6, <1>7, <2>1, <2>2, SameWord
<1>9. v ** l = d
  <2>1. /\ v ** l \in Words /\ (v ** l).x = XorOf(v.x, l.x) /\ (v ** l).z = XorOf(v.z, l.z)
        /\ (v ** l).phase = (v.phase + l.phase + 2 * Beta(v, l)) % 4
    BY WordTypes
  <2>2. (v ** l).phase = d.phase
    BY <1>5, <1>6, <1>7, <1>11, <1>12, <1>13, <1>14, <2>1
  <2>3. QED
    BY <1>6, <1>7, <2>1, <2>2, SameWord
<1>10. QED
  BY <1>1, <1>2, <1>3, <1>4, <1>8, <1>9

LEMMA PhasesAdd ==
  ASSUME NEW v \in Words, NEW n \in 0 .. 3, NEW m \in 0 .. 3
  PROVE  TimesI(TimesI(v, n), m) = TimesI(v, (n + m) % 4)
<1>1. PICK k \in Words : k = TimesI(v, n)
  BY PhasedWord
<1>2. PICK r \in 0 .. 3 : r = (n + m) % 4
  OBVIOUS
<1>3. /\ k.x = v.x /\ k.z = v.z /\ k.phase = (v.phase + n) % 4 /\ v.phase \in 0 .. 3
  BY <1>1, PhasedWord DEF Words
<1>4. /\ TimesI(k, m) \in Words /\ TimesI(v, r) \in Words
      /\ TimesI(k, m).x = k.x /\ TimesI(k, m).z = k.z /\ TimesI(k, m).phase = (k.phase + m) % 4
      /\ TimesI(v, r).x = v.x /\ TimesI(v, r).z = v.z /\ TimesI(v, r).phase = (v.phase + r) % 4
  BY PhasedWord
<1>5. \A p \in 0 .. 3 : (((p + n) % 4) + m) % 4 = (p + ((n + m) % 4)) % 4
  OBVIOUS
<1>6. TimesI(k, m).phase = TimesI(v, r).phase
  BY <1>2, <1>3, <1>4, <1>5
<1>7. QED
  BY <1>1, <1>2, <1>3, <1>4, <1>6, SameWord

LEMMA PhasesSwap ==
  ASSUME NEW p \in 0 .. 3, NEW q \in 0 .. 3, NEW a \in 0 .. 1, NEW b \in 0 .. 1
  PROVE  (p + q + 2 * a) % 4 = IF a # b THEN (((q + p + 2 * b) % 4) + 2) % 4 ELSE (q + p + 2 * b) % 4
OBVIOUS

LEMMA WordSwap ==
  ASSUME NEW v \in Words, NEW w \in Words
  PROVE  /\ AntiCommute(v, w) => v ** w = TimesI(w ** v, 2)
         /\ ~AntiCommute(v, w) => v ** w = w ** v
<1>1. v ** w \in Words /\ w ** v \in Words
  BY WordTypes
<1>10. TimesI(w ** v, 2) \in Words
  BY <1>1, PhasedWord
<1>2. XorOf(v.x, w.x) = XorOf(w.x, v.x) /\ XorOf(v.z, w.z) = XorOf(w.z, v.z)
  BY DEF XorOf
<1>3. /\ (v ** w).x = XorOf(v.x, w.x) /\ (v ** w).z = XorOf(v.z, w.z)
      /\ (v ** w).phase = (v.phase + w.phase + 2 * Beta(v, w)) % 4
  BY WordTypes, PhasedWord, IdleWord
<1>4. /\ (w ** v).x = XorOf(w.x, v.x) /\ (w ** v).z = XorOf(w.z, v.z)
      /\ (w ** v).phase = (w.phase + v.phase + 2 * Beta(w, v)) % 4
  BY WordTypes, PhasedWord, IdleWord
<1>5. /\ TimesI(w ** v, 2).x = (w ** v).x /\ TimesI(w ** v, 2).z = (w ** v).z
      /\ TimesI(w ** v, 2).phase = ((w ** v).phase + 2) % 4
  BY <1>1, WordTypes, PhasedWord, IdleWord
<1>6. Beta(v, w) \in 0 .. 1 /\ Beta(w, v) \in 0 .. 1 /\ v.phase \in 0 .. 3 /\ w.phase \in 0 .. 3
  BY WordTypes DEF Words
<1>7. ASSUME AntiCommute(v, w) PROVE v ** w = TimesI(w ** v, 2)
  <2>1. Beta(v, w) # Beta(w, v)
    BY <1>7, AntiIsBeta
  <2>2. (v ** w).phase = TimesI(w ** v, 2).phase
    BY <1>3, <1>4, <1>5, <1>6, <2>1, PhasesSwap
  <2>3. QED
    BY <1>1, <1>2, <1>3, <1>4, <1>5, <1>10, <2>2, SameWord
<1>8. ASSUME ~AntiCommute(v, w) PROVE v ** w = w ** v
  <2>1. Beta(v, w) = Beta(w, v)
    BY <1>8, AntiIsBeta
  <2>2. (v ** w).phase = (w ** v).phase
    BY <1>3, <1>4, <1>6, <2>1, PhasesSwap
  <2>3. QED
    BY <1>1, <1>2, <1>3, <1>4, <2>2, SameWord
<1>9. QED
  BY <1>7, <1>8

LEMMA AntiFacts ==
  ASSUME NEW v \in Words, NEW w \in Words, NEW u \in Words, NEW n \in 0 .. 3
  PROVE  /\ AntiCommute(v, w) \in BOOLEAN
         /\ AntiCommute(v, w) <=> AntiCommute(w, v)
         /\ ~AntiCommute(v, v) /\ ~AntiCommute(Idle, v) /\ ~AntiCommute(v, Idle)
         /\ AntiCommute(v ** w, u) <=> ~(AntiCommute(v, u) <=> AntiCommute(w, u))
         /\ AntiCommute(u, v ** w) <=> ~(AntiCommute(u, v) <=> AntiCommute(u, w))
         /\ AntiCommute(TimesI(v, n), u) <=> AntiCommute(v, u)
         /\ AntiCommute(u, TimesI(v, n)) <=> AntiCommute(u, v)
<1>1. v ** w \in Words /\ TimesI(v, n) \in Words /\ Idle \in Words
  BY WordTypes, PhasedWord, IdleWord
<1>2. AntiCommute(v, w) \in BOOLEAN
  BY DEF AntiCommute
<1>3. (AntiCommute(v, w) <=> AntiCommute(w, v)) /\ ~AntiCommute(v, v)
  BY AntiIsBeta
<1>4. ~AntiCommute(Idle, v) /\ ~AntiCommute(v, Idle)
  BY <1>1, AntiIsBeta, BetaIdle
<1>5. (AntiCommute(TimesI(v, n), u) <=> AntiCommute(v, u)) /\ (AntiCommute(u, TimesI(v, n)) <=> AntiCommute(u, v))
  <2>1. Beta(TimesI(v, n), u) = Beta(v, u) /\ Beta(u, TimesI(v, n)) = Beta(u, v)
    BY BetaOthers
  <2>2. QED
    BY <1>1, <2>1, AntiIsBeta
<1>6. AntiCommute(v ** w, u) <=> ~(AntiCommute(v, u) <=> AntiCommute(w, u))
  <2>0. Beta(v, u) \in 0 .. 1 /\ Beta(w, u) \in 0 .. 1 /\ Beta(u, v) \in 0 .. 1 /\ Beta(u, w) \in 0 .. 1
    BY WordTypes
  <2>1. /\ Beta(v ** w, u) = (Beta(v, u) + Beta(w, u)) % 2 /\ Beta(u, v ** w) = (Beta(u, v) + Beta(u, w)) % 2
    BY BetaProduct
  <2>2. \A a, b, c, d \in 0 .. 1 : (a + b) % 2 # (c + d) % 2 <=> ~(a # c <=> b # d)
    OBVIOUS
  <2>3. /\ AntiCommute(v ** w, u) <=> Beta(v ** w, u) # Beta(u, v ** w)
        /\ AntiCommute(v, u) <=> Beta(v, u) # Beta(u, v)
        /\ AntiCommute(w, u) <=> Beta(w, u) # Beta(u, w)
    BY <1>1, AntiIsBeta
  <2>4. QED
    BY <2>0, <2>1, <2>2, <2>3
<1>7. AntiCommute(u, v ** w) <=> ~(AntiCommute(u, v) <=> AntiCommute(u, w))
  BY <1>1, <1>6, AntiIsBeta
<1>8. QED
  BY <1>2, <1>3, <1>4, <1>5, <1>6, <1>7

-----------------------------------------------------------------------------
(* Rotations about a word Q with QQ = 1 are automorphisms.                 *)

Hermitian(Q) == Q \in Words /\ Q ** Q = Idle

(* What a rotation multiplies an anticommuting word by *)
LEMMA RotatedCases ==
  ASSUME NEW Q \in Words, NEW w \in Words, NEW n \in 0 .. 3
  PROVE  /\ Rotated(Q, n, w) \in Words
         /\ ~AntiCommute(Q, w) => Rotated(Q, n, w) = w
         /\ n = 0 => Rotated(Q, n, w) = w
         /\ AntiCommute(Q, w) /\ n = 2 => Rotated(Q, n, w) = TimesI(w, 2)
         /\ AntiCommute(Q, w) /\ n \in {1, 3} => Rotated(Q, n, w) = TimesI(Q ** w, n)
<1>1. Q ** w \in Words
  BY WordTypes
<1>4. TimesI(w, 2) \in Words
  BY PhasedWord
<1>2. TimesI(Q ** w, 1) \in Words /\ TimesI(Q ** w, 3) \in Words
  BY <1>1, PhasedWord
<1>3. QED
  BY <1>1, <1>2, <1>4 DEF Rotated, **

LEMMA Half ==
  ASSUME NEW v \in Words
  PROVE  TimesI(TimesI(v, 2), 2) = v
<1>1. TimesI(TimesI(v, 2), 2) = TimesI(v, (2 + 2) % 4) /\ (2 + 2) % 4 = 0
  BY PhasesAdd
<1>2. QED
  BY <1>1, WordUnit

LEMMA RotatedProduct ==
  ASSUME NEW Q, Hermitian(Q), NEW n \in 0 .. 3, NEW v \in Words, NEW w \in Words
  PROVE  Rotated(Q, n, v ** w) = Rotated(Q, n, v) ** Rotated(Q, n, w)
<1>1. Q \in Words /\ Q ** Q = Idle /\ v ** w \in Words /\ Q ** v \in Words /\ Q ** w \in Words
  BY WordTypes DEF Hermitian
<1>2. AntiCommute(Q, v ** w) <=> ~(AntiCommute(Q, v) <=> AntiCommute(Q, w))
  BY <1>1, AntiFacts
<1>3. CASE n = 0
  BY <1>1, <1>3, RotatedCases
<1>4. CASE ~AntiCommute(Q, v) /\ ~AntiCommute(Q, w)
  BY <1>1, <1>2, <1>4, RotatedCases
<1>5. CASE AntiCommute(Q, v) /\ ~AntiCommute(Q, w)
  <2>1. CASE n = 2
    BY <1>1, <1>2, <1>5, <2>1, RotatedCases, WordI
  <2>2. CASE n \in {1, 3}
    <3>1. Rotated(Q, n, v ** w) = TimesI(Q ** (v ** w), n) /\ Rotated(Q, n, v) = TimesI(Q ** v, n)
          /\ Rotated(Q, n, w) = w
      BY <1>1, <1>2, <1>5, <2>2, RotatedCases
    <3>2. TimesI(Q ** v, n) ** w = TimesI((Q ** v) ** w, n)
      BY <1>1, WordI
    <3>3. (Q ** v) ** w = Q ** (v ** w)
      BY <1>1, WordAssoc
    <3>4. QED
      BY <3>1, <3>2, <3>3
  <2>3. QED
    BY <1>3, <2>1, <2>2
<1>6. CASE ~AntiCommute(Q, v) /\ AntiCommute(Q, w)
  <2>1. CASE n = 2
    BY <1>1, <1>2, <1>6, <2>1, RotatedCases, WordI
  <2>2. CASE n \in {1, 3}
    <3>1. Rotated(Q, n, v ** w) = TimesI(Q ** (v ** w), n) /\ Rotated(Q, n, w) = TimesI(Q ** w, n)
          /\ Rotated(Q, n, v) = v
      BY <1>1, <1>2, <1>6, <2>2, RotatedCases
    <3>2. v ** TimesI(Q ** w, n) = TimesI(v ** (Q ** w), n)
      BY <1>1, WordI
    <3>3. v ** (Q ** w) = (v ** Q) ** w /\ v ** Q = Q ** v /\ (Q ** v) ** w = Q ** (v ** w)
      BY <1>1, <1>6, WordAssoc, WordSwap
    <3>4. QED
      BY <3>1, <3>2, <3>3
  <2>3. QED
    BY <1>3, <2>1, <2>2
<1>7. CASE AntiCommute(Q, v) /\ AntiCommute(Q, w)
  <2>1. CASE n = 2
    <3>1. Rotated(Q, n, v ** w) = v ** w /\ Rotated(Q, n, v) = TimesI(v, 2) /\ Rotated(Q, n, w) = TimesI(w, 2)
      BY <1>1, <1>2, <1>7, <2>1, RotatedCases
    <3>2. TimesI(v, 2) ** TimesI(w, 2) = TimesI(TimesI(v, 2) ** w, 2) /\ TimesI(v, 2) ** w = TimesI(v ** w, 2)
      BY WordI, PhasedWord
    <3>3. TimesI(TimesI(v ** w, 2), 2) = v ** w
      BY <1>1, Half
    <3>4. QED
      BY <3>1, <3>2, <3>3
  <2>2. CASE n \in {1, 3}
    <3>1. Rotated(Q, n, v ** w) = v ** w /\ Rotated(Q, n, v) = TimesI(Q ** v, n)
          /\ Rotated(Q, n, w) = TimesI(Q ** w, n)
      BY <1>1, <1>2, <1>7, <2>2, RotatedCases
    <3>2. TimesI(Q ** w, n) \in Words /\ (Q ** v) ** (Q ** w) \in Words
      BY <1>1, PhasedWord, WordTypes
    <3>3. TimesI(Q ** v, n) ** TimesI(Q ** w, n) = TimesI((Q ** v) ** TimesI(Q ** w, n), n)
      BY <1>1, <3>2, WordI
    <3>4. (Q ** v) ** TimesI(Q ** w, n) = TimesI((Q ** v) ** (Q ** w), n)
      BY <1>1, WordI
    <3>5. (Q ** v) ** (Q ** w) = TimesI(v ** w, 2)
      <4>1. Q ** v = TimesI(v ** Q, 2) /\ v ** Q \in Words
        BY <1>1, <1>7, WordSwap, WordTypes
      <4>2. (Q ** v) ** (Q ** w) = TimesI((v ** Q) ** (Q ** w), 2)
        BY <1>1, <4>1, WordI
      <4>3. (v ** Q) ** (Q ** w) = v ** (Q ** (Q ** w)) /\ Q ** (Q ** w) = (Q ** Q) ** w /\ Idle ** w = w
        BY <1>1, WordAssoc, WordUnit
      <4>4. QED
        BY <1>1, <4>2, <4>3
    <3>6. TimesI(TimesI(TimesI(v ** w, 2), n), n) = v ** w
      <4>1. TimesI(v ** w, 2) \in Words
        BY <1>1, PhasedWord
      <4>2. TimesI(TimesI(TimesI(v ** w, 2), n), n) = TimesI(TimesI(v ** w, 2), (n + n) % 4)
            /\ (n + n) % 4 = 2
        BY <2>2, <4>1, PhasesAdd
      <4>3. QED
        BY <1>1, <4>2, Half
    <3>7. QED
      BY <3>1, <3>3, <3>4, <3>5, <3>6
  <2>3. QED
    BY <1>3, <2>1, <2>2
<1>8. QED
  BY <1>4, <1>5, <1>6, <1>7

LEMMA RotatedAnti ==
  ASSUME NEW Q, Hermitian(Q), NEW n \in 0 .. 3, NEW v \in Words, NEW w \in Words
  PROVE  AntiCommute(Rotated(Q, n, v), Rotated(Q, n, w)) <=> AntiCommute(v, w)
<1>1. Q \in Words /\ Q ** v \in Words /\ Q ** w \in Words
  BY WordTypes DEF Hermitian
<1>2. ~AntiCommute(Q, Q) /\ (AntiCommute(v, Q) <=> AntiCommute(Q, v)) /\ (AntiCommute(w, Q) <=> AntiCommute(Q, w))
  BY <1>1, AntiFacts
<1>3. /\ AntiCommute(Q ** v, w) <=> ~(AntiCommute(Q, w) <=> AntiCommute(v, w))
      /\ AntiCommute(v, Q ** w) <=> ~(AntiCommute(v, Q) <=> AntiCommute(v, w))
      /\ AntiCommute(Q ** v, Q ** w) <=> ~(AntiCommute(Q, Q ** w) <=> AntiCommute(v, Q ** w))
      /\ AntiCommute(Q, Q ** w) <=> ~(AntiCommute(Q, Q) <=> AntiCommute(Q, w))
  BY <1>1, AntiFacts
<1>4. PICK a \in Words : a = Rotated(Q, n, v)
  BY <1>1, RotatedCases
<1>5. PICK b \in Words : b = Rotated(Q, n, w)
  BY <1>1, RotatedCases
<1>6. \A u \in Words : \A k \in 0 .. 3 : \A y \in Words :
        (AntiCommute(TimesI(u, k), y) <=> AntiCommute(u, y)) /\ (AntiCommute(y, TimesI(u, k)) <=> AntiCommute(y, u))
  BY AntiFacts
<1>7. CASE n = 0
  BY <1>1, <1>7, RotatedCases
<1>8. CASE n = 2
  <2>0. AntiCommute(Q, v) \in BOOLEAN /\ AntiCommute(Q, w) \in BOOLEAN
    BY <1>1, AntiFacts
  <2>1. (a = v \/ a = TimesI(v, 2)) /\ (b = w \/ b = TimesI(w, 2))
    BY <1>1, <1>4, <1>5, <1>8, <2>0, RotatedCases
  <2>2. AntiCommute(a, b) <=> AntiCommute(v, b)
    BY <1>6, <2>1
  <2>3. AntiCommute(v, b) <=> AntiCommute(v, w)
    BY <1>6, <2>1
  <2>4. QED
    BY <1>4, <1>5, <2>2, <2>3
<1>9. CASE n \in {1, 3}
  <2>0. AntiCommute(Q, v) \in BOOLEAN /\ AntiCommute(Q, w) \in BOOLEAN
    BY <1>1, AntiFacts
  <2>3. \A u \in Words : AntiCommute(Q, u) => Rotated(Q, n, u) = TimesI(Q ** u, n)
    BY <1>1, <1>9, RotatedCases
  <2>4. \A u \in Words : ~AntiCommute(Q, u) => Rotated(Q, n, u) = u
    BY <1>1, RotatedCases
  <2>1. /\ AntiCommute(Q, v) => a = TimesI(Q ** v, n)
        /\ ~AntiCommute(Q, v) => a = v
        /\ AntiCommute(Q, w) => b = TimesI(Q ** w, n)
        /\ ~AntiCommute(Q, w) => b = w
    BY <1>4, <1>5, <2>3, <2>4
  <2>2. /\ AntiCommute(TimesI(Q ** v, n), w) <=> AntiCommute(Q ** v, w)
        /\ AntiCommute(v, TimesI(Q ** w, n)) <=> AntiCommute(v, Q ** w)
        /\ AntiCommute(TimesI(Q ** v, n), TimesI(Q ** w, n)) <=> AntiCommute(Q ** v, Q ** w)
    <3>1. TimesI(Q ** w, n) \in Words
      BY <1>1, PhasedWord
    <3>2. QED
      BY <1>1, <1>6, <3>1
  <2>5. AntiCommute(a, b) <=> AntiCommute(v, w)
    <3>1. CASE AntiCommute(Q, v) /\ AntiCommute(Q, w)
      BY <1>2, <1>3, <2>1, <2>2, <3>1
    <3>2. CASE AntiCommute(Q, v) /\ ~AntiCommute(Q, w)
      BY <1>2, <1>3, <2>1, <2>2, <3>2
    <3>3. CASE ~AntiCommute(Q, v) /\ AntiCommute(Q, w)
      BY <1>2, <1>3, <2>1, <2>2, <3>3
    <3>4. CASE ~AntiCommute(Q, v) /\ ~AntiCommute(Q, w)
      BY <2>1, <3>4
    <3>5. QED
      BY <2>0, <3>1, <3>2, <3>3, <3>4
  <2>6. QED
    BY <1>4, <1>5, <2>5
<1>10. QED
  BY <1>7, <1>8, <1>9

LEMMA RotatedI ==
  ASSUME NEW Q, Hermitian(Q), NEW n \in 0 .. 3, NEW v \in Words, NEW k \in 0 .. 3
  PROVE  Rotated(Q, n, TimesI(v, k)) = TimesI(Rotated(Q, n, v), k)
<1>1. Q \in Words /\ Idle \in Words /\ TimesI(Idle, k) \in Words /\ Rotated(Q, n, v) \in Words
  BY IdleWord, PhasedWord, RotatedCases DEF Hermitian
<1>2. TimesI(v, k) = TimesI(Idle, k) ** v
  BY <1>1, WordI, WordUnit
<1>3. ~AntiCommute(Q, TimesI(Idle, k))
  BY <1>1, AntiFacts
<1>4. Rotated(Q, n, TimesI(Idle, k)) = TimesI(Idle, k)
  BY <1>1, <1>3, RotatedCases
<1>5. Rotated(Q, n, TimesI(v, k)) = TimesI(Idle, k) ** Rotated(Q, n, v)
  BY <1>1, <1>2, <1>4, RotatedProduct
<1>6. QED
  BY <1>1, <1>5, WordI, WordUnit

LEMMA RotatedHermitian ==
  ASSUME NEW Q, Hermitian(Q), NEW n \in 0 .. 3, NEW S, Hermitian(S)
  PROVE  Hermitian(Rotated(Q, n, S))
<1>1. Q \in Words /\ S \in Words /\ S ** S = Idle /\ Idle \in Words
  BY IdleWord DEF Hermitian
<1>5. ~AntiCommute(Q, Idle)
  BY <1>1, AntiIsBeta, BetaIdle
<1>2. Rotated(Q, n, Idle) = Idle /\ Rotated(Q, n, S) \in Words
  BY <1>1, <1>5, RotatedCases
<1>3. Rotated(Q, n, S ** S) = Rotated(Q, n, S) ** Rotated(Q, n, S)
  BY <1>1, RotatedProduct
<1>4. QED
  BY <1>1, <1>2, <1>3 DEF Hermitian

(* A rotation of a rotation is one about the rotated word. *)
LEMMA RotatedRotated ==
  ASSUME NEW Q, Hermitian(Q), NEW a \in 0 .. 3, NEW S, Hermitian(S), NEW b \in 0 .. 3, NEW w \in Words
  PROVE  Rotated(Q, a, Rotated(S, b, w)) = Rotated(Rotated(Q, a, S), b, Rotated(Q, a, w))
<1>1. Q \in Words /\ S \in Words /\ S ** w \in Words
  BY WordTypes DEF Hermitian
<1>2. PICK R \in Words : R = Rotated(Q, a, S)
  BY <1>1, RotatedCases
<1>3. PICK y \in Words : y = Rotated(Q, a, w)
  BY <1>1, RotatedCases
<1>4. AntiCommute(R, y) <=> AntiCommute(S, w)
  BY <1>1, <1>2, <1>3, RotatedAnti
<1>5. AntiCommute(S, w) \in BOOLEAN
  BY <1>1, AntiFacts
<1>6. CASE ~AntiCommute(S, w) \/ b = 0
  <2>1. Rotated(S, b, w) = w /\ Rotated(R, b, y) = y
    BY <1>1, <1>4, <1>6, RotatedCases
  <2>2. QED
    BY <1>2, <1>3, <2>1
<1>7. CASE AntiCommute(S, w) /\ b = 2
  <2>1. Rotated(S, b, w) = TimesI(w, 2) /\ Rotated(R, b, y) = TimesI(y, 2)
    BY <1>1, <1>4, <1>7, RotatedCases
  <2>2. Rotated(Q, a, TimesI(w, 2)) = TimesI(y, 2)
    BY <1>3, RotatedI
  <2>3. QED
    BY <1>2, <1>3, <2>1, <2>2
<1>8. CASE AntiCommute(S, w) /\ b \in {1, 3}
  <2>1. Rotated(S, b, w) = TimesI(S ** w, b) /\ Rotated(R, b, y) = TimesI(R ** y, b)
    BY <1>1, <1>4, <1>8, RotatedCases
  <2>2. Rotated(Q, a, TimesI(S ** w, b)) = TimesI(Rotated(Q, a, S ** w), b)
    BY <1>1, RotatedI
  <2>3. Rotated(Q, a, S ** w) = R ** y
    BY <1>1, <1>2, <1>3, RotatedProduct
  <2>4. QED
    BY <1>2, <1>3, <2>1, <2>2, <2>3
<1>9. QED
  BY <1>5, <1>6, <1>7, <1>8

(* Angles add up. *)
LEMMA RotatedTwice ==
  ASSUME NEW Q, Hermitian(Q), NEW a \in 0 .. 3, NEW b \in 0 .. 3, NEW w \in Words
  PROVE  Rotated(Q, a, Rotated(Q, b, w)) = Rotated(Q, (a + b) % 4, w)
<1>1. Q \in Words /\ Q ** Q = Idle /\ Q ** w \in Words
  BY WordTypes DEF Hermitian
<1>2. PICK c \in 0 .. 3 : c = (a + b) % 4
  OBVIOUS
<1>3. AntiCommute(Q, w) \in BOOLEAN /\ ~AntiCommute(Q, Q)
      /\ (AntiCommute(Q, Q ** w) <=> AntiCommute(Q, w))
  BY <1>1, AntiFacts
<1>4. CASE ~AntiCommute(Q, w)
  BY <1>1, <1>2, <1>4, RotatedCases
<1>5. CASE AntiCommute(Q, w) /\ b = 0
  <2>1. c = a
    BY <1>2, <1>5
  <2>2. QED
    BY <1>1, <1>2, <1>5, <2>1, RotatedCases
<1>6. CASE AntiCommute(Q, w) /\ a = 0
  <2>1. c = b
    BY <1>2, <1>6
  <2>2. Rotated(Q, b, w) \in Words
    BY <1>1, RotatedCases
  <2>3. QED
    BY <1>1, <1>2, <1>6, <2>1, <2>2, RotatedCases
<1>7. CASE AntiCommute(Q, w) /\ b = 2 /\ a # 0
  <2>1. Rotated(Q, b, w) = TimesI(w, 2)
    BY <1>1, <1>7, RotatedCases
  <2>2. Rotated(Q, a, TimesI(w, 2)) = TimesI(Rotated(Q, a, w), 2)
    BY RotatedI
  <2>3. CASE a = 2
    <3>1. Rotated(Q, a, w) = TimesI(w, 2) /\ c = 0
      BY <1>1, <1>2, <1>7, <2>3, RotatedCases
    <3>2. TimesI(TimesI(w, 2), 2) = w /\ Rotated(Q, c, w) = w
      BY <1>1, <3>1, Half, RotatedCases
    <3>3. QED
      BY <1>2, <2>1, <2>2, <3>1, <3>2
  <2>4. CASE a \in {1, 3}
    <3>0. Rotated(Q, a, w) = TimesI(Q ** w, a)
      BY <1>1, <1>7, <2>4, RotatedCases
    <3>1. Rotated(Q, a, w) = TimesI(Q ** w, a) /\ c = (a + 2) % 4 /\ c \in {1, 3}
      BY <1>2, <1>7, <2>4, <3>0
    <3>2. TimesI(TimesI(Q ** w, a), 2) = TimesI(Q ** w, (a + 2) % 4)
      BY <1>1, PhasesAdd
    <3>3. Rotated(Q, c, w) = TimesI(Q ** w, c)
      BY <1>1, <1>7, <3>1, RotatedCases
    <3>4. QED
      BY <1>2, <2>1, <2>2, <3>1, <3>2, <3>3
  <2>5. QED
    BY <1>7, <2>3, <2>4
<1>8. CASE AntiCommute(Q, w) /\ b \in {1, 3} /\ a = 2
  <2>1. Rotated(Q, b, w) = TimesI(Q ** w, b) /\ TimesI(Q ** w, b) \in Words
    BY <1>1, <1>8, RotatedCases, PhasedWord
  <2>2. AntiCommute(Q, TimesI(Q ** w, b))
    BY <1>1, <1>3, <1>8, AntiFacts
  <2>3. Rotated(Q, a, TimesI(Q ** w, b)) = TimesI(TimesI(Q ** w, b), 2)
    BY <1>1, <1>8, <2>1, <2>2, RotatedCases
  <2>4. TimesI(TimesI(Q ** w, b), 2) = TimesI(Q ** w, (b + 2) % 4) /\ c = (b + 2) % 4 /\ c \in {1, 3}
    BY <1>1, <1>2, <1>8, PhasesAdd
  <2>5. Rotated(Q, c, w) = TimesI(Q ** w, c)
    BY <1>1, <1>8, <2>4, RotatedCases
  <2>6. QED
    BY <1>2, <2>1, <2>3, <2>4, <2>5
<1>9. CASE AntiCommute(Q, w) /\ b \in {1, 3} /\ a \in {1, 3}
  <2>1. Rotated(Q, b, w) = TimesI(Q ** w, b) /\ TimesI(Q ** w, b) \in Words
    BY <1>1, <1>9, RotatedCases, PhasedWord
  <2>2. AntiCommute(Q, TimesI(Q ** w, b))
    BY <1>1, <1>3, <1>9, AntiFacts
  <2>3. Rotated(Q, a, TimesI(Q ** w, b)) = TimesI(Q ** TimesI(Q ** w, b), a)
    BY <1>1, <1>9, <2>1, <2>2, RotatedCases
  <2>4. Q ** TimesI(Q ** w, b) = TimesI(Q ** (Q ** w), b)
    BY <1>1, WordI
  <2>5. Q ** (Q ** w) = (Q ** Q) ** w /\ Idle ** w = w
    BY <1>1, WordAssoc, WordUnit
  <2>6. TimesI(TimesI(w, b), a) = TimesI(w, (b + a) % 4) /\ c = (b + a) % 4 /\ c \in {0, 2}
    BY <1>2, <1>9, PhasesAdd
  <2>7. Rotated(Q, c, w) = TimesI(w, c)
    BY <1>1, <1>9, <2>6, RotatedCases, WordUnit
  <2>8. QED
    BY <1>1, <1>2, <2>1, <2>3, <2>4, <2>5, <2>6, <2>7
<1>10. QED
  BY <1>3, <1>4, <1>5, <1>6, <1>7, <1>8, <1>9

(* A rotation about -Q turns back. *)
LEMMA RotatedBack ==
  ASSUME NEW Q, Hermitian(Q), NEW a \in 0 .. 3, NEW w \in Words
  PROVE  /\ Hermitian(TimesI(Q, 2))
         /\ Rotated(TimesI(Q, 2), a, w) = Rotated(Q, (4 - a) % 4, w)
<1>0. Q \in Words /\ Q ** Q = Idle
  BY DEF Hermitian
<1>1. Q \in Words /\ Q ** Q = Idle /\ Q ** w \in Words /\ TimesI(Q, 2) \in Words
  <2>1. Q ** w \in Words
    BY <1>0, WordTypes
  <2>2. TimesI(Q, 2) \in Words
    BY <1>0, PhasedWord
  <2>3. QED
    BY <1>0, <2>1, <2>2
<1>2. Hermitian(TimesI(Q, 2))
  <2>1. TimesI(Q, 2) ** TimesI(Q, 2) = TimesI(Q ** TimesI(Q, 2), 2) /\ Q ** TimesI(Q, 2) = TimesI(Q ** Q, 2)
    BY <1>1, WordI
  <2>2. TimesI(TimesI(Idle, 2), 2) = Idle
    BY IdleWord, Half
  <2>3. QED
    BY <1>1, <2>1, <2>2 DEF Hermitian
<1>3. AntiCommute(TimesI(Q, 2), w) <=> AntiCommute(Q, w)
  BY <1>1, AntiFacts
<1>4. PICK c \in 0 .. 3 : c = (4 - a) % 4
  OBVIOUS
<1>11. PICK R \in Words : R = TimesI(Q, 2)
  BY <1>1
<1>5. AntiCommute(Q, w) \in BOOLEAN
  BY <1>1, AntiFacts
<1>6. CASE ~AntiCommute(Q, w)
  <2>3. ~AntiCommute(R, w)
    BY <1>3, <1>6, <1>11
  <2>4. Rotated(R, a, w) = w
    BY <2>3, RotatedCases
  <2>5. Rotated(Q, c, w) = w
    BY <1>1, <1>6, RotatedCases
  <2>1. Rotated(R, a, w) = w /\ Rotated(Q, c, w) = w
    BY <2>4, <2>5
  <2>2. QED
    BY <1>2, <1>4, <1>11, <2>1
<1>7. CASE AntiCommute(Q, w) /\ a \in {0, 2}
  <2>1. c = a
    BY <1>4, <1>7
  <2>4. a = 0 \/ a = 2
    BY <1>7
  <2>5. AntiCommute(R, w)
    BY <1>3, <1>7, <1>11
  <2>6. a = 0 => Rotated(R, a, w) = w
    BY RotatedCases
  <2>7. a = 0 => Rotated(Q, a, w) = w
    BY <1>1, RotatedCases
  <2>8. a = 2 => Rotated(R, a, w) = TimesI(w, 2)
    BY <2>5, RotatedCases
  <2>9. a = 2 => Rotated(Q, a, w) = TimesI(w, 2)
    BY <1>1, <1>7, RotatedCases
  <2>2. Rotated(R, a, w) = Rotated(Q, a, w)
    BY <2>4, <2>6, <2>7, <2>8, <2>9
  <2>3. QED
    BY <1>2, <1>4, <1>11, <2>1, <2>2
<1>8. CASE AntiCommute(Q, w) /\ a \in {1, 3}
  <2>1. c \in {1, 3} /\ c = (2 + a) % 4
    BY <1>4, <1>8
  <2>8. AntiCommute(R, w)
    BY <1>3, <1>8, <1>11
  <2>6. Rotated(R, a, w) = TimesI(R ** w, a)
    BY <1>8, <2>8, RotatedCases
  <2>7. Rotated(Q, c, w) = TimesI(Q ** w, c)
    <3>1. c \in {1, 3} /\ AntiCommute(Q, w) /\ Q \in Words
      BY <1>1, <1>8, <2>1
    <3>2. QED
      BY <3>1, RotatedCases
  <2>2. Rotated(TimesI(Q, 2), a, w) = TimesI(TimesI(Q, 2) ** w, a) /\ Rotated(Q, c, w) = TimesI(Q ** w, c)
    BY <1>11, <2>6, <2>7
  <2>3. TimesI(Q, 2) ** w = TimesI(Q ** w, 2) /\ TimesI(TimesI(Q ** w, 2), a) = TimesI(Q ** w, (2 + a) % 4)
    BY <1>1, WordI, PhasesAdd
  <2>4. Rotated(TimesI(Q, 2), a, w) = Rotated(Q, c, w)
    BY <2>1, <2>2, <2>3
  <2>5. QED
    BY <1>2, <1>4, <2>4
<1>9. CASE a \in {0, 1, 2, 3}
  BY <1>2, <1>5, <1>6, <1>7, <1>8, <1>9
<1>10. QED
  BY <1>9

-----------------------------------------------------------------------------
(* What a Pauli is in a frame, qubit by qubit.                             *)

Frames == [Names -> [x : Words, z : Words]]

(* The words of a frame are related as the X's and Z's of qubits.          *)
Canonical(f) ==
  /\ f \in Frames
  /\ \A q \in Names : Hermitian(f[q].x) /\ Hermitian(f[q].z)
  /\ \A p, q \in Names :
       /\ ~AntiCommute(f[p].x, f[q].x) /\ ~AntiCommute(f[p].z, f[q].z)
       /\ AntiCommute(f[p].x, f[q].z) <=> p = q

Factor(f, n, p) == IF p = "I" THEN Idle ELSE WordOf(f, n, p)

(* The phase of the product of two factors *)
TurnOf(p, q) == IF <<p, q>> \in Cyclic THEN 1 ELSE IF <<q, p>> \in Cyclic THEN 3 ELSE 0

LEMMA TimesTable ==
  ASSUME NEW p \in PauliOp, NEW q \in PauliOp
  PROVE  /\ Times(p, q) \in PauliOp /\ TurnOf(p, q) \in 0 .. 3
         /\ p = "I" => Times(p, q) = q /\ TurnOf(p, q) = 0
         /\ q = "I" => Times(p, q) = p /\ TurnOf(p, q) = 0
         /\ p = q => Times(p, q) = "I" /\ TurnOf(p, q) = 0
         /\ {p, q} = {"X", "Y"} => Times(p, q) = "Z"
         /\ {p, q} = {"Y", "Z"} => Times(p, q) = "X"
         /\ {p, q} = {"X", "Z"} => Times(p, q) = "Y"
<1>1. TurnOf(p, q) \in 0 .. 3 /\ (p = q \/ p = "I" \/ q = "I" => TurnOf(p, q) = 0)
  BY DEF TurnOf, Cyclic
<1>2. /\ p = "I" => Times(p, q) = q
      /\ q = "I" => Times(p, q) = p
      /\ p = q => Times(p, q) = "I"
  BY DEF Times
<1>3. ASSUME p # "I", q # "I", p # q
      PROVE  Times(p, q) \in Axis /\ Times(p, q) \notin {p, q}
  <2>1. Times(p, q) = CHOOSE r \in Axis : r \notin {p, q}
    BY <1>3 DEF Times
  <2>2. \E r \in Axis : r \notin {p, q}
    <3>1. "X" \notin {p, q} \/ "Y" \notin {p, q} \/ "Z" \notin {p, q}
      OBVIOUS
    <3>2. QED
      BY <3>1 DEF Axis
  <2>3. QED
    BY <2>1, <2>2
<1>4. /\ {p, q} = {"X", "Y"} => Times(p, q) = "Z"
      /\ {p, q} = {"Y", "Z"} => Times(p, q) = "X"
      /\ {p, q} = {"X", "Z"} => Times(p, q) = "Y"
  BY <1>3 DEF Axis
<1>5. Times(p, q) \in PauliOp
  BY <1>2, <1>3 DEF PauliOp
<1>6. QED
  BY <1>1, <1>2, <1>4, <1>5

LEMMA FactorTypes ==
  ASSUME NEW f \in Frames, NEW n \in Names
  PROVE  /\ f[n].x \in Words /\ f[n].z \in Words
         /\ Factor(f, n, "I") = Idle /\ Factor(f, n, "X") = f[n].x /\ Factor(f, n, "Z") = f[n].z
         /\ Factor(f, n, "Y") = TimesI(f[n].x ** f[n].z, 1)
         /\ \A p \in PauliOp : Factor(f, n, p) \in Words
<1>1. f[n].x \in Words /\ f[n].z \in Words
  BY DEF Frames
<1>2. f[n].x ** f[n].z \in Words
  BY <1>1, WordTypes
<1>3. TimesI(f[n].x ** f[n].z, 1) \in Words
  BY <1>2, PhasedWord
<1>4. /\ Factor(f, n, "I") = Idle /\ Factor(f, n, "X") = f[n].x /\ Factor(f, n, "Z") = f[n].z
      /\ Factor(f, n, "Y") = TimesI(f[n].x ** f[n].z, 1)
  BY DEF Factor, WordOf, **
<1>5. QED
  BY <1>1, <1>3, <1>4, IdleWord DEF PauliOp, Axis

LEMMA FactorsApart ==
  ASSUME NEW f, Canonical(f), NEW n \in Names, NEW k \in Names, n # k,
         NEW p \in PauliOp, NEW q \in PauliOp
  PROVE  ~AntiCommute(Factor(f, n, p), Factor(f, k, q))
<1>1. PICK X \in Words : X = f[n].x
  BY FactorTypes DEF Canonical
<1>2. PICK Z \in Words : Z = f[n].z
  BY FactorTypes DEF Canonical
<1>3. PICK A \in Words : A = f[k].x
  BY FactorTypes DEF Canonical
<1>4. PICK B \in Words : B = f[k].z
  BY FactorTypes DEF Canonical
<1>5. /\ ~AntiCommute(X, A) /\ ~AntiCommute(X, B) /\ ~AntiCommute(Z, B) /\ ~AntiCommute(A, Z)
  BY <1>1, <1>2, <1>3, <1>4 DEF Canonical
<1>6. ~AntiCommute(Z, A)
  BY <1>5, AntiFacts
<1>7. PICK Y \in Words : Y = Factor(f, n, "Y")
  BY FactorTypes DEF Canonical, PauliOp, Axis
<1>8. PICK C \in Words : C = Factor(f, k, "Y")
  BY FactorTypes DEF Canonical, PauliOp, Axis
<1>9. Y = TimesI(X ** Z, 1) /\ C = TimesI(A ** B, 1)
  BY <1>1, <1>2, <1>3, <1>4, <1>7, <1>8, FactorTypes DEF Canonical
<1>10. ASSUME NEW w \in Words, ~AntiCommute(X, w), ~AntiCommute(Z, w)
       PROVE  ~AntiCommute(Y, w)
  <2>0. X ** Z \in Words
    BY WordTypes
  <2>1. X ** Z \in Words /\ ~AntiCommute(X ** Z, w)
    BY <1>10, <2>0, AntiFacts
  <2>2. QED
    BY <1>9, <2>1, AntiFacts
<1>11. ASSUME NEW w \in Words, ~AntiCommute(w, A), ~AntiCommute(w, B)
       PROVE  ~AntiCommute(w, C)
  <2>0. A ** B \in Words
    BY WordTypes
  <2>1. A ** B \in Words /\ ~AntiCommute(w, A ** B)
    BY <1>11, <2>0, AntiFacts
  <2>2. QED
    BY <1>9, <2>1, AntiFacts
<1>12. ~AntiCommute(Y, A) /\ ~AntiCommute(Y, B) /\ ~AntiCommute(X, C) /\ ~AntiCommute(Z, C)
  BY <1>5, <1>6, <1>10, <1>11
<1>13. ~AntiCommute(Y, C)
  BY <1>11, <1>12
<1>14. Factor(f, n, p) \in {Idle, X, Y, Z} /\ Factor(f, k, q) \in {Idle, A, B, C}
  BY <1>1, <1>2, <1>3, <1>4, <1>7, <1>8, FactorTypes DEF Canonical, PauliOp, Axis
<1>15. \A w \in Words : ~AntiCommute(Idle, w) /\ ~AntiCommute(w, Idle)
  BY AntiIsBeta, BetaIdle, IdleWord
<1>16. QED
  BY <1>5, <1>6, <1>12, <1>13, <1>14, <1>15, IdleWord

LEMMA FactorsOfOne ==
  ASSUME NEW f, Canonical(f), NEW n \in Names, NEW p \in PauliOp, NEW q \in PauliOp
  PROVE  /\ AntiCommute(Factor(f, n, p), Factor(f, n, q)) <=> p # "I" /\ q # "I" /\ p # q
         /\ Factor(f, n, p) ** Factor(f, n, q) = TimesI(Factor(f, n, Times(p, q)), TurnOf(p, q))
         /\ Hermitian(Factor(f, n, p))
<1>1. PICK X \in Words : X = f[n].x
  BY FactorTypes DEF Canonical
<1>2. PICK Z \in Words : Z = f[n].z
  BY FactorTypes DEF Canonical
<1>3. PICK C \in Words : C = X ** Z
  BY WordTypes
<1>4. PICK Y \in Words : Y = TimesI(C, 1)
  BY PhasedWord
<1>5. Factor(f, n, "X") = X /\ Factor(f, n, "Y") = Y /\ Factor(f, n, "Z") = Z /\ Factor(f, n, "I") = Idle
  BY <1>1, <1>2, <1>3, <1>4, FactorTypes DEF Canonical
<1>6. X ** X = Idle /\ Z ** Z = Idle /\ AntiCommute(X, Z) /\ AntiCommute(Z, X)
  <2>1. X ** X = Idle /\ Z ** Z = Idle /\ AntiCommute(X, Z)
    BY <1>1, <1>2 DEF Canonical, Hermitian
  <2>2. QED
    BY <2>1, AntiFacts
<1>7. X ** C = Z /\ C ** Z = X
  <2>1. X ** C = (X ** X) ** Z /\ C ** Z = X ** (Z ** Z)
    BY <1>3, WordAssoc
  <2>2. QED
    BY <1>6, <2>1, WordUnit
<1>8. C ** X = TimesI(Z, 2) /\ Z ** C = TimesI(X, 2) /\ Z ** X = TimesI(C, 2)
  <2>1. ~AntiCommute(X, X) /\ ~AntiCommute(Z, Z)
    BY AntiFacts
  <2>2. AntiCommute(C, X) /\ AntiCommute(Z, C)
    BY <1>3, <1>6, <2>1, AntiFacts
  <2>3. C ** X = TimesI(X ** C, 2) /\ Z ** C = TimesI(C ** Z, 2) /\ Z ** X = TimesI(X ** Z, 2)
    BY <1>6, <2>2, WordSwap
  <2>4. QED
    BY <1>3, <1>7, <2>3
<1>9. X ** Y = TimesI(Z, 1) /\ Y ** X = TimesI(Z, 3)
  <2>1. X ** Y = TimesI(X ** C, 1) /\ Y ** X = TimesI(C ** X, 1)
    BY <1>4, WordI
  <2>2. TimesI(TimesI(Z, 2), 1) = TimesI(Z, (2 + 1) % 4)
    BY PhasesAdd
  <2>3. QED
    BY <1>7, <1>8, <2>1, <2>2
<1>10. Y ** Z = TimesI(X, 1) /\ Z ** Y = TimesI(X, 3)
  <2>1. Z ** Y = TimesI(Z ** C, 1) /\ Y ** Z = TimesI(C ** Z, 1)
    BY <1>4, WordI
  <2>2. TimesI(TimesI(X, 2), 1) = TimesI(X, (2 + 1) % 4)
    BY PhasesAdd
  <2>3. QED
    BY <1>7, <1>8, <2>1, <2>2
<1>11. Z ** X = TimesI(Y, 1) /\ X ** Z = TimesI(Y, 3)
  <2>1. TimesI(TimesI(C, 1), 1) = TimesI(C, (1 + 1) % 4) /\ TimesI(TimesI(C, 1), 3) = TimesI(C, (1 + 3) % 4)
    BY PhasesAdd
  <2>2. TimesI(C, 0) = C /\ (1 + 1) % 4 = 2 /\ (1 + 3) % 4 = 0
    BY WordUnit
  <2>3. QED
    BY <1>3, <1>4, <1>8, <2>1, <2>2
<1>12. Y ** Y = Idle
  <2>0. C ** C \in Words
    BY WordTypes
  <2>1. Y ** Y = TimesI(Y ** C, 1) /\ Y ** C = TimesI(C ** C, 1) /\ C ** C \in Words
    BY <1>4, <2>0, WordI
  <2>2. C ** C = TimesI(Idle, 2)
    <3>1. C ** C = (C ** X) ** Z
      BY <1>3, WordAssoc
    <3>2. TimesI(Z, 2) ** Z = TimesI(Z ** Z, 2)
      BY WordI
    <3>3. QED
      BY <1>6, <1>8, <3>1, <3>2
  <2>3. TimesI(TimesI(C ** C, 1), 1) = TimesI(C ** C, (1 + 1) % 4) /\ (1 + 1) % 4 = 2
    BY <2>1, PhasesAdd
  <2>4. TimesI(TimesI(Idle, 2), 2) = Idle
    BY IdleWord, Half
  <2>5. QED
    BY <2>1, <2>2, <2>3, <2>4
<1>13. \A w \in Words : Idle ** w = w /\ w ** Idle = w /\ TimesI(w, 0) = w
  BY WordUnit
<1>14. Hermitian(Factor(f, n, p))
  BY <1>5, <1>6, <1>12, <1>13, IdleWord DEF Hermitian, PauliOp, Axis
<1>15. Factor(f, n, p) ** Factor(f, n, q) = TimesI(Factor(f, n, Times(p, q)), TurnOf(p, q))
  <2>1. /\ TurnOf("X", "Y") = 1 /\ TurnOf("Y", "X") = 3 /\ TurnOf("Y", "Z") = 1 /\ TurnOf("Z", "Y") = 3
        /\ TurnOf("Z", "X") = 1 /\ TurnOf("X", "Z") = 3
    BY DEF TurnOf, Cyclic
  <2>2. CASE p = "I" \/ q = "I" \/ p = q
    <3>1. Factor(f, n, p) \in Words /\ Factor(f, n, q) \in Words
      BY <1>5, IdleWord DEF PauliOp, Axis
    <3>2. Factor(f, n, p) ** Factor(f, n, p) = Idle
      BY <1>14 DEF Hermitian
    <3>3. QED
      BY <1>5, <1>13, <2>2, <3>1, <3>2, TimesTable, IdleWord
  <2>3. CASE p # "I" /\ q # "I" /\ p # q
    BY <1>5, <1>9, <1>10, <1>11, <2>1, <2>3, TimesTable DEF PauliOp, Axis
  <2>4. QED
    BY <2>2, <2>3
<1>16. AntiCommute(Factor(f, n, p), Factor(f, n, q)) <=> p # "I" /\ q # "I" /\ p # q
  <2>1. ~AntiCommute(X, X) /\ ~AntiCommute(Z, Z) /\ ~AntiCommute(Y, Y)
    BY AntiFacts
  <2>2. /\ AntiCommute(C, X) /\ AntiCommute(X, C) /\ AntiCommute(C, Z) /\ AntiCommute(Z, C)
    BY <1>3, <1>6, <2>1, AntiFacts
  <2>3. /\ AntiCommute(Y, X) /\ AntiCommute(X, Y) /\ AntiCommute(Y, Z) /\ AntiCommute(Z, Y)
    BY <1>4, <2>2, AntiFacts
  <2>4. \A w \in Words : ~AntiCommute(Idle, w) /\ ~AntiCommute(w, Idle)
    BY AntiIsBeta, BetaIdle, IdleWord
  <2>5. QED
    BY <1>5, <1>6, <2>1, <2>3, <2>4, IdleWord DEF PauliOp, Axis
<1>17. QED
  BY <1>14, <1>15, <1>16

-----------------------------------------------------------------------------
(* The words of Paulis, up to some qubit.                                  *)

WordStep(g, f, P, n) ==
  IF n = 0 THEN TimesI(Word({}, {}), P.phase)
  ELSE IF P.op[n] = "I" THEN g[n - 1]
  ELSE WordProduct(g[n - 1], WordOf(f, n, P.op[n]))

IsWordTo(g, f, P, N) == g = [n \in 0 .. N |-> WordStep(g, f, P, n)]

WordTo(f, P) == CHOOSE g : IsWordTo(g, f, P, NQ)

LEMMA WordToExists ==
  ASSUME NEW f, NEW P, NEW N \in Nat
  PROVE  \E g : IsWordTo(g, f, P, N)
<1> DEFINE reached == {n \in 0 .. N : \E g : IsWordTo(g, f, P, n)}
<1>1. 0 \in reached
  <2> DEFINE g == [k \in 0 .. 0 |-> TimesI(Word({}, {}), P.phase)]
  <2>1. \A k \in 0 .. 0 : WordStep(g, f, P, k) = TimesI(Word({}, {}), P.phase)
    BY DEF WordStep
  <2>2. IsWordTo(g, f, P, 0)
    BY <2>1 DEF IsWordTo
  <2>3. QED
    BY <2>2
<1>2. \A n \in 0 .. N - 1 : n \in reached => n + 1 \in reached
  <2> SUFFICES ASSUME NEW n \in 0 .. N - 1, n \in reached PROVE n + 1 \in reached
    OBVIOUS
  <2>1. PICK g : IsWordTo(g, f, P, n)
    OBVIOUS
  <2>2. PICK last : last = WordStep(g, f, P, n + 1)
    OBVIOUS
  <2> DEFINE h == [k \in 0 .. n + 1 |-> IF k <= n THEN g[k] ELSE last]
  <2>3. ASSUME NEW k \in 0 .. n + 1 PROVE h[k] = WordStep(h, f, P, k)
    <3>1. k # 0 => k - 1 \in 0 .. n + 1 /\ k - 1 <= n /\ h[k - 1] = g[k - 1]
      OBVIOUS
    <3>2. WordStep(h, f, P, k) = WordStep(g, f, P, k)
      BY <3>1 DEF WordStep
    <3>3. CASE k <= n
      <4>1. k \in 0 .. n /\ h[k] = g[k]
        BY <3>3
      <4>2. g[k] = WordStep(g, f, P, k)
        BY <2>1, <4>1 DEF IsWordTo
      <4>3. QED
        BY <3>2, <4>1, <4>2
    <3>4. CASE ~(k <= n)
      <4>1. k = n + 1 /\ h[k] = last
        BY <3>4
      <4>2. QED
        BY <2>2, <3>2, <4>1
    <3>5. QED
      BY <3>3, <3>4
  <2>4. h = [k \in 0 .. n + 1 |-> h[k]]
    OBVIOUS
  <2> HIDE DEF h
  <2>5. h = [k \in 0 .. n + 1 |-> WordStep(h, f, P, k)]
    BY <2>3, <2>4
  <2>6. IsWordTo(h, f, P, n + 1)
    BY <2>5 DEF IsWordTo
  <2>7. QED
    BY <2>6
<1> HIDE DEF reached
<1>3. \A n \in 0 .. N : n \in reached
  BY <1>1, <1>2, Induction
<1>4. QED
  BY <1>3 DEF reached

LEMMA WordToSteps ==
  ASSUME NEW f, NEW P
  PROVE  /\ WordOfPauli(f, P) = WordTo(f, P)[NQ]
         /\ WordTo(f, P)[0] = TimesI(Idle, P.phase)
         /\ \A n \in 1 .. NQ :
              WordTo(f, P)[n] = IF P.op[n] = "I" THEN WordTo(f, P)[n - 1]
                                ELSE WordTo(f, P)[n - 1] ** Factor(f, n, P.op[n])
<1>1. IsWordTo(WordTo(f, P), f, P, NQ)
  BY WordToExists, SizeAssumption DEF WordTo
<1>2. PICK g : g = WordTo(f, P)
  OBVIOUS
<1>3. \A n \in 0 .. NQ : g[n] = WordStep(g, f, P, n)
  BY <1>1, <1>2 DEF IsWordTo
<1>4. g[0] = TimesI(Idle, P.phase)
  <2>1. 0 \in 0 .. NQ
    BY SizeAssumption
  <2>2. QED
    BY <1>3, <2>1 DEF WordStep, Idle
<1>5. ASSUME NEW n \in 1 .. NQ
      PROVE  g[n] = IF P.op[n] = "I" THEN g[n - 1] ELSE g[n - 1] ** Factor(f, n, P.op[n])
  <2>1. n \in 0 .. NQ /\ n # 0
    OBVIOUS
  <2>2. QED
    BY <1>3, <2>1 DEF WordStep, Factor, **
<1>6. WordOfPauli(f, P) = WordTo(f, P)[NQ]
  BY DEF WordOfPauli, WordTo, IsWordTo, WordStep
<1>7. QED
  BY <1>2, <1>4, <1>5, <1>6

LEMMA PauliTypes ==
  ASSUME NEW P \in Pauli
  PROVE  P.phase \in 0 .. 3 /\ P.op \in [Names -> PauliOp] /\ (\A n \in 1 .. NQ : P.op[n] \in PauliOp)
         /\ P = [op |-> P.op, phase |-> P.phase]
BY DEF Pauli, Names

LEMMA WordToTypes ==
  ASSUME NEW f \in Frames, NEW P \in Pauli
  PROVE  /\ \A n \in 0 .. NQ : WordTo(f, P)[n] \in Words
         /\ \A n \in 1 .. NQ : WordTo(f, P)[n] = WordTo(f, P)[n - 1] ** Factor(f, n, P.op[n])
         /\ WordOfPauli(f, P) \in Words
<1>1. PICK g : g = WordTo(f, P)
  OBVIOUS
<1>2. /\ g[0] = TimesI(Idle, P.phase)
      /\ \A n \in 1 .. NQ : g[n] = IF P.op[n] = "I" THEN g[n - 1] ELSE g[n - 1] ** Factor(f, n, P.op[n])
  BY <1>1, WordToSteps
<1> DEFINE good == {n \in 0 .. NQ : g[n] \in Words}
<1>3. 0 \in good
  <2>1. P.phase \in 0 .. 3 /\ 0 \in 0 .. NQ
    BY PauliTypes, SizeAssumption
  <2>2. TimesI(Idle, P.phase) \in Words
    BY <2>1, IdleWord, PhasedWord
  <2>3. QED
    BY <1>2, <2>1, <2>2
<1>4. \A n \in 1 .. NQ : Factor(f, n, P.op[n]) \in Words
  <2> SUFFICES ASSUME NEW n \in 1 .. NQ PROVE Factor(f, n, P.op[n]) \in Words
    OBVIOUS
  <2>1. n \in Names /\ P.op[n] \in PauliOp
    BY PauliTypes DEF Names
  <2>2. QED
    BY <2>1, FactorTypes
<1>5. \A n \in 0 .. NQ - 1 : n \in good => n + 1 \in good
  <2> SUFFICES ASSUME NEW n \in 0 .. NQ - 1, g[n] \in Words PROVE n + 1 \in good
    OBVIOUS
  <2>1. n + 1 \in 1 .. NQ /\ n + 1 \in 0 .. NQ /\ (n + 1) - 1 = n
    BY SizeAssumption
  <2>2. g[n] ** Factor(f, n + 1, P.op[n + 1]) \in Words
    BY <1>4, <2>1, WordTypes
  <2>3. g[n + 1] \in Words
    BY <1>2, <2>1, <2>2
  <2>4. QED
    BY <2>1, <2>3
<1> HIDE DEF good
<1>6. \A n \in 0 .. NQ : n \in good
  BY <1>3, <1>5, Induction, SizeAssumption
<1>7. \A n \in 0 .. NQ : g[n] \in Words
  BY <1>6 DEF good
<1>8. ASSUME NEW n \in 1 .. NQ PROVE g[n] = g[n - 1] ** Factor(f, n, P.op[n])
  <2>1. n - 1 \in 0 .. NQ
    BY SizeAssumption
  <2>2. g[n - 1] ** Idle = g[n - 1]
    BY <1>7, <2>1, WordUnit
  <2>3. P.op[n] = "I" => Factor(f, n, P.op[n]) = Idle
    BY DEF Factor
  <2>4. QED
    BY <1>2, <2>2, <2>3
<1>9. NQ \in 0 .. NQ
  BY SizeAssumption
<1>10. QED
  BY <1>1, <1>7, <1>8, <1>9, WordToSteps

(* The phase of a Pauli is that of its word. *)
LEMMA WordToPhase ==
  ASSUME NEW f \in Frames, NEW P \in Pauli, NEW k \in 0 .. 3, NEW Q, Q = Phased(P, k)
  PROVE  /\ Q \in Pauli /\ Q.op = P.op /\ Q.phase = (P.phase + k) % 4
         /\ \A n \in 0 .. NQ : WordTo(f, Q)[n] = TimesI(WordTo(f, P)[n], k)
         /\ WordOfPauli(f, Q) = TimesI(WordOfPauli(f, P), k)
<1>1. P.phase \in 0 .. 3 /\ P.op \in [Names -> PauliOp] /\ P = [op |-> P.op, phase |-> P.phase]
  BY PauliTypes
<1>2. (P.phase + k) % 4 \in 0 .. 3
  BY <1>1
<1>3. Q = [op |-> P.op, phase |-> (P.phase + k) % 4]
  BY <1>1 DEF Phased
<1>4. Q \in Pauli /\ Q.op = P.op /\ Q.phase = (P.phase + k) % 4
  BY <1>1, <1>2, <1>3 DEF Pauli
<1>5. PICK g : g = WordTo(f, P)
  OBVIOUS
<1>6. PICK h : h = WordTo(f, Q)
  OBVIOUS
<1>7. /\ \A n \in 0 .. NQ : g[n] \in Words /\ h[n] \in Words
      /\ \A n \in 1 .. NQ : g[n] = g[n - 1] ** Factor(f, n, P.op[n])
      /\ \A n \in 1 .. NQ : h[n] = h[n - 1] ** Factor(f, n, P.op[n])
      /\ g[0] = TimesI(Idle, P.phase) /\ h[0] = TimesI(Idle, Q.phase)
  BY <1>4, <1>5, <1>6, WordToTypes, WordToSteps
<1> DEFINE good == {n \in 0 .. NQ : h[n] = TimesI(g[n], k)}
<1>8. 0 \in good
  <2>1. TimesI(TimesI(Idle, P.phase), k) = TimesI(Idle, (P.phase + k) % 4)
    BY <1>1, IdleWord, PhasesAdd
  <2>2. 0 \in 0 .. NQ
    BY SizeAssumption
  <2>3. QED
    BY <1>4, <1>7, <2>1, <2>2
<1>9. \A n \in 0 .. NQ - 1 : n \in good => n + 1 \in good
  <2> SUFFICES ASSUME NEW n \in 0 .. NQ - 1, h[n] = TimesI(g[n], k) PROVE n + 1 \in good
    OBVIOUS
  <2>1. n + 1 \in 1 .. NQ /\ n + 1 \in 0 .. NQ /\ (n + 1) - 1 = n /\ n \in 0 .. NQ /\ n + 1 \in Names
    BY SizeAssumption DEF Names
  <2>2. PICK F \in Words : F = Factor(f, n + 1, P.op[n + 1])
    BY <2>1, PauliTypes, FactorTypes
  <2>3. TimesI(g[n], k) ** F = TimesI(g[n] ** F, k)
    BY <1>7, <2>1, WordI
  <2>4. h[n + 1] = h[n] ** F /\ g[n + 1] = g[n] ** F
    BY <1>7, <2>1, <2>2
  <2>5. QED
    BY <2>1, <2>3, <2>4
<1> HIDE DEF good
<1>10. \A n \in 0 .. NQ : n \in good
  BY <1>8, <1>9, Induction, SizeAssumption
<1>11. \A n \in 0 .. NQ : h[n] = TimesI(g[n], k)
  BY <1>10 DEF good
<1>12. NQ \in 0 .. NQ
  BY SizeAssumption
<1>13. QED
  BY <1>4, <1>5, <1>6, <1>11, <1>12, WordToSteps

LEMMA WordPhase ==
  ASSUME NEW f \in Frames, NEW P \in Pauli, NEW k \in 0 .. 3
  PROVE  /\ Phased(P, k) \in Pauli
         /\ WordOfPauli(f, Phased(P, k)) = TimesI(WordOfPauli(f, P), k)
<1>1. PICK Q : Q = Phased(P, k)
  OBVIOUS
<1>2. Q \in Pauli /\ WordOfPauli(f, Q) = TimesI(WordOfPauli(f, P), k)
  BY <1>1, WordToPhase
<1>3. QED
  BY <1>1, <1>2

-----------------------------------------------------------------------------
(* The word of a product is the product of the words, and Paulis commute   *)
(* if and only if their words do.                                          *)

(* Counting up to n *)
LEMMA CountStep ==
  ASSUME NEW S, S \subseteq Nat, NEW n \in Nat, n > 0, NEW up, up = {q \in 1 .. n : q \in S},
         NEW below, below = {q \in 1 .. n - 1 : q \in S}
  PROVE  /\ Cardinality(up) \in Nat /\ Cardinality(below) \in Nat
         /\ Cardinality(up) = Cardinality(below) + (IF n \in S THEN 1 ELSE 0)
<1>1. IsFiniteSet(1 .. n - 1) /\ below \subseteq 1 .. n - 1
  BY FS_Interval
<1>2. IsFiniteSet(below)
  BY <1>1, FS_Subset
<1>3. Cardinality(below) \in Nat
  BY <1>2, FS_CardinalityType
<1>4. n \notin below
  OBVIOUS
<1>5. CASE n \in S
  <2>1. up = below \cup {n}
    BY <1>5
  <2>2. Cardinality(up) = Cardinality(below) + 1
    BY <1>2, <1>4, <2>1, FS_AddElement
  <2>3. QED
    BY <1>3, <1>5, <2>2
<1>6. CASE n \notin S
  <2>1. up = below
    BY <1>6
  <2>2. PICK c \in Nat : c = Cardinality(below)
    BY <1>3
  <2>3. Cardinality(up) = c
    BY <2>1, <2>2
  <2>4. c = c + 0
    BY <2>2
  <2>5. QED
    BY <1>6, <2>2, <2>3, <2>4
<1>7. QED
  BY <1>5, <1>6

TurnCount(P, Q, n) == (Cardinality(Turns(P, Q, n)) + 3 * Cardinality(TurnsBack(P, Q, n))) % 4

LEMMA TurnsEmpty ==
  ASSUME NEW P, NEW Q
  PROVE  TurnCount(P, Q, 0) = 0
<1>1. Turns(P, Q, 0) = {} /\ TurnsBack(P, Q, 0) = {}
  BY DEF Turns, TurnsBack
<1>2. Cardinality({}) = 0
  BY FS_EmptySet
<1>3. QED
  BY <1>1, <1>2 DEF TurnCount

LEMMA TurnsStep ==
  ASSUME NEW P, NEW Q, NEW n \in 1 .. NQ
  PROVE  /\ TurnCount(P, Q, n - 1) \in 0 .. 3 /\ TurnCount(P, Q, n) \in 0 .. 3
         /\ TurnCount(P, Q, n) = (TurnCount(P, Q, n - 1) + TurnOf(P.op[n], Q.op[n])) % 4
         /\ Cardinality(Turns(P, Q, n)) \in Nat /\ Cardinality(TurnsBack(P, Q, n)) \in Nat
<1> DEFINE S == {q \in Nat : <<P.op[q], Q.op[q]>> \in Cyclic}
           T == {q \in Nat : <<Q.op[q], P.op[q]>> \in Cyclic}
<1>1. /\ Turns(P, Q, n) = {q \in 1 .. n : q \in S}
      /\ TurnsBack(P, Q, n) = {q \in 1 .. n : q \in T}
      /\ Turns(P, Q, n - 1) = {q \in 1 .. n - 1 : q \in S}
      /\ TurnsBack(P, Q, n - 1) = {q \in 1 .. n - 1 : q \in T}
  BY DEF Turns, TurnsBack
<1>2. S \subseteq Nat /\ T \subseteq Nat /\ n \in Nat /\ n > 0
  OBVIOUS
<1>3. TurnOf(P.op[n], Q.op[n]) = IF n \in S THEN 1 ELSE IF n \in T THEN 3 ELSE 0
  BY DEF TurnOf
<1>4. ~(n \in S /\ n \in T)
  <2>1. \A a, b : ~(<<a, b>> \in Cyclic /\ <<b, a>> \in Cyclic)
    BY DEF Cyclic
  <2>2. QED
    BY <2>1
<1> HIDE DEF S, T
<1>5. PICK a \in Nat : a = Cardinality(Turns(P, Q, n - 1))
  BY <1>1, <1>2, CountStep
<1>6. PICK b \in Nat : b = Cardinality(TurnsBack(P, Q, n - 1))
  BY <1>1, <1>2, CountStep
<1>7. Cardinality(Turns(P, Q, n)) = a + (IF n \in S THEN 1 ELSE 0)
  BY <1>1, <1>2, <1>5, CountStep
<1>8. Cardinality(TurnsBack(P, Q, n)) = b + (IF n \in T THEN 1 ELSE 0)
  BY <1>1, <1>2, <1>6, CountStep
<1>9. /\ ((a + 1) + 3 * b) % 4 = (((a + 3 * b) % 4) + 1) % 4
      /\ (a + 3 * (b + 1)) % 4 = (((a + 3 * b) % 4) + 3) % 4
      /\ (a + 3 * b) % 4 = (((a + 3 * b) % 4) + 0) % 4
      /\ ((a + 0) + 3 * b) % 4 = (((a + 3 * b) % 4) + 0) % 4
      /\ a + 0 = a /\ b + 0 = b
      /\ (a + 3 * b) % 4 \in 0 .. 3 /\ ((a + 1) + 3 * b) % 4 \in 0 .. 3 /\ (a + 3 * (b + 1)) % 4 \in 0 .. 3
  OBVIOUS
<1>10. TurnCount(P, Q, n - 1) = (a + 3 * b) % 4
  BY <1>5, <1>6 DEF TurnCount
<1>11. CASE n \in S
  <2>1. TurnCount(P, Q, n) = ((a + 1) + 3 * b) % 4
    BY <1>4, <1>7, <1>8, <1>9, <1>11 DEF TurnCount
  <2>2. QED
    BY <1>3, <1>4, <1>7, <1>8, <1>9, <1>10, <1>11, <2>1
<1>12. CASE n \notin S /\ n \in T
  <2>1. TurnCount(P, Q, n) = (a + 3 * (b + 1)) % 4
    BY <1>7, <1>8, <1>9, <1>12 DEF TurnCount
  <2>2. QED
    BY <1>3, <1>7, <1>8, <1>9, <1>10, <1>12, <2>1
<1>13. CASE n \notin S /\ n \notin T
  <2>1. TurnCount(P, Q, n) = (a + 3 * b) % 4
    BY <1>7, <1>8, <1>9, <1>13 DEF TurnCount
  <2>2. QED
    BY <1>3, <1>7, <1>8, <1>9, <1>10, <1>13, <2>1
<1>14. QED
  BY <1>11, <1>12, <1>13

(* Nothing up to n has to do with the qubits after it. *)
LEMMA WordToAhead ==
  ASSUME NEW f, Canonical(f), NEW P \in Pauli, NEW k \in Names, NEW q \in PauliOp
  PROVE  \A n \in 0 .. k - 1 : ~AntiCommute(WordTo(f, P)[n], Factor(f, k, q))
<1>1. PICK F \in Words : F = Factor(f, k, q)
  BY FactorTypes DEF Canonical
<1>2. PICK g : g = WordTo(f, P)
  OBVIOUS
<1>3. /\ \A n \in 0 .. NQ : g[n] \in Words
      /\ \A n \in 1 .. NQ : g[n] = g[n - 1] ** Factor(f, n, P.op[n])
      /\ g[0] = TimesI(Idle, P.phase)
  BY <1>2, WordToTypes, WordToSteps DEF Canonical
<1>4. k \in 1 .. NQ /\ k - 1 \in Nat /\ NQ \in Nat
  BY SizeAssumption DEF Names
<1> DEFINE good == {n \in 0 .. k - 1 : ~AntiCommute(g[n], F)}
<1>5. 0 \in good
  <2>1. P.phase \in 0 .. 3 /\ ~AntiCommute(Idle, F)
    BY PauliTypes, AntiIsBeta, BetaIdle, IdleWord
  <2>2. ~AntiCommute(TimesI(Idle, P.phase), F)
    BY <2>1, IdleWord, AntiFacts
  <2>3. QED
    BY <1>3, <1>4, <2>2
<1>6. \A n \in 0 .. (k - 1) - 1 : n \in good => n + 1 \in good
  <2> SUFFICES ASSUME NEW n \in 0 .. (k - 1) - 1, ~AntiCommute(g[n], F) PROVE n + 1 \in good
    OBVIOUS
  <2>1. n + 1 \in 1 .. NQ /\ n + 1 \in Names /\ n \in 0 .. NQ /\ (n + 1) - 1 = n /\ n + 1 # k /\ n + 1 \in 0 .. k - 1
    BY <1>4 DEF Names
  <2>2. PICK G \in Words : G = Factor(f, n + 1, P.op[n + 1])
    BY <2>1, PauliTypes, FactorTypes DEF Canonical
  <2>3. P.op[n + 1] \in PauliOp
    BY <2>1, PauliTypes
  <2>4. ~AntiCommute(G, F)
    BY <1>1, <2>1, <2>2, <2>3, FactorsApart
  <2>5. ~AntiCommute(g[n] ** G, F)
    BY <1>3, <2>1, <2>4, AntiFacts
  <2>6. g[n + 1] = g[n] ** G
    BY <1>3, <2>1, <2>2
  <2>7. QED
    BY <2>1, <2>5, <2>6
<1> HIDE DEF good
<1>7. \A n \in 0 .. k - 1 : n \in good
  BY <1>4, <1>5, <1>6, Induction
<1>8. \A n \in 0 .. k - 1 : ~AntiCommute(g[n], F)
  BY <1>7 DEF good
<1>9. QED
  BY <1>1, <1>2, <1>8

LEMMA ProductTypes ==
  ASSUME NEW P \in Pauli, NEW Q \in Pauli
  PROVE  /\ Product(P, Q) \in Pauli
         /\ Product(P, Q).op = [q \in Names |-> Times(P.op[q], Q.op[q])]
         /\ Product(P, Q).phase = (((P.phase + Q.phase) % 4) + TurnCount(P, Q, NQ)) % 4
         /\ TurnCount(P, Q, NQ) \in 0 .. 3
<1>1. PICK p \in 0 .. 3 : p = P.phase
  BY PauliTypes
<1>2. PICK q \in 0 .. 3 : q = Q.phase
  BY PauliTypes
<1>3. Cardinality(Turns(P, Q, NQ)) \in Nat /\ Cardinality(TurnsBack(P, Q, NQ)) \in Nat
  <2>1. CASE NQ = 0
    <3>1. Turns(P, Q, NQ) = {} /\ TurnsBack(P, Q, NQ) = {}
      BY <2>1 DEF Turns, TurnsBack
    <3>2. Cardinality({}) = 0
      BY FS_EmptySet
    <3>3. QED
      BY <3>1, <3>2
  <2>2. CASE NQ # 0
    <3>1. NQ \in 1 .. NQ
      BY <2>2, SizeAssumption
    <3>2. QED
      BY <3>1, TurnsStep
  <2>3. QED
    BY <2>1, <2>2
<1>4. PICK a \in Nat : a = Cardinality(Turns(P, Q, NQ))
  BY <1>3
<1>5. PICK b \in Nat : b = Cardinality(TurnsBack(P, Q, NQ))
  BY <1>3
<1>6. (p + q + a + 3 * b) % 4 = (((p + q) % 4) + ((a + 3 * b) % 4)) % 4 /\ (p + q + a + 3 * b) % 4 \in 0 .. 3
      /\ (a + 3 * b) % 4 \in 0 .. 3
  OBVIOUS
<1>7. Product(P, Q) = [op |-> [n \in Names |-> Times(P.op[n], Q.op[n])], phase |-> (p + q + a + 3 * b) % 4]
  BY <1>1, <1>2, <1>4, <1>5 DEF Product
<1>8. \A n \in Names : Times(P.op[n], Q.op[n]) \in PauliOp
  BY PauliTypes, TimesTable DEF Names
<1>9. TurnCount(P, Q, NQ) = (a + 3 * b) % 4
  BY <1>4, <1>5 DEF TurnCount
<1>10. Product(P, Q) \in Pauli
  BY <1>6, <1>7, <1>8 DEF Pauli
<1>11. QED
  BY <1>1, <1>2, <1>6, <1>7, <1>9, <1>10

LEMMA WordOfProduct ==
  ASSUME NEW f, Canonical(f), NEW P \in Pauli, NEW Q \in Pauli
  PROVE  WordOfPauli(f, Product(P, Q)) = WordOfPauli(f, P) ** WordOfPauli(f, Q)
<1>1. f \in Frames
  BY DEF Canonical
<1>2. PICK sum \in 0 .. 3 : sum = (P.phase + Q.phase) % 4
  BY PauliTypes
<1>3. PICK B : B = [op |-> [q \in Names |-> Times(P.op[q], Q.op[q])], phase |-> sum]
  OBVIOUS
<1>4. B \in Pauli /\ B.phase = sum /\ (\A q \in Names : B.op[q] = Times(P.op[q], Q.op[q]))
  <2>1. \A q \in Names : Times(P.op[q], Q.op[q]) \in PauliOp
    BY PauliTypes, TimesTable DEF Names
  <2>2. QED
    BY <1>3, <2>1 DEF Pauli
<1>5. Product(P, Q) = Phased(B, TurnCount(P, Q, NQ)) /\ TurnCount(P, Q, NQ) \in 0 .. 3
  <2>1. PICK R \in Pauli : R = Product(P, Q)
    BY ProductTypes
  <2>2. R = [op |-> R.op, phase |-> R.phase] /\ R.op = B.op /\ R.phase = (B.phase + TurnCount(P, Q, NQ)) % 4
    BY <1>2, <1>3, <2>1, PauliTypes, ProductTypes
  <2>3. Phased(B, TurnCount(P, Q, NQ)) = [op |-> B.op, phase |-> (B.phase + TurnCount(P, Q, NQ)) % 4]
    BY <1>3 DEF Phased
  <2>4. QED
    BY <2>1, <2>2, <2>3, ProductTypes
<1>6. PICK g : g = WordTo(f, P)
  OBVIOUS
<1>7. PICK h : h = WordTo(f, Q)
  OBVIOUS
<1>8. PICK k : k = WordTo(f, B)
  OBVIOUS
<1>9. /\ \A n \in 0 .. NQ : g[n] \in Words /\ h[n] \in Words /\ k[n] \in Words
      /\ \A n \in 1 .. NQ : g[n] = g[n - 1] ** Factor(f, n, P.op[n])
      /\ \A n \in 1 .. NQ : h[n] = h[n - 1] ** Factor(f, n, Q.op[n])
      /\ \A n \in 1 .. NQ : k[n] = k[n - 1] ** Factor(f, n, B.op[n])
      /\ g[0] = TimesI(Idle, P.phase) /\ h[0] = TimesI(Idle, Q.phase) /\ k[0] = TimesI(Idle, sum)
  BY <1>1, <1>4, <1>6, <1>7, <1>8, WordToTypes, WordToSteps
<1> DEFINE good == {n \in 0 .. NQ : g[n] ** h[n] = TimesI(k[n], TurnCount(P, Q, n))}
<1>10. 0 \in good
  <2>1. P.phase \in 0 .. 3 /\ Q.phase \in 0 .. 3 /\ Idle \in Words
    BY PauliTypes, IdleWord
  <2>2. TimesI(Idle, P.phase) \in Words /\ TimesI(Idle, sum) \in Words
    BY <2>1, PhasedWord
  <2>3. TimesI(Idle, P.phase) ** TimesI(Idle, Q.phase) = TimesI(TimesI(Idle, P.phase) ** Idle, Q.phase)
    BY <2>1, <2>2, WordI
  <2>4. TimesI(Idle, P.phase) ** Idle = TimesI(Idle, P.phase)
    BY <2>2, WordUnit
  <2>5. TimesI(TimesI(Idle, P.phase), Q.phase) = TimesI(Idle, sum)
    BY <1>2, <2>1, PhasesAdd
  <2>6. TimesI(TimesI(Idle, sum), 0) = TimesI(Idle, sum)
    BY <2>2, WordUnit
  <2>7. 0 \in 0 .. NQ
    BY SizeAssumption
  <2>8. QED
    BY <1>9, <2>3, <2>4, <2>5, <2>6, <2>7, TurnsEmpty
<1>11. \A n \in 0 .. NQ - 1 : n \in good => n + 1 \in good
  <2> SUFFICES ASSUME NEW n \in 0 .. NQ - 1, g[n] ** h[n] = TimesI(k[n], TurnCount(P, Q, n))
               PROVE  g[n + 1] ** h[n + 1] = TimesI(k[n + 1], TurnCount(P, Q, n + 1))
    BY SizeAssumption
  <2>1. PICK m \in Names : m = n + 1 /\ m \in 1 .. NQ /\ m - 1 = n /\ n \in 0 .. NQ /\ n \in 0 .. m - 1 /\ m \in 0 .. NQ
    BY SizeAssumption DEF Names
  <2>2. PICK p \in PauliOp : p = P.op[m]
    BY <2>1, PauliTypes
  <2>3. PICK q \in PauliOp : q = Q.op[m]
    BY <2>1, PauliTypes
  <2>4. PICK F \in Words : F = Factor(f, m, p)
    BY <1>1, FactorTypes
  <2>5. PICK G \in Words : G = Factor(f, m, q)
    BY <1>1, FactorTypes
  <2>6. PICK r \in PauliOp : r = Times(p, q)
    BY TimesTable
  <2>7. PICK t \in 0 .. 3 : t = TurnOf(p, q)
    BY TimesTable
  <2>8. PICK H \in Words : H = Factor(f, m, r)
    BY <1>1, FactorTypes
  <2>9. F ** G = TimesI(H, t)
    BY <2>4, <2>5, <2>6, <2>7, <2>8, FactorsOfOne
  <2>10. PICK s \in 0 .. 3 : s = TurnCount(P, Q, n)
    BY <2>1, TurnsStep
  <2>11. TurnCount(P, Q, m) = (s + t) % 4
    BY <2>1, <2>2, <2>3, <2>7, <2>10, TurnsStep
  <2>12. g[m] = g[n] ** F /\ h[m] = h[n] ** G /\ k[m] = k[n] ** H
    BY <1>4, <1>9, <2>1, <2>2, <2>3, <2>4, <2>5, <2>6, <2>8
  <2>13. PICK a \in Words : a = g[n]
    BY <1>9, <2>1
  <2>14. PICK b \in Words : b = h[n]
    BY <1>9, <2>1
  <2>15. PICK c \in Words : c = k[n]
    BY <1>9, <2>1
  <2>16. F ** b = b ** F
    <3>1. ~AntiCommute(b, F)
      BY <1>7, <2>1, <2>4, <2>14, WordToAhead
    <3>2. QED
      BY <3>1, WordSwap
  <2>17. (a ** F) ** (b ** G) = (a ** b) ** (F ** G)
    <3>1. F ** G \in Words /\ b ** G \in Words /\ F ** b \in Words
      BY WordTypes
    <3>2. (a ** F) ** (b ** G) = a ** (F ** (b ** G))
      BY <3>1, WordAssoc
    <3>3. F ** (b ** G) = (F ** b) ** G /\ (b ** F) ** G = b ** (F ** G)
      BY WordAssoc
    <3>4. a ** (b ** (F ** G)) = (a ** b) ** (F ** G)
      BY <3>1, WordAssoc
    <3>5. QED
      BY <2>16, <3>2, <3>3, <3>4
  <2>18. TimesI(c, s) ** TimesI(H, t) = TimesI(c ** H, (s + t) % 4)
    <3>1. TimesI(H, t) \in Words /\ c ** H \in Words
      BY PhasedWord, WordTypes
    <3>2. TimesI(c, s) ** TimesI(H, t) = TimesI(c ** TimesI(H, t), s)
      BY <3>1, WordI
    <3>3. c ** TimesI(H, t) = TimesI(c ** H, t)
      BY WordI
    <3>4. TimesI(TimesI(c ** H, t), s) = TimesI(c ** H, (t + s) % 4) /\ t + s = s + t
      BY <3>1, PhasesAdd
    <3>5. QED
      BY <3>2, <3>3, <3>4
  <2>19. g[m] ** h[m] = TimesI(k[m], (s + t) % 4)
    BY <2>9, <2>10, <2>12, <2>13, <2>14, <2>15, <2>17, <2>18
  <2>20. QED
    BY <2>1, <2>11, <2>19
<1> HIDE DEF good
<1>12. \A n \in 0 .. NQ : n \in good
  BY <1>10, <1>11, Induction, SizeAssumption
<1>13. NQ \in 0 .. NQ
  BY SizeAssumption
<1>14. g[NQ] ** h[NQ] = TimesI(k[NQ], TurnCount(P, Q, NQ))
  BY <1>12, <1>13 DEF good
<1>15. WordOfPauli(f, Product(P, Q)) = TimesI(WordOfPauli(f, B), TurnCount(P, Q, NQ))
  <2>1. PICK t \in 0 .. 3 : t = TurnCount(P, Q, NQ)
    BY <1>5
  <2>2. WordOfPauli(f, Phased(B, t)) = TimesI(WordOfPauli(f, B), t)
    BY <1>1, <1>4, WordPhase
  <2>3. QED
    BY <1>5, <2>1, <2>2
<1>16. WordOfPauli(f, P) = g[NQ] /\ WordOfPauli(f, Q) = h[NQ] /\ WordOfPauli(f, B) = k[NQ]
  BY <1>6, <1>7, <1>8, WordToSteps
<1>17. QED
  BY <1>14, <1>15, <1>16

(* The qubits up to n on which P and Q do not commute *)
Differ(P, Q, n) == {q \in 1 .. n : "I" \notin {P.op[q], Q.op[q]} /\ P.op[q] # Q.op[q]}

LEMMA DifferStep ==
  ASSUME NEW P \in Pauli, NEW Q \in Pauli
  PROVE  /\ Cardinality(Differ(P, Q, 0)) % 2 = 0
         /\ \A n \in 1 .. NQ :
              Cardinality(Differ(P, Q, n)) % 2 = 1
                <=> ~(Cardinality(Differ(P, Q, n - 1)) % 2 = 1
                        <=> P.op[n] # "I" /\ Q.op[n] # "I" /\ P.op[n] # Q.op[n])
         /\ Commute(P, Q) <=> ~(Cardinality(Differ(P, Q, NQ)) % 2 = 1)
<1> DEFINE S == {q \in Nat : "I" \notin {P.op[q], Q.op[q]} /\ P.op[q] # Q.op[q]}
<1>1. Cardinality(Differ(P, Q, 0)) % 2 = 0
  <2>1. Differ(P, Q, 0) = {}
    BY DEF Differ
  <2>2. Cardinality({}) = 0
    BY FS_EmptySet
  <2>3. QED
    BY <2>1, <2>2
<1>2. \A n \in Nat : Differ(P, Q, n) = {q \in 1 .. n : q \in S}
  BY DEF Differ
<1>3. S \subseteq Nat
  OBVIOUS
<1>4. \A n \in 1 .. NQ : n \in S <=> P.op[n] # "I" /\ Q.op[n] # "I" /\ P.op[n] # Q.op[n]
  OBVIOUS
<1> HIDE DEF S
<1>5. ASSUME NEW n \in 1 .. NQ
      PROVE  /\ Cardinality(Differ(P, Q, n)) \in Nat
             /\ Cardinality(Differ(P, Q, n)) % 2 = 1
                  <=> ~(Cardinality(Differ(P, Q, n - 1)) % 2 = 1 <=> n \in S)
  <2>1. n \in Nat /\ n > 0 /\ n - 1 \in Nat
    OBVIOUS
  <2>2. /\ Cardinality(Differ(P, Q, n)) \in Nat /\ Cardinality(Differ(P, Q, n - 1)) \in Nat
        /\ Cardinality(Differ(P, Q, n)) = Cardinality(Differ(P, Q, n - 1)) + (IF n \in S THEN 1 ELSE 0)
    BY <1>2, <1>3, <2>1, CountStep
  <2>3. PICK a \in Nat : a = Cardinality(Differ(P, Q, n))
    BY <2>2
  <2>4. PICK b \in Nat : b = Cardinality(Differ(P, Q, n - 1))
    BY <2>2
  <2>5. a = b + (IF n \in S THEN 1 ELSE 0)
    BY <2>2, <2>3, <2>4
  <2>6. a % 2 = 1 <=> ~(b % 2 = 1 <=> n \in S)
    <3>1. CASE n \in S
      <4>1. a = b + 1
        BY <2>5, <3>1
      <4>2. (b + 1) % 2 = 1 <=> ~(b % 2 = 1)
        OBVIOUS
      <4>3. QED
        BY <3>1, <4>1, <4>2
    <3>2. CASE n \notin S
      <4>1. a = b
        BY <2>5, <3>2
      <4>2. QED
        BY <3>2, <4>1
    <3>3. QED
      BY <3>1, <3>2
  <2>7. QED
    BY <2>2, <2>3, <2>4, <2>6
<1>6. Commute(P, Q) <=> ~(Cardinality(Differ(P, Q, NQ)) % 2 = 1)
  <2>1. Commute(P, Q) <=> Cardinality(Differ(P, Q, NQ)) % 2 = 0
    BY DEF Commute, Differ, Names
  <2>2. Cardinality(Differ(P, Q, NQ)) \in Nat
    <3>1. CASE NQ = 0
      <4>1. Differ(P, Q, NQ) = {} /\ Cardinality({}) = 0
        BY <3>1, FS_EmptySet DEF Differ
      <4>2. QED
        BY <4>1
    <3>2. CASE NQ # 0
      <4>1. NQ \in 1 .. NQ
        BY <3>2, SizeAssumption
      <4>2. QED
        BY <1>5, <4>1
    <3>3. QED
      BY <3>1, <3>2
  <2>3. PICK c \in Nat : c = Cardinality(Differ(P, Q, NQ))
    BY <2>2
  <2>4. c % 2 = 0 <=> ~(c % 2 = 1)
    OBVIOUS
  <2>5. QED
    BY <2>1, <2>3, <2>4
<1>7. QED
  BY <1>1, <1>4, <1>5, <1>6

LEMMA WordsCommute ==
  ASSUME NEW f, Canonical(f), NEW P \in Pauli, NEW Q \in Pauli
  PROVE  Commute(P, Q) <=> ~AntiCommute(WordOfPauli(f, P), WordOfPauli(f, Q))
<1>1. f \in Frames
  BY DEF Canonical
<1>2. PICK g : g = WordTo(f, P)
  OBVIOUS
<1>3. PICK h : h = WordTo(f, Q)
  OBVIOUS
<1>4. /\ \A n \in 0 .. NQ : g[n] \in Words /\ h[n] \in Words
      /\ \A n \in 1 .. NQ : g[n] = g[n - 1] ** Factor(f, n, P.op[n])
      /\ \A n \in 1 .. NQ : h[n] = h[n - 1] ** Factor(f, n, Q.op[n])
      /\ g[0] = TimesI(Idle, P.phase) /\ h[0] = TimesI(Idle, Q.phase)
  BY <1>1, <1>2, <1>3, WordToTypes, WordToSteps
<1>5. PICK d : d = [n \in 0 .. NQ |-> Cardinality(Differ(P, Q, n)) % 2 = 1]
  OBVIOUS
<1>6. ASSUME NEW n \in 1 .. NQ
      PROVE  d[n] <=> ~(d[n - 1] <=> P.op[n] # "I" /\ Q.op[n] # "I" /\ P.op[n] # Q.op[n])
  <2>1. n \in 0 .. NQ /\ n - 1 \in 0 .. NQ
    BY SizeAssumption
  <2>2. (d[n] <=> Cardinality(Differ(P, Q, n)) % 2 = 1)
        /\ (d[n - 1] <=> Cardinality(Differ(P, Q, n - 1)) % 2 = 1)
    BY <1>5, <2>1
  <2>3. Cardinality(Differ(P, Q, n)) % 2 = 1
          <=> ~(Cardinality(Differ(P, Q, n - 1)) % 2 = 1
                  <=> P.op[n] # "I" /\ Q.op[n] # "I" /\ P.op[n] # Q.op[n])
    BY DifferStep
  <2>4. QED
    BY <2>2, <2>3
<1>7. 0 \in 0 .. NQ /\ NQ \in 0 .. NQ
  BY SizeAssumption
<1>8. ~d[0] /\ (Commute(P, Q) <=> ~d[NQ])
  <2>1. (d[0] <=> Cardinality(Differ(P, Q, 0)) % 2 = 1) /\ (d[NQ] <=> Cardinality(Differ(P, Q, NQ)) % 2 = 1)
    BY <1>5, <1>7
  <2>2. Cardinality(Differ(P, Q, 0)) % 2 = 0
    BY DifferStep
  <2>3. Commute(P, Q) <=> ~(Cardinality(Differ(P, Q, NQ)) % 2 = 1)
    BY DifferStep
  <2>4. QED
    BY <2>1, <2>2, <2>3
<1>9. \A n \in 0 .. NQ : d[n] \in BOOLEAN
  BY <1>5
<1> DEFINE good == {n \in 0 .. NQ : AntiCommute(g[n], h[n]) <=> d[n]}
<1>10. 0 \in good
  <2>1. P.phase \in 0 .. 3 /\ Q.phase \in 0 .. 3 /\ Idle \in Words /\ ~AntiCommute(Idle, Idle)
    BY PauliTypes, IdleWord, AntiIsBeta
  <2>2. TimesI(Idle, Q.phase) \in Words
    BY <2>1, PhasedWord
  <2>3. ~AntiCommute(Idle, TimesI(Idle, Q.phase))
    BY <2>1, AntiFacts
  <2>4. ~AntiCommute(TimesI(Idle, P.phase), TimesI(Idle, Q.phase))
    BY <2>1, <2>2, <2>3, AntiFacts
  <2>5. QED
    BY <1>4, <1>7, <1>8, <2>4
<1>11. \A n \in 0 .. NQ - 1 : n \in good => n + 1 \in good
  <2> SUFFICES ASSUME NEW n \in 0 .. NQ - 1, AntiCommute(g[n], h[n]) <=> d[n]
               PROVE  AntiCommute(g[n + 1], h[n + 1]) <=> d[n + 1]
    BY SizeAssumption
  <2>1. PICK m \in Names : m = n + 1 /\ m \in 1 .. NQ /\ m - 1 = n /\ n \in 0 .. NQ /\ n \in 0 .. m - 1 /\ m \in 0 .. NQ
    BY SizeAssumption DEF Names
  <2>2. PICK p \in PauliOp : p = P.op[m]
    BY <2>1, PauliTypes
  <2>3. PICK q \in PauliOp : q = Q.op[m]
    BY <2>1, PauliTypes
  <2>4. PICK F \in Words : F = Factor(f, m, p)
    BY <1>1, FactorTypes
  <2>5. PICK G \in Words : G = Factor(f, m, q)
    BY <1>1, FactorTypes
  <2>6. PICK a \in Words : a = g[n]
    BY <1>4, <2>1
  <2>7. PICK b \in Words : b = h[n]
    BY <1>4, <2>1
  <2>8. g[m] = a ** F /\ h[m] = b ** G
    BY <1>4, <2>1, <2>2, <2>3, <2>4, <2>5, <2>6, <2>7
  <2>9. AntiCommute(F, G) <=> p # "I" /\ q # "I" /\ p # q
    BY <2>4, <2>5, FactorsOfOne
  <2>10. ~AntiCommute(a, G) /\ ~AntiCommute(b, F)
    BY <1>2, <1>3, <2>1, <2>4, <2>5, <2>6, <2>7, WordToAhead
  <2>11. ~AntiCommute(F, b)
    BY <2>10, AntiFacts
  <2>12. b ** G \in Words
    BY WordTypes
  <2>13. /\ AntiCommute(a ** F, b ** G) <=> ~(AntiCommute(a, b ** G) <=> AntiCommute(F, b ** G))
         /\ AntiCommute(a, b ** G) <=> ~(AntiCommute(a, b) <=> AntiCommute(a, G))
         /\ AntiCommute(F, b ** G) <=> ~(AntiCommute(F, b) <=> AntiCommute(F, G))
         /\ AntiCommute(a, b) \in BOOLEAN /\ AntiCommute(F, G) \in BOOLEAN
    BY <2>12, AntiFacts
  <2>14. AntiCommute(a ** F, b ** G) <=> ~(AntiCommute(a, b) <=> AntiCommute(F, G))
    BY <2>10, <2>11, <2>13
  <2>15. d[m] <=> ~(d[n] <=> p # "I" /\ q # "I" /\ p # q)
    BY <1>6, <2>1, <2>2, <2>3
  <2>16. AntiCommute(a ** F, b ** G) <=> d[m]
    BY <1>9, <2>1, <2>6, <2>7, <2>9, <2>14, <2>15
  <2>17. QED
    BY <2>1, <2>8, <2>16
<1> HIDE DEF good
<1>12. \A n \in 0 .. NQ : n \in good
  BY <1>10, <1>11, Induction, SizeAssumption
<1>13. AntiCommute(g[NQ], h[NQ]) <=> d[NQ]
  BY <1>7, <1>12 DEF good
<1>14. WordOfPauli(f, P) = g[NQ] /\ WordOfPauli(f, Q) = h[NQ]
  BY <1>2, <1>3, WordToSteps
<1>15. QED
  BY <1>8, <1>13, <1>14

(* The operators on one qubit *)
LEMMA OnTypes ==
  ASSUME NEW q \in Names, NEW p \in PauliOp
  PROVE  /\ On(q, p) \in Pauli /\ On(q, p).phase = 0
         /\ \A n \in Names : On(q, p).op[n] = IF n = q THEN p ELSE "I"
         /\ One \in Pauli /\ One.phase = 0 /\ \A n \in Names : One.op[n] = "I"
<1>1. "I" \in PauliOp /\ 0 \in 0 .. 3
  BY DEF PauliOp
<1>2. One = [op |-> [n \in Names |-> "I"], phase |-> 0]
  BY DEF One
<1>3. On(q, p) = [op |-> [n \in Names |-> IF n = q THEN p ELSE "I"], phase |-> 0]
  BY <1>2 DEF On
<1>4. QED
  BY <1>1, <1>2, <1>3 DEF Pauli

LEMMA WordOfOn ==
  ASSUME NEW f \in Frames, NEW q \in Names, NEW p \in PauliOp
  PROVE  WordOfPauli(f, On(q, p)) = Factor(f, q, p)
<1>1. PICK P \in Pauli : P = On(q, p)
  BY OnTypes
<1>2. P.phase = 0 /\ \A n \in Names : P.op[n] = IF n = q THEN p ELSE "I"
  BY <1>1, OnTypes
<1>3. PICK g : g = WordTo(f, P)
  OBVIOUS
<1>4. PICK F \in Words : F = Factor(f, q, p)
  BY FactorTypes
<1>5. /\ g[0] = TimesI(Idle, 0)
      /\ \A n \in 1 .. NQ : g[n] = IF P.op[n] = "I" THEN g[n - 1] ELSE g[n - 1] ** Factor(f, n, P.op[n])
  BY <1>2, <1>3, WordToSteps
<1>6. TimesI(Idle, 0) = Idle /\ Idle ** F = F /\ (p = "I" => F = Idle)
  BY <1>4, IdleWord, WordUnit DEF Factor
<1> DEFINE good == {n \in 0 .. NQ : g[n] = IF n < q THEN Idle ELSE F}
<1>7. 0 \in good
  BY <1>5, <1>6, SizeAssumption DEF Names
<1>8. \A n \in 0 .. NQ - 1 : n \in good => n + 1 \in good
  <2> SUFFICES ASSUME NEW n \in 0 .. NQ - 1, g[n] = IF n < q THEN Idle ELSE F
               PROVE  g[n + 1] = IF n + 1 < q THEN Idle ELSE F
    BY SizeAssumption
  <2>1. PICK m \in Names : m = n + 1 /\ m \in 1 .. NQ /\ m - 1 = n
    BY SizeAssumption DEF Names
  <2>2. q \in Int /\ m \in Int /\ n \in Int
    BY <2>1 DEF Names
  <2>3. CASE m = q
    <3>1. P.op[m] = p /\ g[n] = Idle
      BY <1>2, <2>1, <2>2, <2>3
    <3>2. g[m] = IF p = "I" THEN Idle ELSE Idle ** F
      BY <1>4, <1>5, <2>1, <2>3, <3>1
    <3>3. g[m] = F
      BY <1>6, <3>2
    <3>4. QED
      BY <2>1, <2>2, <2>3, <3>3
  <2>4. CASE m # q
    <3>1. g[m] = g[n]
      BY <1>2, <1>5, <2>1, <2>4
    <3>2. n < q <=> m < q
      BY <2>1, <2>2, <2>4
    <3>3. QED
      BY <2>1, <3>1, <3>2
  <2>5. QED
    BY <2>3, <2>4
<1> HIDE DEF good
<1>9. \A n \in 0 .. NQ : n \in good
  BY <1>7, <1>8, Induction, SizeAssumption
<1>10. NQ \in 0 .. NQ /\ ~(NQ < q)
  BY SizeAssumption DEF Names
<1>11. g[NQ] = F
  BY <1>9, <1>10 DEF good
<1>12. QED
  BY <1>1, <1>3, <1>4, <1>11, WordToSteps

-----------------------------------------------------------------------------
(* A rotation of a frame rotates the words of all Paulis.                  *)

RotatedFrame(f, Q, n) ==
  [q \in Names |-> [x |-> Rotated(Q, n, f[q].x), z |-> Rotated(Q, n, f[q].z)]]

LEMMA RotatedFactor ==
  ASSUME NEW f \in Frames, NEW Q, Hermitian(Q), NEW k \in 0 .. 3
  PROVE  /\ RotatedFrame(f, Q, k) \in Frames
         /\ \A n \in Names : \A p \in PauliOp :
              Factor(RotatedFrame(f, Q, k), n, p) = Rotated(Q, k, Factor(f, n, p))
<1>1. PICK h : h = RotatedFrame(f, Q, k)
  OBVIOUS
<1>2. Q \in Words
  BY DEF Hermitian
<1>3. \A n \in Names : /\ h[n].x = Rotated(Q, k, f[n].x) /\ h[n].z = Rotated(Q, k, f[n].z)
                       /\ h[n].x \in Words /\ h[n].z \in Words
  BY <1>1, <1>2, FactorTypes, RotatedCases DEF RotatedFrame
<1>4. h \in Frames
  <2>1. h = [n \in Names |-> [x |-> Rotated(Q, k, f[n].x), z |-> Rotated(Q, k, f[n].z)]]
    BY <1>1 DEF RotatedFrame
  <2>2. \A n \in Names : Rotated(Q, k, f[n].x) \in Words /\ Rotated(Q, k, f[n].z) \in Words
    BY <1>3
  <2>3. QED
    BY <2>1, <2>2 DEF Frames
<1>5. ASSUME NEW n \in Names, NEW p \in PauliOp
      PROVE  Factor(h, n, p) = Rotated(Q, k, Factor(f, n, p))
  <2>1. PICK X \in Words : X = f[n].x
    BY FactorTypes
  <2>2. PICK Z \in Words : Z = f[n].z
    BY FactorTypes
  <2>3. /\ Factor(f, n, "I") = Idle /\ Factor(f, n, "X") = X /\ Factor(f, n, "Z") = Z
        /\ Factor(f, n, "Y") = TimesI(X ** Z, 1)
    BY <2>1, <2>2, FactorTypes
  <2>4. /\ Factor(h, n, "I") = Idle /\ Factor(h, n, "X") = h[n].x /\ Factor(h, n, "Z") = h[n].z
        /\ Factor(h, n, "Y") = TimesI(h[n].x ** h[n].z, 1)
    BY <1>4, FactorTypes
  <2>5. Rotated(Q, k, Idle) = Idle
    <3>1. ~AntiCommute(Q, Idle)
      BY <1>2, AntiIsBeta, BetaIdle, IdleWord
    <3>2. QED
      BY <1>2, <3>1, IdleWord, RotatedCases
  <2>6. Rotated(Q, k, TimesI(X ** Z, 1)) = TimesI(Rotated(Q, k, X) ** Rotated(Q, k, Z), 1)
    <3>1. X ** Z \in Words
      BY WordTypes
    <3>2. Rotated(Q, k, TimesI(X ** Z, 1)) = TimesI(Rotated(Q, k, X ** Z), 1)
      BY <3>1, RotatedI
    <3>3. QED
      BY <3>2, RotatedProduct
  <2>7. QED
    BY <1>3, <2>1, <2>2, <2>3, <2>4, <2>5, <2>6 DEF PauliOp, Axis
<1>6. QED
  BY <1>1, <1>4, <1>5

LEMMA WordOfRotated ==
  ASSUME NEW f \in Frames, NEW Q, Hermitian(Q), NEW k \in 0 .. 3, NEW P \in Pauli
  PROVE  WordOfPauli(RotatedFrame(f, Q, k), P) = Rotated(Q, k, WordOfPauli(f, P))
<1>1. PICK e \in Frames : e = RotatedFrame(f, Q, k)
  BY RotatedFactor
<1>2. PICK g : g = WordTo(f, P)
  OBVIOUS
<1>3. PICK h : h = WordTo(e, P)
  OBVIOUS
<1>4. /\ \A n \in 0 .. NQ : g[n] \in Words /\ h[n] \in Words
      /\ \A n \in 1 .. NQ : g[n] = g[n - 1] ** Factor(f, n, P.op[n])
      /\ \A n \in 1 .. NQ : h[n] = h[n - 1] ** Factor(e, n, P.op[n])
      /\ g[0] = TimesI(Idle, P.phase) /\ h[0] = TimesI(Idle, P.phase)
  BY <1>2, <1>3, WordToTypes, WordToSteps
<1>5. Q \in Words
  BY DEF Hermitian
<1> DEFINE good == {n \in 0 .. NQ : h[n] = Rotated(Q, k, g[n])}
<1>6. 0 \in good
  <2>1. P.phase \in 0 .. 3 /\ Idle \in Words
    BY PauliTypes, IdleWord
  <2>2. Rotated(Q, k, Idle) = Idle
    BY <1>5, AntiIsBeta, BetaIdle, IdleWord, RotatedCases
  <2>3. Rotated(Q, k, TimesI(Idle, P.phase)) = TimesI(Rotated(Q, k, Idle), P.phase)
    BY <2>1, RotatedI
  <2>4. QED
    BY <1>4, <2>2, <2>3, SizeAssumption
<1>7. \A n \in 0 .. NQ - 1 : n \in good => n + 1 \in good
  <2> SUFFICES ASSUME NEW n \in 0 .. NQ - 1, h[n] = Rotated(Q, k, g[n])
               PROVE  h[n + 1] = Rotated(Q, k, g[n + 1])
    BY SizeAssumption
  <2>1. PICK m \in Names : m = n + 1 /\ m \in 1 .. NQ /\ m - 1 = n /\ n \in 0 .. NQ
    BY SizeAssumption DEF Names
  <2>2. PICK p \in PauliOp : p = P.op[m]
    BY <2>1, PauliTypes
  <2>3. PICK F \in Words : F = Factor(f, m, p)
    BY FactorTypes
  <2>4. Factor(e, m, p) = Rotated(Q, k, F)
    BY <1>1, <2>3, RotatedFactor
  <2>5. PICK a \in Words : a = g[n]
    BY <1>4, <2>1
  <2>6. g[m] = a ** F /\ h[m] = Rotated(Q, k, a) ** Rotated(Q, k, F)
    BY <1>4, <2>1, <2>2, <2>3, <2>4, <2>5
  <2>7. Rotated(Q, k, a ** F) = Rotated(Q, k, a) ** Rotated(Q, k, F)
    BY RotatedProduct
  <2>8. QED
    BY <2>1, <2>6, <2>7
<1> HIDE DEF good
<1>8. \A n \in 0 .. NQ : n \in good
  BY <1>6, <1>7, Induction, SizeAssumption
<1>9. NQ \in 0 .. NQ
  BY SizeAssumption
<1>10. h[NQ] = Rotated(Q, k, g[NQ])
  BY <1>8, <1>9 DEF good
<1>11. QED
  BY <1>1, <1>2, <1>3, <1>10, WordToSteps

LEMMA RotatedCanonical ==
  ASSUME NEW f, Canonical(f), NEW Q, Hermitian(Q), NEW k \in 0 .. 3
  PROVE  Canonical(RotatedFrame(f, Q, k))
<1>1. f \in Frames
  BY DEF Canonical
<1>2. PICK h \in Frames : h = RotatedFrame(f, Q, k)
  BY <1>1, RotatedFactor
<1>3. \A n \in Names : h[n].x = Rotated(Q, k, f[n].x) /\ h[n].z = Rotated(Q, k, f[n].z)
  BY <1>2 DEF RotatedFrame
<1>4. \A n \in Names : Hermitian(h[n].x) /\ Hermitian(h[n].z)
  BY <1>3, RotatedHermitian DEF Canonical
<1>5. \A n, m \in Names :
        /\ ~AntiCommute(h[n].x, h[m].x) /\ ~AntiCommute(h[n].z, h[m].z)
        /\ AntiCommute(h[n].x, h[m].z) <=> n = m
  <2> SUFFICES ASSUME NEW n \in Names, NEW m \in Names
               PROVE  /\ ~AntiCommute(h[n].x, h[m].x) /\ ~AntiCommute(h[n].z, h[m].z)
                      /\ AntiCommute(h[n].x, h[m].z) <=> n = m
    OBVIOUS
  <2>1. f[n].x \in Words /\ f[n].z \in Words /\ f[m].x \in Words /\ f[m].z \in Words
    BY <1>1, FactorTypes
  <2>2. /\ AntiCommute(h[n].x, h[m].x) <=> AntiCommute(f[n].x, f[m].x)
        /\ AntiCommute(h[n].z, h[m].z) <=> AntiCommute(f[n].z, f[m].z)
        /\ AntiCommute(h[n].x, h[m].z) <=> AntiCommute(f[n].x, f[m].z)
    BY <1>3, <2>1, RotatedAnti
  <2>3. QED
    BY <2>2 DEF Canonical
<1>6. QED
  BY <1>2, <1>4, <1>5 DEF Canonical

(* Rotate turns the frame, and leaves the events. *)
LEMMA RotateFrame ==
  ASSUME NEW m, NEW f, NEW e, m = [frame |-> f, events |-> e], NEW Q, NEW k
  PROVE  Rotate(m, Q, k) = [frame |-> RotatedFrame(f, Q, k), events |-> e]
BY DEF Rotate, RotatedFrame

-----------------------------------------------------------------------------
(* Clifford operators.                                                     *)

After(f, C) ==
  [q \in Names |-> [x |-> WordOfPauli(f, C[<<q, "X">>]), z |-> WordOfPauli(f, C[<<q, "Z">>])]]

Clifford(C) ==
  /\ C \in [Names \X Axis -> Pauli]
  /\ \A f : Canonical(f) =>
       /\ Canonical(After(f, C))
       /\ \A q \in Names : WordOfPauli(f, C[<<q, "Y">>]) = Factor(After(f, C), q, "Y")

ConjugateStep(g, C, P, n) ==
  IF n = 0 THEN Phased(One, P.phase)
  ELSE IF P.op[n] = "I" THEN g[n - 1]
  ELSE Product(g[n - 1], C[<<n, P.op[n]>>])

IsConjugateTo(g, C, P, N) == g = [n \in 0 .. N |-> ConjugateStep(g, C, P, n)]

ConjugateTo(C, P) == CHOOSE g : IsConjugateTo(g, C, P, NQ)

LEMMA ConjugateExists ==
  ASSUME NEW C, NEW P, NEW N \in Nat
  PROVE  \E g : IsConjugateTo(g, C, P, N)
<1> DEFINE reached == {n \in 0 .. N : \E g : IsConjugateTo(g, C, P, n)}
<1>1. 0 \in reached
  <2> DEFINE g == [k \in 0 .. 0 |-> Phased(One, P.phase)]
  <2>1. \A k \in 0 .. 0 : ConjugateStep(g, C, P, k) = Phased(One, P.phase)
    BY DEF ConjugateStep
  <2>2. IsConjugateTo(g, C, P, 0)
    BY <2>1 DEF IsConjugateTo
  <2>3. QED
    BY <2>2
<1>2. \A n \in 0 .. N - 1 : n \in reached => n + 1 \in reached
  <2> SUFFICES ASSUME NEW n \in 0 .. N - 1, n \in reached PROVE n + 1 \in reached
    OBVIOUS
  <2>1. PICK g : IsConjugateTo(g, C, P, n)
    OBVIOUS
  <2>2. PICK last : last = ConjugateStep(g, C, P, n + 1)
    OBVIOUS
  <2> DEFINE h == [k \in 0 .. n + 1 |-> IF k <= n THEN g[k] ELSE last]
  <2>3. ASSUME NEW k \in 0 .. n + 1 PROVE h[k] = ConjugateStep(h, C, P, k)
    <3>1. k # 0 => k - 1 \in 0 .. n + 1 /\ k - 1 <= n /\ h[k - 1] = g[k - 1]
      OBVIOUS
    <3>2. ConjugateStep(h, C, P, k) = ConjugateStep(g, C, P, k)
      BY <3>1 DEF ConjugateStep
    <3>3. CASE k <= n
      <4>1. k \in 0 .. n /\ h[k] = g[k]
        BY <3>3
      <4>2. g[k] = ConjugateStep(g, C, P, k)
        BY <2>1, <4>1 DEF IsConjugateTo
      <4>3. QED
        BY <3>2, <4>1, <4>2
    <3>4. CASE ~(k <= n)
      <4>1. k = n + 1 /\ h[k] = last
        BY <3>4
      <4>2. QED
        BY <2>2, <3>2, <4>1
    <3>5. QED
      BY <3>3, <3>4
  <2>4. h = [k \in 0 .. n + 1 |-> h[k]]
    OBVIOUS
  <2> HIDE DEF h
  <2>5. h = [k \in 0 .. n + 1 |-> ConjugateStep(h, C, P, k)]
    BY <2>3, <2>4
  <2>6. IsConjugateTo(h, C, P, n + 1)
    BY <2>5 DEF IsConjugateTo
  <2>7. QED
    BY <2>6
<1> HIDE DEF reached
<1>3. \A n \in 0 .. N : n \in reached
  BY <1>1, <1>2, Induction
<1>4. QED
  BY <1>3 DEF reached

LEMMA ConjugateSteps ==
  ASSUME NEW C, NEW P
  PROVE  /\ Conjugate(C, P) = ConjugateTo(C, P)[NQ]
         /\ ConjugateTo(C, P)[0] = Phased(One, P.phase)
         /\ \A n \in 1 .. NQ :
              ConjugateTo(C, P)[n] = IF P.op[n] = "I" THEN ConjugateTo(C, P)[n - 1]
                                     ELSE Product(ConjugateTo(C, P)[n - 1], C[<<n, P.op[n]>>])
<1>1. IsConjugateTo(ConjugateTo(C, P), C, P, NQ)
  BY ConjugateExists, SizeAssumption DEF ConjugateTo
<1>2. PICK g : g = ConjugateTo(C, P)
  OBVIOUS
<1>3. \A n \in 0 .. NQ : g[n] = ConjugateStep(g, C, P, n)
  BY <1>1, <1>2 DEF IsConjugateTo
<1>4. g[0] = Phased(One, P.phase)
  <2>1. 0 \in 0 .. NQ
    BY SizeAssumption
  <2>2. QED
    BY <1>3, <2>1 DEF ConjugateStep
<1>5. ASSUME NEW n \in 1 .. NQ
      PROVE  g[n] = IF P.op[n] = "I" THEN g[n - 1] ELSE Product(g[n - 1], C[<<n, P.op[n]>>])
  <2>1. n \in 0 .. NQ /\ n # 0
    OBVIOUS
  <2>2. QED
    BY <1>3, <2>1 DEF ConjugateStep
<1>6. Conjugate(C, P) = ConjugateTo(C, P)[NQ]
  BY DEF Conjugate, ConjugateTo, IsConjugateTo, ConjugateStep
<1>7. QED
  BY <1>2, <1>4, <1>5, <1>6

(* To conjugate by C is to look at the Pauli after C. *)
LEMMA WordOfConjugate ==
  ASSUME NEW C, Clifford(C), NEW P \in Pauli
  PROVE  /\ Conjugate(C, P) \in Pauli
         /\ \A f : Canonical(f) => WordOfPauli(After(f, C), P) = WordOfPauli(f, Conjugate(C, P))
<1>1. PICK c : c = ConjugateTo(C, P)
  OBVIOUS
<1>2. /\ Conjugate(C, P) = c[NQ] /\ c[0] = Phased(One, P.phase)
      /\ \A n \in 1 .. NQ : c[n] = IF P.op[n] = "I" THEN c[n - 1] ELSE Product(c[n - 1], C[<<n, P.op[n]>>])
  BY <1>1, ConjugateSteps
<1>3. P.phase \in 0 .. 3 /\ One \in Pauli /\ One.phase = 0 /\ \A n \in Names : One.op[n] = "I"
  <2>1. One = [op |-> [q \in Names |-> "I"], phase |-> 0]
    BY DEF One
  <2>2. QED
    BY <2>1, PauliTypes DEF Pauli, PauliOp
<1>4. ASSUME NEW n \in Names, P.op[n] # "I" PROVE C[<<n, P.op[n]>>] \in Pauli /\ P.op[n] \in Axis
  <2>1. P.op[n] \in Axis
    BY <1>4, PauliTypes DEF PauliOp, Names
  <2>2. <<n, P.op[n]>> \in Names \X Axis
    BY <2>1
  <2>3. QED
    BY <2>1, <2>2 DEF Clifford
<1> DEFINE typed == {n \in 0 .. NQ : c[n] \in Pauli}
<1>5. \A n \in 0 .. NQ : c[n] \in Pauli
  <2>1. 0 \in typed
    <3>1. \E f : f \in Frames
      <4>1. [q \in Names |-> [x |-> Idle, z |-> Idle]] \in Frames
        BY IdleWord DEF Frames
      <4>2. QED
        BY <4>1
    <3>2. Phased(One, P.phase) \in Pauli
      BY <1>3, <3>1, WordPhase
    <3>3. QED
      BY <1>2, <3>2, SizeAssumption
  <2>2. \A n \in 0 .. NQ - 1 : n \in typed => n + 1 \in typed
    <3> SUFFICES ASSUME NEW n \in 0 .. NQ - 1, c[n] \in Pauli PROVE c[n + 1] \in Pauli
      BY SizeAssumption
    <3>1. PICK m \in Names : m = n + 1 /\ m \in 1 .. NQ /\ m - 1 = n
      BY SizeAssumption DEF Names
    <3>2. CASE P.op[m] = "I"
      BY <1>2, <3>1, <3>2
    <3>3. CASE P.op[m] # "I"
      <4>1. C[<<m, P.op[m]>>] \in Pauli
        BY <1>4, <3>3
      <4>2. Product(c[n], C[<<m, P.op[m]>>]) \in Pauli
        BY <4>1, ProductTypes
      <4>3. QED
        BY <1>2, <3>1, <3>3, <4>2
    <3>4. QED
      BY <3>2, <3>3
  <2> HIDE DEF typed
  <2>3. \A n \in 0 .. NQ : n \in typed
    BY <2>1, <2>2, Induction, SizeAssumption
  <2>4. QED
    BY <2>3 DEF typed
<1>6. NQ \in 0 .. NQ
  BY SizeAssumption
<1>7. ASSUME NEW f, Canonical(f)
      PROVE  WordOfPauli(After(f, C), P) = WordOfPauli(f, c[NQ])
  <2>1. PICK e : e = After(f, C)
    OBVIOUS
  <2>2. Canonical(e) /\ e \in Frames /\ f \in Frames
        /\ \A q \in Names : WordOfPauli(f, C[<<q, "Y">>]) = Factor(e, q, "Y")
    BY <1>7, <2>1 DEF Clifford, Canonical
  <2>3. \A q \in Names : /\ WordOfPauli(f, C[<<q, "X">>]) = Factor(e, q, "X")
                         /\ WordOfPauli(f, C[<<q, "Z">>]) = Factor(e, q, "Z")
    BY <2>1, <2>2, FactorTypes DEF After
  <2>4. \A q \in Names : \A p \in Axis : WordOfPauli(f, C[<<q, p>>]) = Factor(e, q, p)
    BY <2>2, <2>3 DEF Axis
  <2>5. PICK h : h = WordTo(e, P)
    OBVIOUS
  <2>6. /\ WordOfPauli(e, P) = h[NQ] /\ h[0] = TimesI(Idle, P.phase)
        /\ \A n \in 1 .. NQ : h[n] = IF P.op[n] = "I" THEN h[n - 1] ELSE h[n - 1] ** Factor(e, n, P.op[n])
    BY <2>5, WordToSteps
  <2> DEFINE good == {n \in 0 .. NQ : h[n] = WordOfPauli(f, c[n])}
  <2>7. 0 \in good
    <3>1. WordOfPauli(f, Phased(One, P.phase)) = TimesI(WordOfPauli(f, One), P.phase)
      BY <1>3, <2>2, WordPhase
    <3>2. WordOfPauli(f, One) = Idle
      <4>1. PICK g : g = WordTo(f, One)
        OBVIOUS
      <4>2. /\ WordOfPauli(f, One) = g[NQ] /\ g[0] = Idle
            /\ \A n \in 1 .. NQ : g[n] = g[n - 1]
        <5>1. TimesI(Idle, 0) = Idle
          BY IdleWord, WordUnit
        <5>2. QED
          BY <1>3, <4>1, <5>1, WordToSteps DEF Names
      <4> DEFINE idle == {n \in 0 .. NQ : g[n] = Idle}
      <4>3. 0 \in idle
        BY <4>2, SizeAssumption
      <4>4. \A n \in 0 .. NQ - 1 : n \in idle => n + 1 \in idle
        <5> SUFFICES ASSUME NEW n \in 0 .. NQ - 1, g[n] = Idle PROVE g[n + 1] = Idle
          BY SizeAssumption
        <5>1. n + 1 \in 1 .. NQ /\ (n + 1) - 1 = n
          BY SizeAssumption
        <5>2. QED
          BY <4>2, <5>1
      <4> HIDE DEF idle
      <4>5. \A n \in 0 .. NQ : n \in idle
        BY <4>3, <4>4, Induction, SizeAssumption
      <4>6. QED
        BY <1>6, <4>2, <4>5 DEF idle
    <3>3. QED
      BY <1>2, <2>6, <3>1, <3>2, SizeAssumption
  <2>8. \A n \in 0 .. NQ - 1 : n \in good => n + 1 \in good
    <3> SUFFICES ASSUME NEW n \in 0 .. NQ - 1, h[n] = WordOfPauli(f, c[n])
                 PROVE  h[n + 1] = WordOfPauli(f, c[n + 1])
      BY SizeAssumption
    <3>1. PICK m \in Names : m = n + 1 /\ m \in 1 .. NQ /\ m - 1 = n /\ n \in 0 .. NQ
      BY SizeAssumption DEF Names
    <3>2. CASE P.op[m] = "I"
      BY <1>2, <2>6, <3>1, <3>2
    <3>3. CASE P.op[m] # "I"
      <4>1. C[<<m, P.op[m]>>] \in Pauli /\ P.op[m] \in Axis /\ c[n] \in Pauli
        BY <1>4, <1>5, <3>1, <3>3
      <4>2. WordOfPauli(f, Product(c[n], C[<<m, P.op[m]>>]))
              = WordOfPauli(f, c[n]) ** WordOfPauli(f, C[<<m, P.op[m]>>])
        BY <1>7, <4>1, WordOfProduct
      <4>3. WordOfPauli(f, C[<<m, P.op[m]>>]) = Factor(e, m, P.op[m])
        BY <2>4, <4>1
      <4>4. c[m] = Product(c[n], C[<<m, P.op[m]>>]) /\ h[m] = h[n] ** Factor(e, m, P.op[m])
        BY <1>2, <2>6, <3>1, <3>3
      <4>5. QED
        BY <3>1, <4>2, <4>3, <4>4
    <3>4. QED
      BY <3>2, <3>3
  <2> HIDE DEF good
  <2>9. \A n \in 0 .. NQ : n \in good
    BY <2>7, <2>8, Induction, SizeAssumption
  <2>10. h[NQ] = WordOfPauli(f, c[NQ])
    BY <1>6, <2>9 DEF good
  <2>11. QED
    BY <2>1, <2>6, <2>10
<1>8. QED
  BY <1>2, <1>5, <1>6, <1>7

(* Nothing to do, and one after the other *)
LEMMA UnitClifford ==
  /\ Clifford(Unit)
  /\ \A f \in Frames : After(f, Unit) = f
<1>1. \A q \in Names : \A p \in Axis : Unit[<<q, p>>] = On(q, p) /\ On(q, p) \in Pauli
  BY OnTypes DEF Unit, PauliOp
<1>2. Unit \in [Names \X Axis -> Pauli]
  BY <1>1 DEF Unit
<1>3. ASSUME NEW f \in Frames, NEW q \in Names, NEW p \in Axis
      PROVE  WordOfPauli(f, Unit[<<q, p>>]) = Factor(f, q, p)
  BY <1>1, WordOfOn DEF PauliOp
<1>4. ASSUME NEW f \in Frames PROVE After(f, Unit) = f
  <2>1. \A q \in Names : WordOfPauli(f, Unit[<<q, "X">>]) = f[q].x /\ WordOfPauli(f, Unit[<<q, "Z">>]) = f[q].z
    BY <1>3, FactorTypes DEF Axis
  <2>2. After(f, Unit) = [q \in Names |-> [x |-> f[q].x, z |-> f[q].z]]
    BY <2>1 DEF After
  <2>3. f = [q \in Names |-> [x |-> f[q].x, z |-> f[q].z]]
    BY DEF Frames
  <2>4. QED
    BY <2>2, <2>3
<1>5. ASSUME NEW f, Canonical(f)
      PROVE  /\ Canonical(After(f, Unit))
             /\ \A q \in Names : WordOfPauli(f, Unit[<<q, "Y">>]) = Factor(After(f, Unit), q, "Y")
  <2>1. f \in Frames
    BY <1>5 DEF Canonical
  <2>2. After(f, Unit) = f
    BY <1>4, <2>1
  <2>3. QED
    BY <1>3, <1>5, <2>1, <2>2 DEF Axis
<1>6. QED
  BY <1>2, <1>4, <1>5 DEF Clifford

LEMMA ComposeClifford ==
  ASSUME NEW C, Clifford(C), NEW D, Clifford(D)
  PROVE  /\ Clifford(Compose(C, D))
         /\ \A f : Canonical(f) => After(f, Compose(C, D)) = After(After(f, C), D)
<1>1. PICK E : E = Compose(C, D)
  OBVIOUS
<1>2. \A q \in Names : \A p \in Axis :
        /\ D[<<q, p>>] \in Pauli /\ E[<<q, p>>] = Conjugate(C, D[<<q, p>>])
        /\ E[<<q, p>>] \in Pauli
  <2> SUFFICES ASSUME NEW q \in Names, NEW p \in Axis
               PROVE  /\ D[<<q, p>>] \in Pauli /\ E[<<q, p>>] = Conjugate(C, D[<<q, p>>])
                      /\ E[<<q, p>>] \in Pauli
    OBVIOUS
  <2>1. <<q, p>> \in Names \X Axis
    OBVIOUS
  <2>2. D[<<q, p>>] \in Pauli
    BY <2>1 DEF Clifford
  <2>3. E[<<q, p>>] = Conjugate(C, D[<<q, p>>])
    BY <1>1, <2>1 DEF Compose
  <2>4. QED
    BY <2>2, <2>3, WordOfConjugate
<1>3. E \in [Names \X Axis -> Pauli]
  <2>1. E = [g \in Names \X Axis |-> Conjugate(C, D[g])]
    BY <1>1 DEF Compose
  <2>2. \A g \in Names \X Axis : Conjugate(C, D[g]) \in Pauli
    BY WordOfConjugate DEF Clifford
  <2>3. QED
    BY <2>1, <2>2
<1>4. ASSUME NEW f, Canonical(f)
      PROVE  /\ After(f, E) = After(After(f, C), D)
             /\ Canonical(After(f, E))
             /\ \A q \in Names : WordOfPauli(f, E[<<q, "Y">>]) = Factor(After(f, E), q, "Y")
  <2>1. PICK e : e = After(f, C)
    OBVIOUS
  <2>2. Canonical(e)
    BY <1>4, <2>1 DEF Clifford
  <2>3. \A q \in Names : \A p \in Axis : WordOfPauli(f, E[<<q, p>>]) = WordOfPauli(e, D[<<q, p>>])
    <3> SUFFICES ASSUME NEW q \in Names, NEW p \in Axis
                 PROVE  WordOfPauli(f, E[<<q, p>>]) = WordOfPauli(e, D[<<q, p>>])
      OBVIOUS
    <3>1. PICK P \in Pauli : P = D[<<q, p>>] /\ E[<<q, p>>] = Conjugate(C, P)
      BY <1>2
    <3>2. WordOfPauli(After(f, C), P) = WordOfPauli(f, Conjugate(C, P))
      BY <1>4, WordOfConjugate
    <3>3. QED
      BY <2>1, <3>1, <3>2
  <2>4. After(f, E) = After(e, D)
    BY <2>3 DEF After, Axis
  <2>5. Canonical(After(e, D)) /\ \A q \in Names : WordOfPauli(e, D[<<q, "Y">>]) = Factor(After(e, D), q, "Y")
    BY <2>2 DEF Clifford
  <2>6. QED
    BY <2>1, <2>3, <2>4, <2>5 DEF Axis
<1>5. QED
  BY <1>1, <1>3, <1>4 DEF Clifford

-----------------------------------------------------------------------------
(* The Clifford operators of the gates.                                    *)

LEMMA WordOfMinus ==
  ASSUME NEW f \in Frames, NEW q \in Names, NEW p \in Axis
  PROVE  /\ On(q, p) \in Pauli /\ Minus(On(q, p)) \in Pauli
         /\ WordOfPauli(f, On(q, p)) = Factor(f, q, p)
         /\ WordOfPauli(f, Minus(On(q, p))) = TimesI(Factor(f, q, p), 2)
<1>1. p \in PauliOp
  BY DEF PauliOp
<1>2. On(q, p) \in Pauli /\ WordOfPauli(f, On(q, p)) = Factor(f, q, p)
  BY <1>1, OnTypes, WordOfOn
<1>3. PICK k \in 0 .. 3 : k = 2
  OBVIOUS
<1>4. Phased(On(q, p), k) \in Pauli /\ WordOfPauli(f, Phased(On(q, p), k)) = TimesI(Factor(f, q, p), k)
  BY <1>2, WordPhase
<1>5. QED
  BY <1>2, <1>3, <1>4 DEF Minus

(* A Clifford operator does on every qubit what the rotation about an axis *)
(* of q by n does.                                                         *)
DoesRotation(C, q, axis, n) ==
  /\ C \in [Names \X Axis -> Pauli]
  /\ \A f : Canonical(f) => \A k \in Names : \A p \in Axis :
       WordOfPauli(f, C[<<k, p>>]) = Rotated(Factor(f, q, axis), n, Factor(f, k, p))

LEMMA RotationIsClifford ==
  ASSUME NEW C, NEW q \in Names, NEW axis \in Axis, NEW n \in 0 .. 3, DoesRotation(C, q, axis, n)
  PROVE  /\ Clifford(C)
         /\ \A f : Canonical(f) => After(f, C) = RotatedFrame(f, WordOf(f, q, axis), n)
<1>1. ASSUME NEW f, Canonical(f)
      PROVE  /\ After(f, C) = RotatedFrame(f, WordOf(f, q, axis), n)
             /\ Canonical(After(f, C))
             /\ \A k \in Names : WordOfPauli(f, C[<<k, "Y">>]) = Factor(After(f, C), k, "Y")
  <2>1. axis # "I" /\ axis \in PauliOp /\ f \in Frames
    BY <1>1 DEF Axis, PauliOp, Canonical
  <2>2. PICK Q : Q = Factor(f, q, axis)
    OBVIOUS
  <2>3. Hermitian(Q) /\ Q = WordOf(f, q, axis)
    BY <1>1, <2>1, <2>2, FactorsOfOne DEF Factor
  <2>4. \A k \in Names : \A p \in Axis : WordOfPauli(f, C[<<k, p>>]) = Rotated(Q, n, Factor(f, k, p))
    BY <1>1, <2>2 DEF DoesRotation
  <2>5. After(f, C) = RotatedFrame(f, Q, n)
    <3>1. \A k \in Names : /\ WordOfPauli(f, C[<<k, "X">>]) = Rotated(Q, n, f[k].x)
                           /\ WordOfPauli(f, C[<<k, "Z">>]) = Rotated(Q, n, f[k].z)
      BY <2>1, <2>4, FactorTypes DEF Axis
    <3>2. QED
      BY <3>1 DEF After, RotatedFrame
  <2>6. Canonical(RotatedFrame(f, Q, n))
    BY <1>1, <2>3, RotatedCanonical
  <2>7. \A k \in Names : Factor(RotatedFrame(f, Q, n), k, "Y") = Rotated(Q, n, Factor(f, k, "Y"))
    BY <2>1, <2>3, RotatedFactor DEF PauliOp, Axis
  <2>8. QED
    BY <2>3, <2>4, <2>5, <2>6, <2>7 DEF Axis
<1>2. QED
  BY <1>1 DEF Clifford, DoesRotation

IsOneQubit(C, q, x, y, z) ==
  /\ C \in [Names \X Axis -> Pauli]
  /\ \A k \in Names : \A p \in Axis : k # q => C[<<k, p>>] = On(k, p)
  /\ C[<<q, "X">>] = x /\ C[<<q, "Y">>] = y /\ C[<<q, "Z">>] = z

LEMMA OneQubitTypes ==
  ASSUME NEW q \in Names, NEW x \in Pauli, NEW y \in Pauli, NEW z \in Pauli
  PROVE  IsOneQubit(OneQubit(q, x, y, z), q, x, y, z)
<1>1. PICK C : C = OneQubit(q, x, y, z)
  OBVIOUS
<1>2. C = [g \in Names \X Axis |->
            IF g[1] # q THEN On(g[1], g[2])
            ELSE CASE g[2] = "X" -> x [] g[2] = "Y" -> y [] g[2] = "Z" -> z]
  BY <1>1 DEF OneQubit
<1>3. ASSUME NEW k \in Names, NEW p \in Axis
      PROVE  C[<<k, p>>] = IF k # q THEN On(k, p)
                           ELSE CASE p = "X" -> x [] p = "Y" -> y [] p = "Z" -> z
  <2>0. PICK g : g = <<k, p>>
    OBVIOUS
  <2>1. g \in Names \X Axis /\ g = <<k, p>> /\ g[1] = k /\ g[2] = p
    BY <2>0
  <2>2. C[g] = IF g[1] # q THEN On(g[1], g[2])
               ELSE CASE g[2] = "X" -> x [] g[2] = "Y" -> y [] g[2] = "Z" -> z
    BY <1>2, <2>1
  <2>3. QED
    BY <2>1, <2>2
<1>4. \A k \in Names : \A p \in Axis : On(k, p) \in Pauli
  BY OnTypes DEF PauliOp
<1>5. C[<<q, "X">>] = x /\ C[<<q, "Y">>] = y /\ C[<<q, "Z">>] = z
  BY <1>3 DEF Axis
<1>6. \A k \in Names : \A p \in Axis : C[<<k, p>>] \in Pauli
  BY <1>3, <1>4, <1>5 DEF Axis
<1>7. \A g \in Names \X Axis : C[g] \in Pauli
  BY <1>6
<1>8. \A g \in Names \X Axis :
        (IF g[1] # q THEN On(g[1], g[2])
         ELSE CASE g[2] = "X" -> x [] g[2] = "Y" -> y [] g[2] = "Z" -> z) \in Pauli
  BY <1>2, <1>7
<1>9. C \in [Names \X Axis -> Pauli]
  BY <1>2, <1>8
<1>10. QED
  BY <1>1, <1>3, <1>5, <1>9 DEF IsOneQubit

(* The rotations that the gates are *)
LEMMA RotationsOfOne ==
  ASSUME NEW f, Canonical(f), NEW q \in Names, NEW a \in Axis, NEW p \in Axis
  PROVE  /\ p = a => \A n \in 0 .. 3 : Rotated(Factor(f, q, a), n, Factor(f, q, p)) = Factor(f, q, p)
         /\ p # a => Rotated(Factor(f, q, a), 2, Factor(f, q, p)) = TimesI(Factor(f, q, p), 2)
         /\ p # a => Rotated(Factor(f, q, a), 1, Factor(f, q, p))
                       = TimesI(Factor(f, q, Times(a, p)), (TurnOf(a, p) + 1) % 4)
         /\ p # a => Rotated(Factor(f, q, a), 3, Factor(f, q, p))
                       = TimesI(Factor(f, q, Times(a, p)), (TurnOf(a, p) + 3) % 4)
         /\ \A k \in Names : k # q => \A n \in 0 .. 3 :
              Rotated(Factor(f, q, a), n, Factor(f, k, p)) = Factor(f, k, p)
<1>1. a \in PauliOp /\ p \in PauliOp /\ a # "I" /\ p # "I" /\ f \in Frames
  BY DEF PauliOp, Axis, Canonical
<1>2. PICK Q \in Words : Q = Factor(f, q, a)
  BY <1>1, FactorTypes
<1>3. PICK F \in Words : F = Factor(f, q, p)
  BY <1>1, FactorTypes
<1>4. PICK r \in PauliOp : r = Times(a, p)
  BY <1>1, TimesTable
<1>5. PICK t \in 0 .. 3 : t = TurnOf(a, p)
  BY <1>1, TimesTable
<1>6. PICK G \in Words : G = Factor(f, q, r)
  BY <1>1, FactorTypes
<1>7. Q ** F = TimesI(G, t) /\ (AntiCommute(Q, F) <=> a # p)
  BY <1>1, <1>2, <1>3, <1>4, <1>5, <1>6, FactorsOfOne
<1>8. p = a => \A n \in 0 .. 3 : Rotated(Q, n, F) = F
  BY <1>7, RotatedCases
<1>9. p # a => Rotated(Q, 2, F) = TimesI(F, 2)
  BY <1>7, RotatedCases
<1>10. p # a => Rotated(Q, 1, F) = TimesI(Q ** F, 1) /\ Rotated(Q, 3, F) = TimesI(Q ** F, 3)
  BY <1>7, RotatedCases
<1>11. TimesI(TimesI(G, t), 1) = TimesI(G, (t + 1) % 4) /\ TimesI(TimesI(G, t), 3) = TimesI(G, (t + 3) % 4)
  BY PhasesAdd
<1>12. ASSUME NEW k \in Names, k # q, NEW n \in 0 .. 3
       PROVE  Rotated(Q, n, Factor(f, k, p)) = Factor(f, k, p)
  <2>1. Factor(f, k, p) \in Words /\ ~AntiCommute(Q, Factor(f, k, p))
    BY <1>1, <1>2, <1>12, FactorTypes, FactorsApart
  <2>2. QED
    BY <2>1, RotatedCases
<1>13. QED
  BY <1>2, <1>3, <1>4, <1>5, <1>6, <1>7, <1>8, <1>9, <1>10, <1>11, <1>12

GateArgs(op, args) ==
  /\ op \in CliffordGates
  /\ args[1] \in Names
  /\ op = "cx" => args[2] \in Names /\ args[1] # args[2]

(* The Clifford operator C does what the gate does. *)
DoesGate(C, op, args) ==
  /\ Clifford(C)
  /\ \A f : Canonical(f) => \A e :
       Gate([frame |-> f, events |-> e], op, args) = [frame |-> After(f, C), events |-> e]

LEMMA OneQubitRotation ==
  ASSUME NEW q \in Names, NEW a \in Axis, NEW n \in 0 .. 3,
         NEW x \in Pauli, NEW y \in Pauli, NEW z \in Pauli,
         \A f : Canonical(f) =>
           /\ WordOfPauli(f, x) = Rotated(Factor(f, q, a), n, Factor(f, q, "X"))
           /\ WordOfPauli(f, y) = Rotated(Factor(f, q, a), n, Factor(f, q, "Y"))
           /\ WordOfPauli(f, z) = Rotated(Factor(f, q, a), n, Factor(f, q, "Z"))
  PROVE  DoesRotation(OneQubit(q, x, y, z), q, a, n)
<1>1. PICK C : C = OneQubit(q, x, y, z)
  OBVIOUS
<1>2. /\ C \in [Names \X Axis -> Pauli]
      /\ \A k \in Names : \A p \in Axis : k # q => C[<<k, p>>] = On(k, p)
      /\ C[<<q, "X">>] = x /\ C[<<q, "Y">>] = y /\ C[<<q, "Z">>] = z
  <2>1. IsOneQubit(C, q, x, y, z)
    BY <1>1, OneQubitTypes
  <2>2. QED
    BY <2>1 DEF IsOneQubit
<1>3. ASSUME NEW f, Canonical(f), NEW k \in Names, NEW p \in Axis
      PROVE  WordOfPauli(f, C[<<k, p>>]) = Rotated(Factor(f, q, a), n, Factor(f, k, p))
  <2>1. CASE k = q
    BY <1>2, <1>3, <2>1 DEF Axis
  <2>2. CASE k # q
    <3>1. f \in Frames /\ p \in PauliOp
      BY <1>3 DEF Canonical, PauliOp
    <3>2. WordOfPauli(f, On(k, p)) = Factor(f, k, p)
      BY <3>1, WordOfOn
    <3>3. Rotated(Factor(f, q, a), n, Factor(f, k, p)) = Factor(f, k, p)
      BY <1>3, <2>2, RotationsOfOne
    <3>4. QED
      BY <1>2, <2>2, <3>2, <3>3
  <2>3. QED
    BY <2>1, <2>2
<1>4. QED
  BY <1>1, <1>2, <1>3 DEF DoesRotation

(* The words of the Paulis that the tables of the gates have *)
LEMMA WordsOfTables ==
  ASSUME NEW f, Canonical(f), NEW q \in Names
  PROVE  /\ \A p \in Axis : On(q, p) \in Pauli /\ Minus(On(q, p)) \in Pauli
         /\ \A p \in Axis : WordOfPauli(f, On(q, p)) = Factor(f, q, p)
         /\ \A p \in Axis : WordOfPauli(f, Minus(On(q, p))) = TimesI(Factor(f, q, p), 2)
BY WordOfMinus DEF Canonical

LEMMA HalfTurns ==
  ASSUME NEW f, Canonical(f), NEW q \in Names, NEW a \in Axis, NEW p \in Axis
  PROVE  Rotated(Factor(f, q, a), 2, Factor(f, q, p))
           = IF p = a THEN Factor(f, q, p) ELSE TimesI(Factor(f, q, p), 2)
<1>1. p # a => Rotated(Factor(f, q, a), 2, Factor(f, q, p)) = TimesI(Factor(f, q, p), 2)
  BY RotationsOfOne
<1>2. p = a => \A n \in 0 .. 3 : Rotated(Factor(f, q, a), n, Factor(f, q, p)) = Factor(f, q, p)
  BY RotationsOfOne
<1>3. 2 \in 0 .. 3
  OBVIOUS
<1>4. QED
  BY <1>1, <1>2, <1>3

LEMMA QuarterTurns ==
  ASSUME NEW f, Canonical(f), NEW q \in Names
  PROVE  /\ Rotated(Factor(f, q, "Z"), 1, Factor(f, q, "X")) = TimesI(Factor(f, q, "Y"), 2)
         /\ Rotated(Factor(f, q, "Z"), 1, Factor(f, q, "Y")) = Factor(f, q, "X")
         /\ Rotated(Factor(f, q, "Z"), 3, Factor(f, q, "X")) = Factor(f, q, "Y")
         /\ Rotated(Factor(f, q, "Z"), 3, Factor(f, q, "Y")) = TimesI(Factor(f, q, "X"), 2)
         /\ Rotated(Factor(f, q, "Z"), 1, Factor(f, q, "Z")) = Factor(f, q, "Z")
         /\ Rotated(Factor(f, q, "Z"), 3, Factor(f, q, "Z")) = Factor(f, q, "Z")
<1>1. PICK a \in Axis : a = "Z"
  BY DEF Axis
<1>2. \A p \in Axis : Factor(f, q, p) \in Words /\ TimesI(Factor(f, q, p), 0) = Factor(f, q, p)
  BY FactorTypes, WordUnit DEF Canonical, PauliOp
<1>3. PICK p \in Axis : p = "X"
  BY DEF Axis
<1>4. PICK r \in Axis : r = "Y"
  BY DEF Axis
<1>5. TurnOf(a, p) = 1 /\ Times(a, p) = "Y"
  BY <1>1, <1>3, TimesTable DEF TurnOf, Cyclic, PauliOp, Axis
<1>6. TurnOf(a, r) = 3 /\ Times(a, r) = "X"
  BY <1>1, <1>4, TimesTable DEF TurnOf, Cyclic, PauliOp, Axis
<1>7. /\ Rotated(Factor(f, q, a), 1, Factor(f, q, p)) = TimesI(Factor(f, q, "Y"), (1 + 1) % 4)
      /\ Rotated(Factor(f, q, a), 3, Factor(f, q, p)) = TimesI(Factor(f, q, "Y"), (1 + 3) % 4)
  BY <1>1, <1>3, <1>5, RotationsOfOne
<1>8. /\ Rotated(Factor(f, q, a), 1, Factor(f, q, r)) = TimesI(Factor(f, q, "X"), (3 + 1) % 4)
      /\ Rotated(Factor(f, q, a), 3, Factor(f, q, r)) = TimesI(Factor(f, q, "X"), (3 + 3) % 4)
  BY <1>1, <1>4, <1>6, RotationsOfOne
<1>9. (1 + 1) % 4 = 2 /\ (1 + 3) % 4 = 0 /\ (3 + 1) % 4 = 0 /\ (3 + 3) % 4 = 2
  OBVIOUS
<1>10. \A n \in 0 .. 3 : Rotated(Factor(f, q, a), n, Factor(f, q, a)) = Factor(f, q, a)
  BY RotationsOfOne
<1>11. 1 \in 0 .. 3 /\ 3 \in 0 .. 3
  OBVIOUS
<1>12. TimesI(Factor(f, q, "X"), 0) = Factor(f, q, "X") /\ TimesI(Factor(f, q, "Y"), 0) = Factor(f, q, "Y")
  BY <1>2 DEF Axis
<1>13. QED
  BY <1>1, <1>3, <1>4, <1>7, <1>8, <1>9, <1>10, <1>11, <1>12

(* The gates that are rotations *)
LEMMA GateRotations ==
  ASSUME NEW args, args[1] \in Names
  PROVE  /\ DoesRotation(Dagger("x", args), args[1], "X", 2)
         /\ DoesRotation(Dagger("y", args), args[1], "Y", 2)
         /\ DoesRotation(Dagger("z", args), args[1], "Z", 2)
         /\ DoesRotation(Dagger("s", args), args[1], "Z", 1)
         /\ DoesRotation(Dagger("sdg", args), args[1], "Z", 3)
<1>1. PICK q \in Names : q = args[1]
  OBVIOUS
<1>2. PICK X \in Pauli : X = On(q, "X")
  BY OnTypes DEF PauliOp, Axis
<1>3. PICK Y \in Pauli : Y = On(q, "Y")
  BY OnTypes DEF PauliOp, Axis
<1>4. PICK Z \in Pauli : Z = On(q, "Z")
  BY OnTypes DEF PauliOp, Axis
<1>5. Minus(X) \in Pauli /\ Minus(Y) \in Pauli /\ Minus(Z) \in Pauli
  <2>1. \E f : f \in Frames
    <3>1. [k \in Names |-> [x |-> Idle, z |-> Idle]] \in Frames
      BY IdleWord DEF Frames
    <3>2. QED
      BY <3>1
  <2>2. QED
    BY <1>2, <1>3, <1>4, <2>1, WordOfMinus DEF Axis
<1>6. "X" \in Axis /\ "Y" \in Axis /\ "Z" \in Axis /\ 1 \in 0 .. 3 /\ 2 \in 0 .. 3 /\ 3 \in 0 .. 3
  BY DEF Axis
<1>7. ASSUME NEW f, Canonical(f)
      PROVE  /\ WordOfPauli(f, X) = Factor(f, q, "X") /\ WordOfPauli(f, Minus(X)) = TimesI(Factor(f, q, "X"), 2)
             /\ WordOfPauli(f, Y) = Factor(f, q, "Y") /\ WordOfPauli(f, Minus(Y)) = TimesI(Factor(f, q, "Y"), 2)
             /\ WordOfPauli(f, Z) = Factor(f, q, "Z") /\ WordOfPauli(f, Minus(Z)) = TimesI(Factor(f, q, "Z"), 2)
  BY <1>2, <1>3, <1>4, <1>6, <1>7, WordsOfTables
<1>8. ASSUME NEW f, Canonical(f)
      PROVE  \A a, p \in Axis : Rotated(Factor(f, q, a), 2, Factor(f, q, p))
               = IF p = a THEN Factor(f, q, p) ELSE TimesI(Factor(f, q, p), 2)
  BY <1>8, HalfTurns
<1>9. DoesRotation(OneQubit(q, X, Minus(Y), Minus(Z)), q, "X", 2)
  <2>1. \A f : Canonical(f) =>
           /\ WordOfPauli(f, X) = Rotated(Factor(f, q, "X"), 2, Factor(f, q, "X"))
           /\ WordOfPauli(f, Minus(Y)) = Rotated(Factor(f, q, "X"), 2, Factor(f, q, "Y"))
           /\ WordOfPauli(f, Minus(Z)) = Rotated(Factor(f, q, "X"), 2, Factor(f, q, "Z"))
    BY <1>6, <1>7, <1>8
  <2>2. QED
    BY <1>5, <1>6, <2>1, OneQubitRotation
<1>10. DoesRotation(OneQubit(q, Minus(X), Y, Minus(Z)), q, "Y", 2)
  <2>1. \A f : Canonical(f) =>
           /\ WordOfPauli(f, Minus(X)) = Rotated(Factor(f, q, "Y"), 2, Factor(f, q, "X"))
           /\ WordOfPauli(f, Y) = Rotated(Factor(f, q, "Y"), 2, Factor(f, q, "Y"))
           /\ WordOfPauli(f, Minus(Z)) = Rotated(Factor(f, q, "Y"), 2, Factor(f, q, "Z"))
    BY <1>6, <1>7, <1>8
  <2>2. QED
    BY <1>5, <1>6, <2>1, OneQubitRotation
<1>11. DoesRotation(OneQubit(q, Minus(X), Minus(Y), Z), q, "Z", 2)
  <2>1. \A f : Canonical(f) =>
           /\ WordOfPauli(f, Minus(X)) = Rotated(Factor(f, q, "Z"), 2, Factor(f, q, "X"))
           /\ WordOfPauli(f, Minus(Y)) = Rotated(Factor(f, q, "Z"), 2, Factor(f, q, "Y"))
           /\ WordOfPauli(f, Z) = Rotated(Factor(f, q, "Z"), 2, Factor(f, q, "Z"))
    BY <1>6, <1>7, <1>8
  <2>2. QED
    BY <1>5, <1>6, <2>1, OneQubitRotation
<1>12. DoesRotation(OneQubit(q, Minus(Y), X, Z), q, "Z", 1)
  <2>1. \A f : Canonical(f) =>
           /\ WordOfPauli(f, Minus(Y)) = Rotated(Factor(f, q, "Z"), 1, Factor(f, q, "X"))
           /\ WordOfPauli(f, X) = Rotated(Factor(f, q, "Z"), 1, Factor(f, q, "Y"))
           /\ WordOfPauli(f, Z) = Rotated(Factor(f, q, "Z"), 1, Factor(f, q, "Z"))
    BY <1>7, QuarterTurns
  <2>2. QED
    BY <1>5, <1>6, <2>1, OneQubitRotation
<1>13. DoesRotation(OneQubit(q, Y, Minus(X), Z), q, "Z", 3)
  <2>1. \A f : Canonical(f) =>
           /\ WordOfPauli(f, Y) = Rotated(Factor(f, q, "Z"), 3, Factor(f, q, "X"))
           /\ WordOfPauli(f, Minus(X)) = Rotated(Factor(f, q, "Z"), 3, Factor(f, q, "Y"))
           /\ WordOfPauli(f, Z) = Rotated(Factor(f, q, "Z"), 3, Factor(f, q, "Z"))
    BY <1>7, QuarterTurns
  <2>2. QED
    BY <1>5, <1>6, <2>1, OneQubitRotation
<1>14. /\ Dagger("x", args) = OneQubit(q, X, Minus(Y), Minus(Z))
       /\ Dagger("y", args) = OneQubit(q, Minus(X), Y, Minus(Z))
       /\ Dagger("z", args) = OneQubit(q, Minus(X), Minus(Y), Z)
       /\ Dagger("s", args) = OneQubit(q, Minus(Y), X, Z)
       /\ Dagger("sdg", args) = OneQubit(q, Y, Minus(X), Z)
  BY <1>1, <1>2, <1>3, <1>4 DEF Dagger
<1>15. QED
  BY <1>1, <1>9, <1>10, <1>11, <1>12, <1>13, <1>14

(* A gate that is a rotation about an axis of its qubit *)
LEMMA RotationDoesGate ==
  ASSUME NEW op, NEW args, args[1] \in Names, NEW a \in Axis, NEW n \in 0 .. 3, NEW C,
         DoesRotation(C, args[1], a, n),
         \A m : Gate(m, op, args) = Rotate(m, WordOf(m.frame, args[1], a), n)
  PROVE  DoesGate(C, op, args)
<1>1. PICK q \in Names : q = args[1]
  OBVIOUS
<1>2. Clifford(C) /\ \A f : Canonical(f) => After(f, C) = RotatedFrame(f, WordOf(f, q, a), n)
  BY <1>1, RotationIsClifford
<1>3. ASSUME NEW f, Canonical(f), NEW e
      PROVE  Gate([frame |-> f, events |-> e], op, args) = [frame |-> After(f, C), events |-> e]
  <2>1. PICK m : m = [frame |-> f, events |-> e]
    OBVIOUS
  <2>2. m.frame = f
    BY <2>1
  <2>3. Gate(m, op, args) = Rotate(m, WordOf(f, q, a), n)
    BY <1>1, <2>2
  <2>4. Rotate(m, WordOf(f, q, a), n) = [frame |-> RotatedFrame(f, WordOf(f, q, a), n), events |-> e]
    BY <2>1, RotateFrame
  <2>5. QED
    BY <1>2, <1>3, <2>1, <2>3, <2>4
<1>4. QED
  BY <1>2, <1>3 DEF DoesGate

LEMMA HermitianProduct ==
  ASSUME NEW v, Hermitian(v), NEW w, Hermitian(w), ~AntiCommute(v, w)
  PROVE  Hermitian(v ** w)
<1>1. v \in Words /\ w \in Words /\ v ** v = Idle /\ w ** w = Idle
  BY DEF Hermitian
<1>2. v ** w \in Words /\ w ** w \in Words
  BY <1>1, WordTypes
<1>3. (v ** w) ** (v ** w) = v ** (w ** (v ** w))
  BY <1>1, <1>2, WordAssoc
<1>4. v ** w = w ** v
  BY <1>1, WordSwap
<1>5. w ** (w ** v) = (w ** w) ** v
  BY <1>1, WordAssoc
<1>6. Idle ** v = v
  BY <1>1, WordUnit
<1>7. QED
  BY <1>1, <1>2, <1>3, <1>4, <1>5, <1>6 DEF Hermitian

LEMMA HadamardClifford ==
  ASSUME NEW args, args[1] \in Names
  PROVE  DoesGate(Dagger("h", args), "h", args)
<1>1. PICK q \in Names : q = args[1]
  OBVIOUS
<1>2. PICK X \in Pauli : X = On(q, "X")
  BY OnTypes DEF PauliOp, Axis
<1>3. PICK Y \in Pauli : Y = On(q, "Y")
  BY OnTypes DEF PauliOp, Axis
<1>4. PICK Z \in Pauli : Z = On(q, "Z")
  BY OnTypes DEF PauliOp, Axis
<1>5. Minus(Y) \in Pauli
  <2>1. \E f : f \in Frames
    <3>1. [k \in Names |-> [x |-> Idle, z |-> Idle]] \in Frames
      BY IdleWord DEF Frames
    <3>2. QED
      BY <3>1
  <2>2. QED
    BY <1>3, <2>1, WordOfMinus DEF Axis
<1>6. PICK C : C = Dagger("h", args)
  OBVIOUS
<1>7. C = OneQubit(q, Z, Minus(Y), X)
  BY <1>1, <1>2, <1>3, <1>4, <1>6 DEF Dagger
<1>8. /\ C \in [Names \X Axis -> Pauli]
      /\ \A k \in Names : \A p \in Axis : k # q => C[<<k, p>>] = On(k, p)
      /\ C[<<q, "X">>] = Z /\ C[<<q, "Y">>] = Minus(Y) /\ C[<<q, "Z">>] = X
  <2>1. IsOneQubit(C, q, Z, Minus(Y), X)
    BY <1>5, <1>7, OneQubitTypes
  <2>2. QED
    BY <2>1 DEF IsOneQubit
<1>9. ASSUME NEW f, Canonical(f)
      PROVE  /\ After(f, C) = [f EXCEPT ![q] = [x |-> @.z, z |-> @.x]]
             /\ Canonical(After(f, C))
             /\ \A k \in Names : WordOfPauli(f, C[<<k, "Y">>]) = Factor(After(f, C), k, "Y")
  <2>0. f \in Frames /\ "X" \in Axis /\ "Y" \in Axis /\ "Z" \in Axis
    BY <1>9 DEF Canonical, Axis
  <2>1. /\ WordOfPauli(f, X) = f[q].x /\ WordOfPauli(f, Z) = f[q].z
        /\ WordOfPauli(f, Minus(Y)) = TimesI(Factor(f, q, "Y"), 2)
    BY <1>2, <1>3, <1>4, <1>9, <2>0, WordsOfTables, FactorTypes
  <2>2. \A k \in Names : \A p \in Axis : k # q => WordOfPauli(f, C[<<k, p>>]) = Factor(f, k, p)
    BY <1>8, <1>9, WordsOfTables
  <2>3. PICK e : e = After(f, C)
    OBVIOUS
  <2>4. /\ e = [k \in Names |-> [x |-> e[k].x, z |-> e[k].z]]
        /\ \A k \in Names : k # q => e[k].x = f[k].x /\ e[k].z = f[k].z
        /\ e[q].x = f[q].z /\ e[q].z = f[q].x
    <3>1. \A k \in Names : k # q => Factor(f, k, "X") = f[k].x /\ Factor(f, k, "Z") = f[k].z
      BY <2>0, FactorTypes
    <3>2. QED
      BY <1>8, <2>0, <2>1, <2>2, <2>3, <3>1 DEF After
  <2>5. e = [f EXCEPT ![q] = [x |-> @.z, z |-> @.x]]
    <3>1. f = [k \in Names |-> [x |-> f[k].x, z |-> f[k].z]]
      BY <2>0 DEF Frames
    <3>2. \A k \in Names : e[k] = IF k = q THEN [x |-> f[q].z, z |-> f[q].x] ELSE f[k]
      BY <2>4, <3>1
    <3>3. [f EXCEPT ![q] = [x |-> @.z, z |-> @.x]]
            = [k \in Names |-> IF k = q THEN [x |-> f[q].z, z |-> f[q].x] ELSE f[k]]
      BY <2>0 DEF Frames
    <3>4. e = [k \in Names |-> e[k]]
      BY <2>4
    <3>5. QED
      BY <3>2, <3>3, <3>4
  <2>6. \A k \in Names : f[k].x \in Words /\ f[k].z \in Words
    BY <2>0, FactorTypes
  <2>7. e \in Frames
    <3>1. \A k \in Names : e[k].x \in Words /\ e[k].z \in Words
      BY <2>4, <2>6
    <3>2. QED
      BY <2>4, <3>1 DEF Frames
  <2>8. Canonical(e)
    <3>1. \A k \in Names : Hermitian(e[k].x) /\ Hermitian(e[k].z)
      BY <1>9, <2>4 DEF Canonical
    <3>2. ASSUME NEW k \in Names, NEW l \in Names
          PROVE  /\ ~AntiCommute(e[k].x, e[l].x) /\ ~AntiCommute(e[k].z, e[l].z)
                 /\ AntiCommute(e[k].x, e[l].z) <=> k = l
      <4>1. \A a, b \in Names :
              /\ ~AntiCommute(f[a].x, f[b].x) /\ ~AntiCommute(f[a].z, f[b].z)
              /\ AntiCommute(f[a].x, f[b].z) <=> a = b
              /\ AntiCommute(f[b].z, f[a].x) <=> a = b
        BY <1>9, <2>6, AntiFacts DEF Canonical
      <4>2. CASE k = q /\ l = q
        BY <2>4, <4>1, <4>2
      <4>3. CASE k = q /\ l # q
        BY <2>4, <4>1, <4>3
      <4>4. CASE k # q /\ l = q
        BY <2>4, <4>1, <4>4
      <4>5. CASE k # q /\ l # q
        BY <2>4, <4>1, <4>5
      <4>6. QED
        BY <4>2, <4>3, <4>4, <4>5
    <3>3. QED
      BY <2>7, <3>1, <3>2 DEF Canonical
  <2>9. ASSUME NEW k \in Names PROVE WordOfPauli(f, C[<<k, "Y">>]) = Factor(e, k, "Y")
    <3>1. /\ Factor(e, k, "Y") = TimesI(e[k].x ** e[k].z, 1)
          /\ Factor(f, k, "Y") = TimesI(f[k].x ** f[k].z, 1)
      BY <2>0, <2>7, FactorTypes
    <3>2. CASE k # q
      BY <2>0, <2>2, <2>4, <3>1, <3>2
    <3>3. CASE k = q
      <4>1. PICK x \in Words : x = f[q].x
        BY <2>6
      <4>2. PICK z \in Words : z = f[q].z
        BY <2>6
      <4>3. AntiCommute(z, x)
        <5>1. AntiCommute(x, z)
          BY <1>9, <4>1, <4>2 DEF Canonical
        <5>2. AntiCommute(x, z) <=> AntiCommute(z, x)
          BY AntiFacts
        <5>3. QED
          BY <5>1, <5>2
      <4>4. z ** x = TimesI(x ** z, 2)
        BY <4>3, WordSwap
      <4>5. PICK u \in Words : u = x ** z
        BY WordTypes
      <4>6. /\ TimesI(TimesI(u, 2), 1) = TimesI(u, (2 + 1) % 4)
            /\ TimesI(TimesI(u, 1), 2) = TimesI(u, (1 + 2) % 4)
        BY PhasesAdd
      <4>7. (2 + 1) % 4 = (1 + 2) % 4
        OBVIOUS
      <4>8. Factor(e, k, "Y") = TimesI(TimesI(u, 2), 1)
        BY <2>4, <3>1, <3>3, <4>1, <4>2, <4>4, <4>5
      <4>9. WordOfPauli(f, C[<<k, "Y">>]) = TimesI(TimesI(u, 1), 2)
        BY <1>8, <2>1, <3>1, <3>3, <4>1, <4>2, <4>5
      <4>10. QED
        BY <4>6, <4>7, <4>8, <4>9
    <3>4. QED
      BY <3>2, <3>3
  <2>10. QED
    BY <2>3, <2>5, <2>8, <2>9
<1>10. Clifford(C)
  BY <1>8, <1>9 DEF Clifford
<1>11. ASSUME NEW f, Canonical(f), NEW e
       PROVE  Gate([frame |-> f, events |-> e], "h", args) = [frame |-> After(f, C), events |-> e]
  <2>1. PICK m : m = [frame |-> f, events |-> e]
    OBVIOUS
  <2>2. Gate(m, "h", args) = [m EXCEPT !.frame[q] = [x |-> @.z, z |-> @.x]]
    BY <1>1 DEF Gate
  <2>3. [m EXCEPT !.frame[q] = [x |-> @.z, z |-> @.x]]
          = [frame |-> [f EXCEPT ![q] = [x |-> @.z, z |-> @.x]], events |-> e]
    BY <2>1
  <2>4. QED
    BY <1>9, <1>11, <2>1, <2>2, <2>3
<1>12. QED
  BY <1>6, <1>10, <1>11 DEF DoesGate

(* cx *)
IsCnot(C, q, t) ==
  /\ C \in [Names \X Axis -> Pauli]
  /\ C[<<q, "X">>] = Product(On(q, "X"), On(t, "X"))
  /\ C[<<q, "Y">>] = Product(On(q, "Y"), On(t, "X"))
  /\ C[<<q, "Z">>] = On(q, "Z")
  /\ C[<<t, "X">>] = On(t, "X")
  /\ C[<<t, "Y">>] = Product(On(q, "Z"), On(t, "Y"))
  /\ C[<<t, "Z">>] = Product(On(q, "Z"), On(t, "Z"))
  /\ \A k \in Names : \A p \in Axis : k \notin {q, t} => C[<<k, p>>] = On(k, p)

LEMMA CnotTable ==
  ASSUME NEW args, NEW q \in Names, NEW t \in Names, q # t, q = args[1], t = args[2],
         NEW C, C = Dagger("cx", args)
  PROVE  IsCnot(C, q, t)
<1>1. C = [g \in Names \X Axis |->
             CASE g = <<q, "X">> -> Product(On(q, "X"), On(t, "X"))
               [] g = <<q, "Y">> -> Product(On(q, "Y"), On(t, "X"))
               [] g = <<t, "Y">> -> Product(On(q, "Z"), On(t, "Y"))
               [] g = <<t, "Z">> -> Product(On(q, "Z"), On(t, "Z"))
               [] OTHER -> On(g[1], g[2])]
  BY DEF Dagger
<1>2. ASSUME NEW k \in Names, NEW p \in Axis
      PROVE  C[<<k, p>>] = CASE k = q /\ p = "X" -> Product(On(q, "X"), On(t, "X"))
                             [] k = q /\ p = "Y" -> Product(On(q, "Y"), On(t, "X"))
                             [] k = t /\ p = "Y" -> Product(On(q, "Z"), On(t, "Y"))
                             [] k = t /\ p = "Z" -> Product(On(q, "Z"), On(t, "Z"))
                             [] OTHER -> On(k, p)
  <2>1. PICK g : g = <<k, p>>
    OBVIOUS
  <2>2. g \in Names \X Axis /\ g[1] = k /\ g[2] = p
    BY <2>1
  <2>3. C[g] = CASE g = <<q, "X">> -> Product(On(q, "X"), On(t, "X"))
                 [] g = <<q, "Y">> -> Product(On(q, "Y"), On(t, "X"))
                 [] g = <<t, "Y">> -> Product(On(q, "Z"), On(t, "Y"))
                 [] g = <<t, "Z">> -> Product(On(q, "Z"), On(t, "Z"))
                 [] OTHER -> On(g[1], g[2])
    BY <1>1, <2>2
  <2>4. /\ g = <<q, "X">> <=> k = q /\ p = "X"
        /\ g = <<q, "Y">> <=> k = q /\ p = "Y"
        /\ g = <<t, "Y">> <=> k = t /\ p = "Y"
        /\ g = <<t, "Z">> <=> k = t /\ p = "Z"
    BY <2>1
  <2>5. QED
    BY <2>1, <2>2, <2>3, <2>4
<1>3. /\ C[<<q, "X">>] = Product(On(q, "X"), On(t, "X"))
      /\ C[<<q, "Y">>] = Product(On(q, "Y"), On(t, "X"))
      /\ C[<<q, "Z">>] = On(q, "Z")
      /\ C[<<t, "X">>] = On(t, "X")
      /\ C[<<t, "Y">>] = Product(On(q, "Z"), On(t, "Y"))
      /\ C[<<t, "Z">>] = Product(On(q, "Z"), On(t, "Z"))
  BY <1>2 DEF Axis
<1>4. \A k \in Names : \A p \in Axis : k \notin {q, t} => C[<<k, p>>] = On(k, p)
  BY <1>2
<1>5. \A k \in Names : \A p \in Axis : C[<<k, p>>] \in Pauli
  <2> SUFFICES ASSUME NEW k \in Names, NEW p \in Axis PROVE C[<<k, p>>] \in Pauli
    OBVIOUS
  <2>1. \A l \in Names : \A r \in Axis : On(l, r) \in Pauli
    BY OnTypes DEF PauliOp
  <2>2. /\ On(k, p) \in Pauli /\ On(q, "X") \in Pauli /\ On(q, "Y") \in Pauli /\ On(q, "Z") \in Pauli
        /\ On(t, "X") \in Pauli /\ On(t, "Y") \in Pauli /\ On(t, "Z") \in Pauli
    BY <2>1 DEF Axis
  <2>3. /\ Product(On(q, "X"), On(t, "X")) \in Pauli
        /\ Product(On(q, "Y"), On(t, "X")) \in Pauli
        /\ Product(On(q, "Z"), On(t, "Y")) \in Pauli
        /\ Product(On(q, "Z"), On(t, "Z")) \in Pauli
    BY <2>2, ProductTypes
  <2>4. QED
    BY <1>2, <2>2, <2>3
<1>6. C \in [Names \X Axis -> Pauli]
  <2>1. \A g \in Names \X Axis : C[g] \in Pauli
    BY <1>5
  <2>2. \A g \in Names \X Axis :
          (CASE g = <<q, "X">> -> Product(On(q, "X"), On(t, "X"))
             [] g = <<q, "Y">> -> Product(On(q, "Y"), On(t, "X"))
             [] g = <<t, "Y">> -> Product(On(q, "Z"), On(t, "Y"))
             [] g = <<t, "Z">> -> Product(On(q, "Z"), On(t, "Z"))
             [] OTHER -> On(g[1], g[2])) \in Pauli
    BY <1>1, <2>1
  <2>3. QED
    BY <1>1, <2>2
<1>7. QED
  BY <1>3, <1>4, <1>6 DEF IsCnot

(* The words of the operators of two qubits after cx *)
Controlled(f, q, t) ==
  [k \in Names |-> [x |-> IF k = q THEN f[q].x ** f[t].x ELSE f[k].x,
                    z |-> IF k = t THEN f[q].z ** f[t].z ELSE f[k].z]]

CnotMatches(f, e, q, t) ==
  /\ Canonical(e)
  /\ f[t].z ** f[q].z = f[q].z ** f[t].z
  /\ Factor(f, q, "Y") ** f[t].x = Factor(e, q, "Y")
  /\ f[q].z ** Factor(f, t, "Y") = Factor(e, t, "Y")
  /\ \A k \in Names : k \notin {q, t} => Factor(f, k, "Y") = Factor(e, k, "Y")

LEMMA CnotWords ==
  ASSUME NEW f, Canonical(f), NEW q \in Names, NEW t \in Names, q # t,
         NEW e, e = Controlled(f, q, t)
  PROVE  CnotMatches(f, e, q, t)
<1>1. f \in Frames /\ \A k \in Names : f[k].x \in Words /\ f[k].z \in Words
  BY FactorTypes DEF Canonical
<1>2. /\ \A k \in Names : e[k].x = IF k = q THEN f[q].x ** f[t].x ELSE f[k].x
      /\ \A k \in Names : e[k].z = IF k = t THEN f[q].z ** f[t].z ELSE f[k].z
      /\ e = [k \in Names |-> [x |-> e[k].x, z |-> e[k].z]]
  BY DEF Controlled
<1>3. \A a, b \in Names :
        /\ ~AntiCommute(f[a].x, f[b].x) /\ ~AntiCommute(f[a].z, f[b].z)
        /\ AntiCommute(f[a].x, f[b].z) <=> a = b
        /\ AntiCommute(f[b].z, f[a].x) <=> a = b
  BY <1>1, AntiFacts DEF Canonical
<1>4. PICK xq \in Words : xq = f[q].x
  BY <1>1
<1>5. PICK zq \in Words : zq = f[q].z
  BY <1>1
<1>6. PICK xt \in Words : xt = f[t].x
  BY <1>1
<1>7. PICK zt \in Words : zt = f[t].z
  BY <1>1
<1>8. xq ** xt \in Words /\ zq ** zt \in Words
  BY WordTypes
<1>9. e \in Frames
  <2>1. \A k \in Names : e[k].x \in Words /\ e[k].z \in Words
    BY <1>1, <1>2, <1>4, <1>5, <1>6, <1>7, <1>8
  <2>2. e = [k \in Names |-> [x |-> e[k].x, z |-> e[k].z]]
    BY <1>2
  <2>3. QED
    BY <2>1, <2>2 DEF Frames
<1>10. \A k \in Names : Hermitian(e[k].x) /\ Hermitian(e[k].z)
  <2>1. \A k \in Names : Hermitian(f[k].x) /\ Hermitian(f[k].z)
    BY DEF Canonical
  <2>2. Hermitian(f[q].x ** f[t].x)
    BY <1>3, <2>1, HermitianProduct
  <2>3. Hermitian(f[q].z ** f[t].z)
    BY <1>3, <2>1, HermitianProduct
  <2>4. QED
    BY <1>2, <2>1, <2>2, <2>3
(* what commutes with the new operators *)
<1>11. ASSUME NEW w \in Words
       PROVE  /\ AntiCommute(xq ** xt, w) <=> ~(AntiCommute(xq, w) <=> AntiCommute(xt, w))
              /\ AntiCommute(w, xq ** xt) <=> ~(AntiCommute(w, xq) <=> AntiCommute(w, xt))
              /\ AntiCommute(zq ** zt, w) <=> ~(AntiCommute(zq, w) <=> AntiCommute(zt, w))
              /\ AntiCommute(w, zq ** zt) <=> ~(AntiCommute(w, zq) <=> AntiCommute(w, zt))
  BY AntiFacts
<1>12. \A a \in Names : /\ ~AntiCommute(xq ** xt, f[a].x) /\ ~AntiCommute(f[a].x, xq ** xt)
                        /\ AntiCommute(xq ** xt, f[a].z) <=> a \in {q, t}
                        /\ ~AntiCommute(zq ** zt, f[a].z) /\ ~AntiCommute(f[a].z, zq ** zt)
                        /\ AntiCommute(f[a].x, zq ** zt) <=> a \in {q, t}
  BY <1>1, <1>3, <1>4, <1>5, <1>6, <1>7, <1>11
<1>13. /\ ~AntiCommute(xq ** xt, xq ** xt) /\ ~AntiCommute(zq ** zt, zq ** zt)
       /\ ~AntiCommute(xq ** xt, zq ** zt)
  <2>1. AntiCommute(xq ** xt, zq ** zt) <=> ~(AntiCommute(xq ** xt, zq) <=> AntiCommute(xq ** xt, zt))
    BY <1>8, AntiFacts
  <2>2. AntiCommute(xq ** xt, zq) /\ AntiCommute(xq ** xt, zt)
    BY <1>5, <1>7, <1>12
  <2>3. QED
    BY <1>8, <2>1, <2>2, AntiFacts
<1>14. ASSUME NEW k \in Names, NEW l \in Names
       PROVE  /\ ~AntiCommute(e[k].x, e[l].x) /\ ~AntiCommute(e[k].z, e[l].z)
              /\ AntiCommute(e[k].x, e[l].z) <=> k = l
  <2>0. /\ e[k].x = (IF k = q THEN xq ** xt ELSE f[k].x) /\ e[l].x = (IF l = q THEN xq ** xt ELSE f[l].x)
        /\ e[k].z = (IF k = t THEN zq ** zt ELSE f[k].z) /\ e[l].z = (IF l = t THEN zq ** zt ELSE f[l].z)
    BY <1>2, <1>4, <1>5, <1>6, <1>7
  <2>1. ~AntiCommute(e[k].x, e[l].x)
    BY <2>0, <1>3, <1>12, <1>13
  <2>2. ~AntiCommute(e[k].z, e[l].z)
    BY <2>0, <1>3, <1>12, <1>13
  <2>3. AntiCommute(e[k].x, e[l].z) <=> k = l
    <3>1. CASE k = q /\ l = t
      BY <1>2, <1>4, <1>5, <1>6, <1>7, <1>13, <3>1
    <3>2. CASE k = q /\ l # t
      <4>1. e[k].x = xq ** xt /\ e[l].z = f[l].z
        BY <1>2, <1>4, <1>6, <3>2
      <4>2. QED
        BY <1>12, <3>2, <4>1
    <3>3. CASE k # q /\ l = t
      <4>1. e[k].x = f[k].x /\ e[l].z = zq ** zt
        BY <1>2, <1>5, <1>7, <3>3
      <4>2. QED
        BY <1>12, <3>3, <4>1
    <3>4. CASE k # q /\ l # t
      BY <1>2, <1>3, <3>4
    <3>5. QED
      BY <3>1, <3>2, <3>3, <3>4
  <2>4. QED
    BY <2>1, <2>2, <2>3
<1>15. Canonical(e)
  BY <1>9, <1>10, <1>14 DEF Canonical
<1>16. f[t].z ** f[q].z = f[q].z ** f[t].z
  BY <1>1, <1>3, WordSwap
<1>17. /\ Factor(e, q, "Y") = TimesI((xq ** xt) ** zq, 1)
       /\ Factor(e, t, "Y") = TimesI(xt ** (zq ** zt), 1)
       /\ Factor(f, q, "Y") = TimesI(xq ** zq, 1)
       /\ Factor(f, t, "Y") = TimesI(xt ** zt, 1)
  <2>1. /\ e[q].x = xq ** xt /\ e[q].z = zq /\ e[t].x = xt /\ e[t].z = zq ** zt
    BY <1>2, <1>4, <1>5, <1>6, <1>7
  <2>2. /\ Factor(e, q, "Y") = TimesI(e[q].x ** e[q].z, 1)
        /\ Factor(e, t, "Y") = TimesI(e[t].x ** e[t].z, 1)
    BY <1>9, FactorTypes
  <2>3. /\ Factor(f, q, "Y") = TimesI(f[q].x ** f[q].z, 1)
        /\ Factor(f, t, "Y") = TimesI(f[t].x ** f[t].z, 1)
    BY <1>1, FactorTypes
  <2>4. QED
    BY <1>4, <1>5, <1>6, <1>7, <2>1, <2>2, <2>3
<1>18. TimesI(xq ** zq, 1) ** xt = TimesI((xq ** xt) ** zq, 1)
  <2>1. xq ** zq \in Words
    BY WordTypes
  <2>2. TimesI(xq ** zq, 1) ** xt = TimesI((xq ** zq) ** xt, 1)
    BY <2>1, WordI
  <2>3. (xq ** zq) ** xt = xq ** (zq ** xt)
    BY WordAssoc
  <2>4. zq ** xt = xt ** zq
    <3>1. ~AntiCommute(zq, xt)
      BY <1>3, <1>5, <1>6
    <3>2. QED
      BY <3>1, WordSwap
  <2>5. (xq ** xt) ** zq = xq ** (xt ** zq)
    BY WordAssoc
  <2>6. QED
    BY <2>2, <2>3, <2>4, <2>5
<1>19. zq ** TimesI(xt ** zt, 1) = TimesI(xt ** (zq ** zt), 1)
  <2>1. xt ** zt \in Words
    BY WordTypes
  <2>2. zq ** TimesI(xt ** zt, 1) = TimesI(zq ** (xt ** zt), 1)
    BY <2>1, WordI
  <2>3. (zq ** xt) ** zt = zq ** (xt ** zt)
    BY WordAssoc
  <2>4. zq ** xt = xt ** zq
    <3>1. ~AntiCommute(zq, xt)
      BY <1>3, <1>5, <1>6
    <3>2. QED
      BY <3>1, WordSwap
  <2>5. (xt ** zq) ** zt = xt ** (zq ** zt)
    BY WordAssoc
  <2>6. QED
    BY <2>2, <2>3, <2>4, <2>5
<1>20. ASSUME NEW k \in Names, k \notin {q, t} PROVE Factor(f, k, "Y") = Factor(e, k, "Y")
  <2>1. Factor(e, k, "Y") = TimesI(e[k].x ** e[k].z, 1)
    BY <1>9, FactorTypes
  <2>2. Factor(f, k, "Y") = TimesI(f[k].x ** f[k].z, 1)
    BY <1>1, FactorTypes
  <2>3. QED
    BY <1>2, <1>20, <2>1, <2>2
<1>21. QED
  BY <1>4, <1>5, <1>6, <1>7, <1>15, <1>16, <1>17, <1>18, <1>19, <1>20 DEF CnotMatches

LEMMA CnotClifford ==
  ASSUME NEW args, args[1] \in Names, args[2] \in Names, args[1] # args[2]
  PROVE  DoesGate(Dagger("cx", args), "cx", args)
<1>1. PICK q \in Names : q = args[1]
  OBVIOUS
<1>2. PICK t \in Names : t = args[2] /\ q # t
  BY <1>1
<1>3. PICK C : C = Dagger("cx", args)
  OBVIOUS
<1>4. /\ C \in [Names \X Axis -> Pauli]
      /\ C[<<q, "X">>] = Product(On(q, "X"), On(t, "X"))
      /\ C[<<q, "Y">>] = Product(On(q, "Y"), On(t, "X"))
      /\ C[<<q, "Z">>] = On(q, "Z")
      /\ C[<<t, "X">>] = On(t, "X")
      /\ C[<<t, "Y">>] = Product(On(q, "Z"), On(t, "Y"))
      /\ C[<<t, "Z">>] = Product(On(q, "Z"), On(t, "Z"))
      /\ \A k \in Names : \A p \in Axis : k \notin {q, t} => C[<<k, p>>] = On(k, p)
  <2>1. IsCnot(C, q, t)
    BY <1>1, <1>2, <1>3, CnotTable
  <2>2. QED
    BY <2>1 DEF IsCnot
<1>5. ASSUME NEW f, Canonical(f)
      PROVE  /\ After(f, C) = Controlled(f, q, t)
             /\ Canonical(After(f, C))
             /\ f[t].z ** f[q].z = f[q].z ** f[t].z
             /\ \A k \in Names : WordOfPauli(f, C[<<k, "Y">>]) = Factor(After(f, C), k, "Y")
  <2>1. f \in Frames /\ "X" \in Axis /\ "Y" \in Axis /\ "Z" \in Axis
    BY <1>5 DEF Canonical, Axis
  <2>2. \A k \in Names : \A p \in Axis : On(k, p) \in Pauli /\ WordOfPauli(f, On(k, p)) = Factor(f, k, p)
    BY <1>5, WordsOfTables
  <2>3. \A k \in Names : Factor(f, k, "X") = f[k].x /\ Factor(f, k, "Z") = f[k].z
    BY <2>1, FactorTypes
  <2>4. \A k, l \in Names : \A p, r \in Axis :
          WordOfPauli(f, Product(On(k, p), On(l, r))) = Factor(f, k, p) ** Factor(f, l, r)
    BY <1>5, <2>2, WordOfProduct
  <2>5. /\ WordOfPauli(f, C[<<q, "X">>]) = f[q].x ** f[t].x
        /\ WordOfPauli(f, C[<<q, "Z">>]) = f[q].z
        /\ WordOfPauli(f, C[<<t, "X">>]) = f[t].x
        /\ WordOfPauli(f, C[<<t, "Z">>]) = f[q].z ** f[t].z
        /\ WordOfPauli(f, C[<<q, "Y">>]) = Factor(f, q, "Y") ** f[t].x
        /\ WordOfPauli(f, C[<<t, "Y">>]) = f[q].z ** Factor(f, t, "Y")
    BY <1>4, <2>1, <2>2, <2>3, <2>4
  <2>6. \A k \in Names : \A p \in Axis : k \notin {q, t} => WordOfPauli(f, C[<<k, p>>]) = Factor(f, k, p)
    BY <1>4, <2>2
  <2>7. \A k \in Names : /\ WordOfPauli(f, C[<<k, "X">>]) = IF k = q THEN f[q].x ** f[t].x ELSE f[k].x
                         /\ WordOfPauli(f, C[<<k, "Z">>]) = IF k = t THEN f[q].z ** f[t].z ELSE f[k].z
    BY <1>2, <2>1, <2>3, <2>5, <2>6
  <2>8. PICK e : e = After(f, C)
    OBVIOUS
  <2>9. e = Controlled(f, q, t)
    BY <2>7, <2>8 DEF After, Controlled
  <2>10. /\ Canonical(e)
         /\ f[t].z ** f[q].z = f[q].z ** f[t].z
         /\ Factor(f, q, "Y") ** f[t].x = Factor(e, q, "Y")
         /\ f[q].z ** Factor(f, t, "Y") = Factor(e, t, "Y")
         /\ \A k \in Names : k \notin {q, t} => Factor(f, k, "Y") = Factor(e, k, "Y")
    <3>1. CnotMatches(f, e, q, t)
      BY <1>2, <1>5, <2>9, CnotWords
    <3>2. QED
      BY <3>1 DEF CnotMatches
  <2>11. \A k \in Names : WordOfPauli(f, C[<<k, "Y">>]) = Factor(e, k, "Y")
    BY <2>1, <2>5, <2>6, <2>10
  <2>12. QED
    BY <2>8, <2>9, <2>10, <2>11
<1>6. Clifford(C)
  BY <1>4, <1>5 DEF Clifford
<1>7. ASSUME NEW f, Canonical(f), NEW e
      PROVE  Gate([frame |-> f, events |-> e], "cx", args) = [frame |-> After(f, C), events |-> e]
  <2>1. PICK m : m = [frame |-> f, events |-> e]
    OBVIOUS
  <2>2. m.frame = f
    BY <2>1
  <2>3. Gate(m, "cx", args) = [m EXCEPT !.frame[q].x = WordProduct(@, m.frame[t].x),
                                        !.frame[t].z = WordProduct(@, m.frame[q].z)]
    BY <1>1, <1>2 DEF Gate
  <2>4. [m EXCEPT !.frame[q].x = WordProduct(@, f[t].x), !.frame[t].z = WordProduct(@, f[q].z)]
          = [frame |-> [f EXCEPT ![q].x = f[q].x ** f[t].x, ![t].z = f[t].z ** f[q].z], events |-> e]
    <3>1. PICK g : g = [f EXCEPT ![q].x = f[q].x ** f[t].x]
      OBVIOUS
    <3>2. f \in [Names -> [x : Words, z : Words]]
      BY <1>7 DEF Canonical, Frames
    <3>3. g[t] = f[t]
      BY <1>2, <3>1, <3>2
    <3>4. PICK n : n = [frame |-> g, events |-> e]
      OBVIOUS
    <3>5. [m EXCEPT !.frame[q].x = WordProduct(@, f[t].x)] = n
      BY <2>1, <3>1, <3>4 DEF **
    <3>6. [n EXCEPT !.frame[t].z = WordProduct(@, f[q].z)]
            = [frame |-> [g EXCEPT ![t].z = f[t].z ** f[q].z], events |-> e]
      BY <3>3, <3>4 DEF **
    <3>7. [m EXCEPT !.frame[q].x = WordProduct(@, f[t].x), !.frame[t].z = WordProduct(@, f[q].z)]
            = [n EXCEPT !.frame[t].z = WordProduct(@, f[q].z)]
      BY <3>5
    <3>8. QED
      BY <3>1, <3>6, <3>7
  <2>5. [f EXCEPT ![q].x = f[q].x ** f[t].x, ![t].z = f[t].z ** f[q].z] = After(f, C)
    <3>1. f \in [Names -> [x : Words, z : Words]]
      BY <1>7 DEF Canonical, Frames
    <3>2. PICK u : u = f[q].x ** f[t].x
      OBVIOUS
    <3>3. PICK v : v = f[t].z ** f[q].z
      OBVIOUS
    <3>4. PICK X \in [Names -> Words] : \A k \in Names : X[k] = f[k].x
      <4>1. [k \in Names |-> f[k].x] \in [Names -> Words]
        BY <3>1
      <4>2. QED
        BY <4>1
    <3>5. PICK Z \in [Names -> Words] : \A k \in Names : Z[k] = f[k].z
      <4>1. [k \in Names |-> f[k].z] \in [Names -> Words]
        BY <3>1
      <4>2. QED
        BY <4>1
    <3>6. f = [k \in Names |-> [x |-> X[k], z |-> Z[k]]]
      BY <3>1, <3>4, <3>5
    <3>7. [f EXCEPT ![q].x = u, ![t].z = v]
            = [k \in Names |-> [x |-> IF k = q THEN u ELSE X[k], z |-> IF k = t THEN v ELSE Z[k]]]
      <4>1. PICK g : g = [f EXCEPT ![q].x = u]
        OBVIOUS
      <4>2. g = [k \in Names |-> [x |-> IF k = q THEN u ELSE X[k], z |-> Z[k]]]
        BY <3>6, <4>1
      <4>3. [g EXCEPT ![t].z = v]
            = [k \in Names |-> [x |-> IF k = q THEN u ELSE X[k], z |-> IF k = t THEN v ELSE Z[k]]]
        BY <1>2, <4>2
      <4>4. [f EXCEPT ![q].x = u, ![t].z = v] = [g EXCEPT ![t].z = v]
        BY <4>1
      <4>5. QED
        BY <4>3, <4>4
    <3>8. After(f, C) = [k \in Names |-> [x |-> IF k = q THEN u ELSE X[k], z |-> IF k = t THEN v ELSE Z[k]]]
      <4>1. After(f, C) = Controlled(f, q, t) /\ v = f[q].z ** f[t].z
        BY <1>5, <1>7, <3>3
      <4>2. QED
        BY <3>2, <3>4, <3>5, <4>1 DEF Controlled
    <3>9. QED
      BY <3>2, <3>3, <3>7, <3>8
  <2>6. QED
    BY <2>1, <2>2, <2>3, <2>4, <2>5
<1>8. QED
  BY <1>3, <1>6, <1>7 DEF DoesGate

(* To multiply by the gate's Clifford operator is to do the gate.          *)
LEMMA GateIsClifford ==
  ASSUME NEW op, NEW args, GateArgs(op, args)
  PROVE  DoesGate(Dagger(op, args), op, args)
<1>1. args[1] \in Names /\ op \in {"h", "x", "y", "z", "s", "sdg", "cx"}
  BY DEF GateArgs, CliffordGates
<1>2. "X" \in Axis /\ "Y" \in Axis /\ "Z" \in Axis /\ 1 \in 0 .. 3 /\ 2 \in 0 .. 3 /\ 3 \in 0 .. 3
  BY DEF Axis
<1>3. CASE op = "x"
  <2>1. \A m : Gate(m, "x", args) = Rotate(m, WordOf(m.frame, args[1], "X"), 2)
    BY DEF Gate
  <2>2. QED
    BY <1>1, <1>2, <1>3, <2>1, GateRotations, RotationDoesGate
<1>4. CASE op = "y"
  <2>1. \A m : Gate(m, "y", args) = Rotate(m, WordOf(m.frame, args[1], "Y"), 2)
    BY DEF Gate
  <2>2. QED
    BY <1>1, <1>2, <1>4, <2>1, GateRotations, RotationDoesGate
<1>5. CASE op = "z"
  <2>1. \A m : Gate(m, "z", args) = Rotate(m, WordOf(m.frame, args[1], "Z"), 2)
    BY DEF Gate
  <2>2. QED
    BY <1>1, <1>2, <1>5, <2>1, GateRotations, RotationDoesGate
<1>6. CASE op = "s"
  <2>1. \A m : Gate(m, "s", args) = Rotate(m, WordOf(m.frame, args[1], "Z"), 1)
    BY DEF Gate
  <2>2. QED
    BY <1>1, <1>2, <1>6, <2>1, GateRotations, RotationDoesGate
<1>7. CASE op = "sdg"
  <2>1. \A m : Gate(m, "sdg", args) = Rotate(m, WordOf(m.frame, args[1], "Z"), 3)
    BY DEF Gate
  <2>2. QED
    BY <1>1, <1>2, <1>7, <2>1, GateRotations, RotationDoesGate
<1>8. CASE op = "h"
  BY <1>1, <1>8, HadamardClifford
<1>9. CASE op = "cx"
  BY <1>9, CnotClifford DEF GateArgs
<1>10. QED
  BY <1>1, <1>3, <1>4, <1>5, <1>6, <1>7, <1>8, <1>9

-----------------------------------------------------------------------------
(* Lists, element by element.                                              *)

ListStep(g, list, n) == IF n = 0 THEN StartFrame ELSE AfterElement(g[n - 1], list[n])

IsListTo(g, list, N) == g = [n \in 0 .. N |-> ListStep(g, list, n)]

LEMMA ListToExists ==
  ASSUME NEW list, NEW N \in Nat
  PROVE  \E g : IsListTo(g, list, N)
<1> DEFINE reached == {n \in 0 .. N : \E g : IsListTo(g, list, n)}
<1>1. 0 \in reached
  <2> DEFINE g == [k \in 0 .. 0 |-> StartFrame]
  <2>1. \A k \in 0 .. 0 : ListStep(g, list, k) = StartFrame
    BY DEF ListStep
  <2>2. IsListTo(g, list, 0)
    BY <2>1 DEF IsListTo
  <2>3. QED
    BY <2>2
<1>2. \A n \in 0 .. N - 1 : n \in reached => n + 1 \in reached
  <2> SUFFICES ASSUME NEW n \in 0 .. N - 1, n \in reached PROVE n + 1 \in reached
    OBVIOUS
  <2>1. PICK g : IsListTo(g, list, n)
    OBVIOUS
  <2>2. PICK last : last = ListStep(g, list, n + 1)
    OBVIOUS
  <2> DEFINE h == [k \in 0 .. n + 1 |-> IF k <= n THEN g[k] ELSE last]
  <2>3. ASSUME NEW k \in 0 .. n + 1 PROVE h[k] = ListStep(h, list, k)
    <3>1. k # 0 => k - 1 \in 0 .. n + 1 /\ k - 1 <= n /\ h[k - 1] = g[k - 1]
      OBVIOUS
    <3>2. ListStep(h, list, k) = ListStep(g, list, k)
      BY <3>1 DEF ListStep
    <3>3. CASE k <= n
      <4>1. k \in 0 .. n /\ h[k] = g[k]
        BY <3>3
      <4>2. g[k] = ListStep(g, list, k)
        BY <2>1, <4>1 DEF IsListTo
      <4>3. QED
        BY <3>2, <4>1, <4>2
    <3>4. CASE ~(k <= n)
      <4>1. k = n + 1 /\ h[k] = last
        BY <3>4
      <4>2. QED
        BY <2>2, <3>2, <4>1
    <3>5. QED
      BY <3>3, <3>4
  <2>4. h = [k \in 0 .. n + 1 |-> h[k]]
    OBVIOUS
  <2> HIDE DEF h
  <2>5. h = [k \in 0 .. n + 1 |-> ListStep(h, list, k)]
    BY <2>3, <2>4
  <2>6. IsListTo(h, list, n + 1)
    BY <2>5 DEF IsListTo
  <2>7. QED
    BY <2>6
<1> HIDE DEF reached
<1>3. \A n \in 0 .. N : n \in reached
  BY <1>1, <1>2, Induction
<1>4. QED
  BY <1>3 DEF reached

LEMMA ListIsListTo ==
  ASSUME NEW list, NEW N \in Nat
  PROVE  \E g : IsListTo(g, list, N) /\ ListMeaning(list, N) = g[N]
<1> DEFINE upTo == CHOOSE g : g = [k \in 0 .. N |->
                     IF k = 0 THEN StartFrame ELSE AfterElement(g[k - 1], list[k])]
<1>1. ListMeaning(list, N) = upTo[N]
  BY DEF ListMeaning
<1>2. \E g : IsListTo(g, list, N)
  BY ListToExists
<1>3. IsListTo(upTo, list, N)
  BY <1>2 DEF IsListTo, ListStep
<1>4. QED
  BY <1>1, <1>3

(* Lists that begin with the same elements *)
LEMMA ListsAgree ==
  ASSUME NEW list, NEW other, NEW M \in Nat, NEW N \in Nat, NEW K \in Nat, K <= M, K <= N,
         \A k \in 1 .. K : list[k] = other[k],
         NEW g, IsListTo(g, list, M), NEW h, IsListTo(h, other, N)
  PROVE  g[K] = h[K]
<1> DEFINE same == {k \in 0 .. K : g[k] = h[k]}
<1>1. /\ \A k \in 0 .. M : g[k] = ListStep(g, list, k)
      /\ \A k \in 0 .. N : h[k] = ListStep(h, other, k)
  BY DEF IsListTo
<1>2. 0 \in same
  <2>1. 0 \in 0 .. M /\ 0 \in 0 .. N
    OBVIOUS
  <2>2. QED
    BY <1>1, <2>1 DEF ListStep
<1>3. \A k \in 0 .. K - 1 : k \in same => k + 1 \in same
  <2> SUFFICES ASSUME NEW k \in 0 .. K - 1, k \in same PROVE k + 1 \in same
    OBVIOUS
  <2>1. k + 1 \in 0 .. M /\ k + 1 \in 0 .. N /\ (k + 1) - 1 = k /\ k + 1 # 0 /\ k + 1 \in 1 .. K
    OBVIOUS
  <2>2. /\ g[k + 1] = AfterElement(g[k], list[k + 1])
        /\ h[k + 1] = AfterElement(h[k], other[k + 1])
    BY <1>1, <2>1 DEF ListStep
  <2>3. QED
    BY <2>1, <2>2
<1> HIDE DEF same
<1>4. \A k \in 0 .. K : k \in same
  BY <1>2, <1>3, Induction
<1>5. K \in 0 .. K
  OBVIOUS
<1>6. QED
  BY <1>4, <1>5 DEF same

LEMMA ListStarts ==
  ASSUME NEW list
  PROVE  ListMeaning(list, 0) = StartFrame
<1>1. PICK N \in Nat : N = 0
  OBVIOUS
<1>2. PICK g : IsListTo(g, list, N) /\ ListMeaning(list, N) = g[N]
  BY ListIsListTo
<1>3. g[0] = ListStep(g, list, 0)
  BY <1>1, <1>2 DEF IsListTo
<1>4. QED
  BY <1>1, <1>2, <1>3 DEF ListStep

LEMMA ListGoesOn ==
  ASSUME NEW list, NEW n \in Nat, n > 0
  PROVE  ListMeaning(list, n) = AfterElement(ListMeaning(list, n - 1), list[n])
<1>1. PICK N \in Nat : N = n - 1
  OBVIOUS
<1>2. PICK f : IsListTo(f, list, N) /\ ListMeaning(list, N) = f[N]
  BY ListIsListTo
<1>3. PICK g : IsListTo(g, list, n) /\ ListMeaning(list, n) = g[n]
  BY ListIsListTo
<1>4. N <= N /\ N <= n
  BY <1>1
<1>5. f[N] = g[N]
  <2>1. PICK other : other = list
    OBVIOUS
  <2>2. \A k \in 1 .. N : list[k] = other[k]
    BY <2>1
  <2>3. IsListTo(g, other, n)
    BY <1>3, <2>1
  <2>4. QED
    BY <1>2, <1>4, <2>2, <2>3, ListsAgree
<1>6. g[n] = ListStep(g, list, n)
  BY <1>3 DEF IsListTo
<1>7. QED
  BY <1>1, <1>2, <1>3, <1>5, <1>6 DEF ListStep

LEMMA ListsTheSame ==
  ASSUME NEW list, NEW other, NEW n \in Nat, \A k \in 1 .. n : list[k] = other[k]
  PROVE  ListMeaning(list, n) = ListMeaning(other, n)
<1>1. PICK f : IsListTo(f, list, n) /\ ListMeaning(list, n) = f[n]
  BY ListIsListTo
<1>2. PICK g : IsListTo(g, other, n) /\ ListMeaning(other, n) = g[n]
  BY ListIsListTo
<1>3. f[n] = g[n]
  <2>1. n <= n
    OBVIOUS
  <2>2. IsListTo(f, list, n) /\ IsListTo(g, other, n)
    BY <1>1, <1>2
  <2>3. QED
    BY <2>1, <2>2, ListsAgree
<1>4. QED
  BY <1>1, <1>2, <1>3

-----------------------------------------------------------------------------
(* Programs, statement by statement.                                       *)

Skipped(p, d, n) == Scope(p, n) # d \/ p[n].op \in {"enter", "leave", "deleted"}

MeaningStep(g, p, d, n) ==
  IF n = 0 THEN StartFrame
  ELSE IF Skipped(p, d, n) THEN g[n - 1]
  ELSE AfterStatement(g[n - 1], p[n])

IsMeaningTo(g, p, d, N) == g = [n \in 0 .. N |-> MeaningStep(g, p, d, n)]

LEMMA MeaningToExists ==
  ASSUME NEW p, NEW d, NEW N \in Nat
  PROVE  \E g : IsMeaningTo(g, p, d, N)
<1> DEFINE reached == {n \in 0 .. N : \E g : IsMeaningTo(g, p, d, n)}
<1>1. 0 \in reached
  <2> DEFINE g == [k \in 0 .. 0 |-> StartFrame]
  <2>1. \A k \in 0 .. 0 : MeaningStep(g, p, d, k) = StartFrame
    BY DEF MeaningStep
  <2>2. IsMeaningTo(g, p, d, 0)
    BY <2>1 DEF IsMeaningTo
  <2>3. QED
    BY <2>2
<1>2. \A n \in 0 .. N - 1 : n \in reached => n + 1 \in reached
  <2> SUFFICES ASSUME NEW n \in 0 .. N - 1, n \in reached PROVE n + 1 \in reached
    OBVIOUS
  <2>1. PICK g : IsMeaningTo(g, p, d, n)
    OBVIOUS
  <2>2. PICK last : last = MeaningStep(g, p, d, n + 1)
    OBVIOUS
  <2> DEFINE h == [k \in 0 .. n + 1 |-> IF k <= n THEN g[k] ELSE last]
  <2>3. ASSUME NEW k \in 0 .. n + 1 PROVE h[k] = MeaningStep(h, p, d, k)
    <3>1. k # 0 => k - 1 \in 0 .. n + 1 /\ k - 1 <= n /\ h[k - 1] = g[k - 1]
      OBVIOUS
    <3>2. MeaningStep(h, p, d, k) = MeaningStep(g, p, d, k)
      BY <3>1 DEF MeaningStep
    <3>3. CASE k <= n
      <4>1. k \in 0 .. n /\ h[k] = g[k]
        BY <3>3
      <4>2. g[k] = MeaningStep(g, p, d, k)
        BY <2>1, <4>1 DEF IsMeaningTo
      <4>3. QED
        BY <3>2, <4>1, <4>2
    <3>4. CASE ~(k <= n)
      <4>1. k = n + 1 /\ h[k] = last
        BY <3>4
      <4>2. QED
        BY <2>2, <3>2, <4>1
    <3>5. QED
      BY <3>3, <3>4
  <2>4. h = [k \in 0 .. n + 1 |-> h[k]]
    OBVIOUS
  <2> HIDE DEF h
  <2>5. h = [k \in 0 .. n + 1 |-> MeaningStep(h, p, d, k)]
    BY <2>3, <2>4
  <2>6. IsMeaningTo(h, p, d, n + 1)
    BY <2>5 DEF IsMeaningTo
  <2>7. QED
    BY <2>6
<1> HIDE DEF reached
<1>3. \A n \in 0 .. N : n \in reached
  BY <1>1, <1>2, Induction
<1>4. QED
  BY <1>3 DEF reached

LEMMA MeaningIsTo ==
  ASSUME NEW p, NEW d, NEW N \in Nat
  PROVE  \E g : IsMeaningTo(g, p, d, N) /\ Meaning(p, d, N) = g[N]
<1> DEFINE upTo == CHOOSE g : g = [n \in 0 .. N |->
                     IF n = 0 THEN StartFrame
                     ELSE IF Scope(p, n) # d \/ p[n].op \in {"enter", "leave", "deleted"} THEN g[n - 1]
                     ELSE AfterStatement(g[n - 1], p[n])]
<1>1. Meaning(p, d, N) = upTo[N]
  BY DEF Meaning
<1>2. \E g : IsMeaningTo(g, p, d, N)
  BY MeaningToExists
<1>3. IsMeaningTo(upTo, p, d, N)
  BY <1>2 DEF IsMeaningTo, MeaningStep, Skipped
<1>4. QED
  BY <1>1, <1>3

LEMMA MeaningsAgree ==
  ASSUME NEW p, NEW d, NEW N \in Nat, NEW K \in Nat, K <= N,
         NEW g, IsMeaningTo(g, p, d, K), NEW h, IsMeaningTo(h, p, d, N)
  PROVE  g[K] = h[K]
<1> DEFINE same == {k \in 0 .. K : g[k] = h[k]}
<1>1. /\ \A k \in 0 .. K : g[k] = MeaningStep(g, p, d, k)
      /\ \A k \in 0 .. N : h[k] = MeaningStep(h, p, d, k)
  BY DEF IsMeaningTo
<1>2. 0 \in same
  <2>1. 0 \in 0 .. K /\ 0 \in 0 .. N
    OBVIOUS
  <2>2. QED
    BY <1>1, <2>1 DEF MeaningStep
<1>3. \A k \in 0 .. K - 1 : k \in same => k + 1 \in same
  <2> SUFFICES ASSUME NEW k \in 0 .. K - 1, k \in same PROVE k + 1 \in same
    OBVIOUS
  <2>1. k + 1 \in 0 .. K /\ k + 1 \in 0 .. N /\ (k + 1) - 1 = k /\ k + 1 # 0
    OBVIOUS
  <2>2. /\ g[k + 1] = IF Skipped(p, d, k + 1) THEN g[k] ELSE AfterStatement(g[k], p[k + 1])
        /\ h[k + 1] = IF Skipped(p, d, k + 1) THEN h[k] ELSE AfterStatement(h[k], p[k + 1])
    BY <1>1, <2>1 DEF MeaningStep
  <2>3. QED
    BY <2>1, <2>2
<1> HIDE DEF same
<1>4. \A k \in 0 .. K : k \in same
  BY <1>2, <1>3, Induction
<1>5. K \in 0 .. K
  OBVIOUS
<1>6. QED
  BY <1>4, <1>5 DEF same

LEMMA MeaningStarts ==
  ASSUME NEW p, NEW d
  PROVE  Meaning(p, d, 0) = StartFrame
<1>1. PICK N \in Nat : N = 0
  OBVIOUS
<1>2. PICK g : IsMeaningTo(g, p, d, N) /\ Meaning(p, d, N) = g[N]
  BY MeaningIsTo
<1>3. g[0] = MeaningStep(g, p, d, 0)
  BY <1>1, <1>2 DEF IsMeaningTo
<1>4. QED
  BY <1>1, <1>2, <1>3 DEF MeaningStep

LEMMA MeaningGoesOn ==
  ASSUME NEW p, NEW d, NEW n \in Nat, n > 0
  PROVE  Meaning(p, d, n) = IF Skipped(p, d, n) THEN Meaning(p, d, n - 1)
                            ELSE AfterStatement(Meaning(p, d, n - 1), p[n])
<1>1. PICK N \in Nat : N = n - 1
  OBVIOUS
<1>2. PICK f : IsMeaningTo(f, p, d, N) /\ Meaning(p, d, N) = f[N]
  BY MeaningIsTo
<1>3. PICK g : IsMeaningTo(g, p, d, n) /\ Meaning(p, d, n) = g[n]
  BY MeaningIsTo
<1>4. N <= n
  BY <1>1
<1>5. f[N] = g[N]
  BY <1>2, <1>3, <1>4, MeaningsAgree
<1>6. g[n] = MeaningStep(g, p, d, n)
  BY <1>3 DEF IsMeaningTo
<1>7. QED
  BY <1>1, <1>2, <1>3, <1>5, <1>6 DEF MeaningStep

(* A scope of which nothing has been seen *)
LEMMA MeaningOfNothing ==
  ASSUME NEW p, NEW d, NEW N \in Nat, \A n \in 1 .. N : Skipped(p, d, n)
  PROVE  Meaning(p, d, N) = StartFrame
<1> DEFINE none == {n \in 0 .. N : Meaning(p, d, n) = StartFrame}
<1>1. 0 \in none
  BY MeaningStarts
<1>2. \A n \in 0 .. N - 1 : n \in none => n + 1 \in none
  <2> SUFFICES ASSUME NEW n \in 0 .. N - 1, n \in none PROVE n + 1 \in none
    OBVIOUS
  <2>1. PICK m \in Nat : m = n + 1 /\ m - 1 = n /\ m > 0 /\ m \in 1 .. N
    OBVIOUS
  <2>2. Meaning(p, d, m) = Meaning(p, d, m - 1)
    BY <2>1, MeaningGoesOn
  <2>3. QED
    BY <2>1, <2>2
<1> HIDE DEF none
<1>3. \A n \in 0 .. N : n \in none
  BY <1>1, <1>2, Induction
<1>4. N \in 0 .. N
  OBVIOUS
<1>5. QED
  BY <1>3, <1>4 DEF none

-----------------------------------------------------------------------------
(* Frames that a circuit can be in: the operators of the qubits at the     *)
(* start and after the unknown gates, with numbers below b.                *)

OldWord(w, b) == w.x \subseteq Names \X (0 .. b - 1) /\ w.z \subseteq Names \X (0 .. b - 1)

GoodFrame(f, b) ==
  /\ Canonical(f)
  /\ \A q \in Names : OldWord(f[q].x, b) /\ OldWord(f[q].z, b)

Good(m, b) == m = [frame |-> m.frame, events |-> m.events] /\ GoodFrame(m.frame, b)

LEMMA OldProduct ==
  ASSUME NEW v \in Words, NEW w \in Words, NEW b, OldWord(v, b), OldWord(w, b), NEW n \in 0 .. 3
  PROVE  OldWord(v ** w, b) /\ OldWord(TimesI(v, n), b) /\ OldWord(Idle, b)
<1>1. OldWord(Idle, b)
  BY IdleWord DEF OldWord
<1>2. OldWord(TimesI(v, n), b)
  BY PhasedWord DEF OldWord
<1>3. OldWord(v ** w, b)
  <2>1. (v ** w).x = XorOf(v.x, w.x) /\ (v ** w).z = XorOf(v.z, w.z)
    BY WordTypes
  <2>2. QED
    BY <2>1 DEF OldWord, XorOf
<1>4. QED
  BY <1>1, <1>2, <1>3

LEMMA OldFactor ==
  ASSUME NEW f, NEW b, GoodFrame(f, b), NEW q \in Names, NEW p \in PauliOp
  PROVE  Factor(f, q, p) \in Words /\ OldWord(Factor(f, q, p), b)
<1>1. f \in Frames
  BY DEF GoodFrame, Canonical
<1>2. PICK x \in Words : x = f[q].x
  BY <1>1, FactorTypes
<1>3. PICK z \in Words : z = f[q].z
  BY <1>1, FactorTypes
<1>4. OldWord(x, b) /\ OldWord(z, b)
  BY <1>2, <1>3 DEF GoodFrame
<1>5. x ** z \in Words
  BY WordTypes
<1>6. OldWord(x ** z, b) /\ OldWord(Idle, b)
  <2>1. PICK n \in 0 .. 3 : n = 1
    OBVIOUS
  <2>2. QED
    BY <1>4, <2>1, OldProduct
<1>7. OldWord(TimesI(x ** z, 1), b)
  BY <1>5, PhasedWord, <1>6 DEF OldWord
<1>8. /\ Factor(f, q, "I") = Idle /\ Factor(f, q, "X") = x /\ Factor(f, q, "Z") = z
      /\ Factor(f, q, "Y") = TimesI(x ** z, 1) /\ Factor(f, q, p) \in Words
  BY <1>1, <1>2, <1>3, FactorTypes
<1>9. p \in {"I", "X", "Y", "Z"}
  BY DEF PauliOp, Axis
<1>10. QED
  BY <1>4, <1>6, <1>7, <1>8, <1>9

LEMMA OldWordOf ==
  ASSUME NEW f, NEW b, GoodFrame(f, b), NEW P \in Pauli
  PROVE  WordOfPauli(f, P) \in Words /\ OldWord(WordOfPauli(f, P), b)
<1>1. f \in Frames
  BY DEF GoodFrame, Canonical
<1>2. PICK g : g = WordTo(f, P)
  OBVIOUS
<1>3. /\ WordOfPauli(f, P) = g[NQ] /\ g[0] = TimesI(Idle, P.phase)
      /\ \A n \in 0 .. NQ : g[n] \in Words
      /\ \A n \in 1 .. NQ : g[n] = g[n - 1] ** Factor(f, n, P.op[n])
  BY <1>1, <1>2, WordToSteps, WordToTypes
<1> DEFINE old == {n \in 0 .. NQ : OldWord(g[n], b)}
<1>4. 0 \in old
  <2>1. P.phase \in 0 .. 3 /\ Idle \in Words
    BY PauliTypes, IdleWord
  <2>2. TimesI(Idle, P.phase).x = {} /\ TimesI(Idle, P.phase).z = {}
    BY <2>1, PhasedWord, IdleWord
  <2>3. QED
    BY <1>3, <2>2, SizeAssumption DEF OldWord
<1>5. \A n \in 0 .. NQ - 1 : n \in old => n + 1 \in old
  <2> SUFFICES ASSUME NEW n \in 0 .. NQ - 1, OldWord(g[n], b) PROVE OldWord(g[n + 1], b)
    BY SizeAssumption
  <2>1. PICK m \in Names : m = n + 1 /\ m \in 1 .. NQ /\ m - 1 = n /\ n \in 0 .. NQ
    BY SizeAssumption DEF Names
  <2>2. PICK p \in PauliOp : p = P.op[m]
    BY <2>1, PauliTypes
  <2>3. PICK F \in Words : F = Factor(f, m, p) /\ OldWord(F, b)
    BY OldFactor
  <2>4. PICK v \in Words : v = g[n]
    BY <1>3, <2>1
  <2>5. g[m] = v ** F
    BY <1>3, <2>1, <2>2, <2>3, <2>4
  <2>6. PICK k \in 0 .. 3 : k = 1
    OBVIOUS
  <2>7. OldWord(v ** F, b)
    BY <2>3, <2>4, <2>6, OldProduct
  <2>8. QED
    BY <2>1, <2>5, <2>7
<1> HIDE DEF old
<1>6. \A n \in 0 .. NQ : n \in old
  BY <1>4, <1>5, Induction, SizeAssumption
<1>7. NQ \in 0 .. NQ
  BY SizeAssumption
<1>8. QED
  BY <1>3, <1>6, <1>7 DEF old

LEMMA OldRotated ==
  ASSUME NEW Q \in Words, NEW w \in Words, NEW n \in 0 .. 3, NEW b, OldWord(Q, b), OldWord(w, b)
  PROVE  OldWord(Rotated(Q, n, w), b)
<1>1. Q ** w \in Words
  BY WordTypes
<1>2. OldWord(Q ** w, b) /\ OldWord(TimesI(w, n), b)
  BY OldProduct
<1>3. OldWord(TimesI(Q ** w, n), b)
  BY <1>1, <1>2, PhasedWord DEF OldWord
<1>4. CASE ~AntiCommute(Q, w)
  BY <1>4, RotatedCases
<1>5. CASE AntiCommute(Q, w)
  <2>1. n = 0 => Rotated(Q, n, w) = w
    BY RotatedCases
  <2>2. n = 2 => Rotated(Q, n, w) = TimesI(w, n)
    BY <1>5, RotatedCases
  <2>3. n \in {1, 3} => Rotated(Q, n, w) = TimesI(Q ** w, n)
    BY <1>5, RotatedCases
  <2>4. n = 0 \/ n = 2 \/ n \in {1, 3}
    OBVIOUS
  <2>5. QED
    BY <1>2, <1>3, <2>1, <2>2, <2>3, <2>4
<1>6. QED
  BY <1>4, <1>5

LEMMA GoodRotated ==
  ASSUME NEW f, NEW b, GoodFrame(f, b), NEW Q, Hermitian(Q), OldWord(Q, b), NEW k \in 0 .. 3
  PROVE  GoodFrame(RotatedFrame(f, Q, k), b)
<1>1. f \in Frames /\ Q \in Words /\ Canonical(f)
  BY DEF GoodFrame, Canonical, Hermitian
<1>2. Canonical(RotatedFrame(f, Q, k))
  BY <1>1, RotatedCanonical
<1>3. ASSUME NEW q \in Names
      PROVE  OldWord(Rotated(Q, k, f[q].x), b) /\ OldWord(Rotated(Q, k, f[q].z), b)
  <2>1. f[q].x \in Words /\ f[q].z \in Words
    BY <1>1, FactorTypes
  <2>2. OldWord(f[q].x, b) /\ OldWord(f[q].z, b)
    BY DEF GoodFrame
  <2>3. OldWord(Rotated(Q, k, f[q].x), b)
    BY <1>1, <2>1, <2>2, OldRotated
  <2>4. OldWord(Rotated(Q, k, f[q].z), b)
    BY <1>1, <2>1, <2>2, OldRotated
  <2>5. QED
    BY <2>3, <2>4
<1>4. PICK h : h = RotatedFrame(f, Q, k)
  OBVIOUS
<1>5. \A q \in Names : h[q].x = Rotated(Q, k, f[q].x) /\ h[q].z = Rotated(Q, k, f[q].z)
  BY <1>4 DEF RotatedFrame
<1>6. QED
  BY <1>2, <1>3, <1>4, <1>5 DEF GoodFrame

LEMMA GoodAfter ==
  ASSUME NEW f, NEW b, GoodFrame(f, b), NEW C, Clifford(C)
  PROVE  GoodFrame(After(f, C), b)
<1>1. Canonical(f)
  BY DEF GoodFrame
<1>2. Canonical(After(f, C))
  BY <1>1 DEF Clifford
<1>3. ASSUME NEW q \in Names, NEW p \in Axis
      PROVE  OldWord(WordOfPauli(f, C[<<q, p>>]), b)
  <2>1. <<q, p>> \in Names \X Axis
    OBVIOUS
  <2>2. PICK P \in Pauli : P = C[<<q, p>>]
    BY <2>1 DEF Clifford
  <2>3. QED
    BY <2>2, OldWordOf
<1>4. PICK h : h = After(f, C)
  OBVIOUS
<1>5. \A q \in Names : h[q].x = WordOfPauli(f, C[<<q, "X">>]) /\ h[q].z = WordOfPauli(f, C[<<q, "Z">>])
  BY <1>4 DEF After
<1>6. \A q \in Names : OldWord(h[q].x, b) /\ OldWord(h[q].z, b)
  BY <1>3, <1>5 DEF Axis
<1>7. QED
  BY <1>2, <1>4, <1>6 DEF GoodFrame

LEMMA GoodLater ==
  ASSUME NEW m, NEW b \in Nat, NEW c \in Nat, b <= c, Good(m, b)
  PROVE  Good(m, c)
<1>1. Names \X (0 .. b - 1) \subseteq Names \X (0 .. c - 1)
  <2>1. 0 .. b - 1 \subseteq 0 .. c - 1
    OBVIOUS
  <2>2. QED
    BY <2>1
<1>2. \A w : OldWord(w, b) => OldWord(w, c)
  BY <1>1 DEF OldWord
<1>3. QED
  BY <1>2 DEF Good, GoodFrame

-----------------------------------------------------------------------------
(* The operators that an unknown gate leaves.                              *)

LEMMA FreshWords ==
  ASSUME NEW q \in Names, NEW id \in Nat
  PROVE  /\ FreshQubit(q, id) \in [x : Words, z : Words]
         /\ FreshQubit(q, id).x.x = {<<q, id>>} /\ FreshQubit(q, id).x.z = {}
         /\ FreshQubit(q, id).z.x = {} /\ FreshQubit(q, id).z.z = {<<q, id>>}
         /\ Hermitian(FreshQubit(q, id).x) /\ Hermitian(FreshQubit(q, id).z)
<1>1. {} \in Ops /\ {<<q, id>>} \in Ops
  <2>1. IsFiniteSet({}) /\ IsFiniteSet({<<q, id>>})
    BY FS_EmptySet, FS_Singleton
  <2>2. QED
    BY <2>1 DEF Ops
<1>0. \A A, B \in Ops : Word(A, B) \in Words
  BY DEF Word, Words
<1>2. PICK X \in Words : X = Word({<<q, id>>}, {})
  BY <1>0, <1>1
<1>3. PICK Z \in Words : Z = Word({}, {<<q, id>>})
  BY <1>0, <1>1
<1>4. /\ X.x = {<<q, id>>} /\ X.z = {} /\ X.phase = 0
      /\ Z.x = {} /\ Z.z = {<<q, id>>} /\ Z.phase = 0
  BY <1>2, <1>3 DEF Word
<1>5. FreshQubit(q, id) = [x |-> X, z |-> Z]
  BY <1>2, <1>3 DEF FreshQubit
<1>6. ASSUME NEW v \in Words, v.x \cap v.z = {}, v.phase = 0 PROVE Hermitian(v)
  <2>1. Beta(v, v) = 0
    <3>1. v.z \cap v.x = {}
      BY <1>6
    <3>2. Cardinality({}) = 0
      BY FS_EmptySet
    <3>3. QED
      BY <3>1, <3>2 DEF Beta, Overlap
  <2>2. /\ v ** v \in Words /\ (v ** v).x = XorOf(v.x, v.x) /\ (v ** v).z = XorOf(v.z, v.z)
        /\ (v ** v).phase = (v.phase + v.phase + 2 * Beta(v, v)) % 4
    BY WordTypes
  <2>3. (v ** v).x = {} /\ (v ** v).z = {}
    BY <2>2 DEF XorOf
  <2>4. (v ** v).phase = 0
    BY <1>6, <2>1, <2>2
  <2>5. v ** v = Idle
    BY <2>2, <2>3, <2>4, IdleWord, SameWord
  <2>6. QED
    BY <2>5 DEF Hermitian
<1>7. QED
  BY <1>4, <1>5, <1>6

LEMMA FreshApart ==
  ASSUME NEW p \in Names, NEW q \in Names, NEW id \in Nat
  PROVE  /\ ~AntiCommute(FreshQubit(p, id).x, FreshQubit(q, id).x)
         /\ ~AntiCommute(FreshQubit(p, id).z, FreshQubit(q, id).z)
         /\ AntiCommute(FreshQubit(p, id).x, FreshQubit(q, id).z) <=> p = q
<1>1. /\ FreshQubit(p, id).x.x = {<<p, id>>} /\ FreshQubit(p, id).x.z = {}
      /\ FreshQubit(p, id).z.x = {} /\ FreshQubit(p, id).z.z = {<<p, id>>}
      /\ FreshQubit(q, id).x.x = {<<q, id>>} /\ FreshQubit(q, id).x.z = {}
      /\ FreshQubit(q, id).z.x = {} /\ FreshQubit(q, id).z.z = {<<q, id>>}
  BY FreshWords
<1>2. Cardinality({}) = 0 /\ \A x : Cardinality({x}) = 1
  BY FS_EmptySet, FS_Singleton
<1>3. \A S : {} \cap S = {} /\ S \cap {} = {}
  OBVIOUS
<1>4. {<<p, id>>} \cap {<<q, id>>} = IF p = q THEN {<<p, id>>} ELSE {}
  <2>1. PICK a : a = <<p, id>>
    OBVIOUS
  <2>2. PICK b : b = <<q, id>>
    OBVIOUS
  <2>3. a = b <=> p = q
    BY <2>1, <2>2
  <2>4. {a} \cap {b} = IF a = b THEN {a} ELSE {}
    OBVIOUS
  <2>5. QED
    BY <2>1, <2>2, <2>3, <2>4
<1>5. ~AntiCommute(FreshQubit(p, id).x, FreshQubit(q, id).x)
  BY <1>1, <1>2, <1>3 DEF AntiCommute
<1>6. ~AntiCommute(FreshQubit(p, id).z, FreshQubit(q, id).z)
  BY <1>1, <1>2, <1>3 DEF AntiCommute
<1>7. AntiCommute(FreshQubit(p, id).x, FreshQubit(q, id).z) <=> p = q
  <2>1. AntiCommute(FreshQubit(p, id).x, FreshQubit(q, id).z)
          <=> (Cardinality({}) + Cardinality({<<p, id>>} \cap {<<q, id>>})) % 2 = 1
    BY <1>1, <1>3 DEF AntiCommute
  <2>2. CASE p = q
    <3>1. Cardinality({<<p, id>>} \cap {<<q, id>>}) = 1
      BY <1>2, <1>4, <2>2
    <3>2. (0 + 1) % 2 = 1
      OBVIOUS
    <3>3. QED
      BY <1>2, <2>1, <2>2, <3>1, <3>2
  <2>3. CASE p # q
    BY <1>2, <1>4, <2>1, <2>3
  <2>4. QED
    BY <2>2, <2>3
<1>8. QED
  BY <1>5, <1>6, <1>7

LEMMA FreshAndOld ==
  ASSUME NEW q \in Names, NEW id \in Nat, NEW w \in Words, OldWord(w, id)
  PROVE  /\ ~AntiCommute(FreshQubit(q, id).x, w) /\ ~AntiCommute(FreshQubit(q, id).z, w)
         /\ ~AntiCommute(w, FreshQubit(q, id).x) /\ ~AntiCommute(w, FreshQubit(q, id).z)
<1>1. /\ FreshQubit(q, id).x.x = {<<q, id>>} /\ FreshQubit(q, id).x.z = {}
      /\ FreshQubit(q, id).z.x = {} /\ FreshQubit(q, id).z.z = {<<q, id>>}
  BY FreshWords
<1>2. id \notin 0 .. id - 1
  OBVIOUS
<1>3. <<q, id>> \notin w.x /\ <<q, id>> \notin w.z
  BY <1>2 DEF OldWord
<1>4. /\ {<<q, id>>} \cap w.x = {} /\ {<<q, id>>} \cap w.z = {}
      /\ w.x \cap {<<q, id>>} = {} /\ w.z \cap {<<q, id>>} = {}
  BY <1>3
<1>5. \A S : {} \cap S = {} /\ S \cap {} = {}
  OBVIOUS
<1>6. Cardinality({}) = 0
  BY FS_EmptySet
<1>7. ASSUME NEW v, NEW u, v.z \cap u.x = {}, v.x \cap u.z = {} PROVE ~AntiCommute(v, u)
  <2>1. Cardinality(v.z \cap u.x) = 0 /\ Cardinality(v.x \cap u.z) = 0
    BY <1>6, <1>7
  <2>2. (0 + 0) % 2 # 1
    OBVIOUS
  <2>3. QED
    BY <2>1, <2>2 DEF AntiCommute
<1>8. ~AntiCommute(FreshQubit(q, id).x, w)
  BY <1>1, <1>4, <1>5, <1>7
<1>10. ~AntiCommute(FreshQubit(q, id).z, w)
  BY <1>1, <1>4, <1>5, <1>7
<1>11. ~AntiCommute(w, FreshQubit(q, id).x)
  BY <1>1, <1>4, <1>5, <1>7
<1>12. ~AntiCommute(w, FreshQubit(q, id).z)
  BY <1>1, <1>4, <1>5, <1>7
<1>13. QED
  BY <1>8, <1>10, <1>11, <1>12

(* An unknown gate on the qubits S *)
Replaced(f, S, id) == [q \in Names |-> IF q \in S THEN FreshQubit(q, id) ELSE f[q]]

LEMMA GoodReplaced ==
  ASSUME NEW f, NEW id \in Nat, GoodFrame(f, id), NEW S, NEW c \in Nat, c = id + 1
  PROVE  GoodFrame(Replaced(f, S, id), c)
<1>1. f \in Frames /\ Canonical(f)
  BY DEF GoodFrame, Canonical
<1>2. PICK h : h = Replaced(f, S, id)
  OBVIOUS
<1>3. \A q \in Names : h[q] = IF q \in S THEN FreshQubit(q, id) ELSE f[q]
  BY <1>2 DEF Replaced
<1>4. \A q \in Names : f[q] \in [x : Words, z : Words] /\ f[q].x \in Words /\ f[q].z \in Words
  BY <1>1, FactorTypes DEF Frames
<1>5. h \in Frames
  <2>1. \A q \in Names : h[q] \in [x : Words, z : Words]
    BY <1>3, <1>4, FreshWords
  <2>2. h = [q \in Names |-> h[q]]
    BY <1>2 DEF Replaced
  <2>3. QED
    BY <2>1, <2>2 DEF Frames
<1>6. \A q \in Names : Hermitian(h[q].x) /\ Hermitian(h[q].z)
  BY <1>1, <1>3, FreshWords DEF Canonical
<1>7. ASSUME NEW p \in Names, NEW q \in Names
      PROVE  /\ ~AntiCommute(h[p].x, h[q].x) /\ ~AntiCommute(h[p].z, h[q].z)
             /\ AntiCommute(h[p].x, h[q].z) <=> p = q
  <2>1. CASE p \in S /\ q \in S
    <3>1. h[p] = FreshQubit(p, id) /\ h[q] = FreshQubit(q, id)
      BY <1>3, <2>1
    <3>2. QED
      BY <3>1, FreshApart
  <2>2. CASE p \in S /\ q \notin S
    <3>1. h[p] = FreshQubit(p, id) /\ h[q] = f[q] /\ p # q
      BY <1>3, <2>2
    <3>2. f[q].x \in Words /\ f[q].z \in Words /\ OldWord(f[q].x, id) /\ OldWord(f[q].z, id)
      BY <1>4 DEF GoodFrame
    <3>3. ~AntiCommute(FreshQubit(p, id).x, f[q].x)
      BY <3>2, FreshAndOld
    <3>4. ~AntiCommute(FreshQubit(p, id).x, f[q].z) /\ ~AntiCommute(FreshQubit(p, id).z, f[q].z)
      BY <3>2, FreshAndOld
    <3>5. QED
      BY <3>1, <3>3, <3>4
  <2>3. CASE p \notin S /\ q \in S
    <3>1. h[q] = FreshQubit(q, id) /\ h[p] = f[p] /\ p # q
      BY <1>3, <2>3
    <3>2. f[p].x \in Words /\ f[p].z \in Words /\ OldWord(f[p].x, id) /\ OldWord(f[p].z, id)
      BY <1>4 DEF GoodFrame
    <3>3. ~AntiCommute(f[p].x, FreshQubit(q, id).x) /\ ~AntiCommute(f[p].x, FreshQubit(q, id).z)
      BY <3>2, FreshAndOld
    <3>4. ~AntiCommute(f[p].z, FreshQubit(q, id).z)
      BY <3>2, FreshAndOld
    <3>5. QED
      BY <3>1, <3>3, <3>4
  <2>4. CASE p \notin S /\ q \notin S
    <3>1. h[q] = f[q] /\ h[p] = f[p]
      BY <1>3, <2>4
    <3>2. QED
      BY <1>1, <3>1 DEF Canonical
  <2>5. QED
    BY <2>1, <2>2, <2>3, <2>4
<1>8. ASSUME NEW q \in Names PROVE OldWord(h[q].x, c) /\ OldWord(h[q].z, c)
  <2>1. id \in 0 .. c - 1 /\ 0 .. id - 1 \subseteq 0 .. c - 1
    OBVIOUS
  <2>2. <<q, id>> \in Names \X (0 .. c - 1) /\ Names \X (0 .. id - 1) \subseteq Names \X (0 .. c - 1)
    BY <2>1
  <2>3. CASE q \in S
    <3>1. h[q] = FreshQubit(q, id)
      BY <1>3, <2>3
    <3>2. QED
      BY <2>2, <3>1, FreshWords DEF OldWord
  <2>4. CASE q \notin S
    <3>1. h[q] = f[q] /\ OldWord(f[q].x, id) /\ OldWord(f[q].z, id)
      BY <1>3, <2>4 DEF GoodFrame
    <3>2. QED
      BY <2>2, <3>1 DEF OldWord
  <2>5. QED
    BY <2>3, <2>4
<1>9. QED
  BY <1>2, <1>5, <1>6, <1>7, <1>8 DEF GoodFrame, Canonical

LEMMA StartGood == Good(StartFrame, 1)
<1>1. PICK f : f = [q \in Names |-> FreshQubit(q, 0)]
  OBVIOUS
<1>2. f \in Frames /\ \A q \in Names : f[q] = FreshQubit(q, 0)
  BY <1>1, FreshWords DEF Frames
<1>3. Canonical(f)
  <2>1. \A q \in Names : Hermitian(f[q].x) /\ Hermitian(f[q].z)
    BY <1>2, FreshWords
  <2>2. \A p, q \in Names :
          /\ ~AntiCommute(f[p].x, f[q].x) /\ ~AntiCommute(f[p].z, f[q].z)
          /\ AntiCommute(f[p].x, f[q].z) <=> p = q
    BY <1>2, FreshApart
  <2>3. QED
    BY <1>2, <2>1, <2>2 DEF Canonical
<1>4. ASSUME NEW q \in Names PROVE OldWord(f[q].x, 1) /\ OldWord(f[q].z, 1)
  <2>1. 0 \in 0 .. 1 - 1
    OBVIOUS
  <2>2. <<q, 0>> \in Names \X (0 .. 1 - 1)
    BY <2>1
  <2>3. QED
    BY <1>2, <2>2, FreshWords DEF OldWord
<1>5. StartFrame = [frame |-> f, events |-> <<>>]
  BY <1>1 DEF StartFrame
<1>6. QED
  BY <1>3, <1>4, <1>5 DEF Good, GoodFrame

-----------------------------------------------------------------------------
(* Elements of a list.                                                     *)

(* A Pauli with the phase 1 or -1 *)
Signed(P) == P \in Pauli /\ \A f : Canonical(f) => Hermitian(WordOfPauli(f, P))

IsElement(e) ==
  /\ e.kind \in {"rotation", "clifford", "uninterp"}
  /\ e.kind = "rotation" => Signed(e.pauli) /\ e.theta \in 0 .. 3
  /\ e.kind = "clifford" => Clifford(e.map)
  /\ e.kind = "uninterp" => e.id \in Nat \ {0} /\ e.qubits \in Seq(Names)

Elements(list, N) ==
  \A n \in 1 .. N :
    /\ IsElement(list[n])
    /\ \A m \in 1 .. n - 1 :
         list[m].kind = "uninterp" /\ list[n].kind = "uninterp" => list[m].id < list[n].id

Before(list, N, b) == \A n \in 1 .. N : list[n].kind = "uninterp" => list[n].id < b

LEMMA AfterRotation ==
  ASSUME NEW m, NEW b, Good(m, b), NEW e, e.kind = "rotation"
  PROVE  AfterElement(m, e) = [frame  |-> RotatedFrame(m.frame, WordOfPauli(m.frame, e.pauli), e.theta),
                               events |-> m.events]
<1>1. PICK f : f = m.frame
  OBVIOUS
<1>2. PICK v : v = m.events
  OBVIOUS
<1>3. m = [frame |-> f, events |-> v]
  BY <1>1, <1>2 DEF Good
<1>4. AfterElement(m, e) = Rotate(m, WordOfPauli(f, e.pauli), e.theta)
  BY <1>1 DEF AfterElement
<1>5. Rotate(m, WordOfPauli(f, e.pauli), e.theta)
        = [frame |-> RotatedFrame(f, WordOfPauli(f, e.pauli), e.theta), events |-> v]
  BY <1>3, RotateFrame
<1>6. QED
  BY <1>1, <1>2, <1>4, <1>5

LEMMA AfterClifford ==
  ASSUME NEW m, NEW b, Good(m, b), NEW e, e.kind = "clifford"
  PROVE  AfterElement(m, e) = [frame |-> After(m.frame, e.map), events |-> m.events]
<1>1. AfterElement(m, e) = [m EXCEPT !.frame = After(m.frame, e.map)]
  BY DEF AfterElement, After
<1>2. PICK f : f = m.frame
  OBVIOUS
<1>3. PICK v : v = m.events
  OBVIOUS
<1>4. m = [frame |-> f, events |-> v]
  BY <1>2, <1>3 DEF Good
<1>5. PICK g : g = After(f, e.map)
  OBVIOUS
<1>6. [m EXCEPT !.frame = g] = [frame |-> g, events |-> v]
  BY <1>4
<1>7. QED
  BY <1>1, <1>2, <1>3, <1>5, <1>6

LEMMA AfterOther ==
  ASSUME NEW m, NEW args \in Seq(Names), NEW id
  PROVE  OtherGate(m, args, id)
           = [frame  |-> Replaced(m.frame, Range(args), id),
              events |-> Append(m.events, <<id, [n \in DOMAIN args |-> m.frame[args[n]]]>>)]
<1>1. \A q : (\E n \in DOMAIN args : args[n] = q) <=> q \in Range(args)
  BY DEF Range
<1>2. QED
  BY <1>1 DEF OtherGate, Replaced

LEMMA AfterUninterp ==
  ASSUME NEW m, NEW e, e.kind = "uninterp"
  PROVE  AfterElement(m, e) = OtherGate(m, e.qubits, e.id)
BY DEF AfterElement

LEMMA ElementGood ==
  ASSUME NEW m, NEW b \in Nat, Good(m, b), NEW e, IsElement(e)
  PROVE  /\ e.kind # "uninterp" => Good(AfterElement(m, e), b)
         /\ e.kind = "uninterp" /\ b <= e.id => Good(AfterElement(m, e), e.id + 1)
<1>1. PICK f : f = m.frame
  OBVIOUS
<1>2. GoodFrame(f, b) /\ Canonical(f)
  BY <1>1 DEF Good, GoodFrame
<1>3. ASSUME e.kind = "rotation" PROVE Good(AfterElement(m, e), b)
  <2>1. PICK P \in Pauli : P = e.pauli /\ Hermitian(WordOfPauli(f, P))
    BY <1>2, <1>3 DEF IsElement, Signed
  <2>2. PICK k \in 0 .. 3 : k = e.theta
    BY <1>3 DEF IsElement
  <2>3. PICK Q : Q = WordOfPauli(f, P)
    OBVIOUS
  <2>4. Hermitian(Q) /\ OldWord(Q, b)
    BY <1>2, <2>1, <2>3, OldWordOf
  <2>5. GoodFrame(RotatedFrame(f, Q, k), b)
    BY <1>2, <2>4, GoodRotated
  <2>6. AfterElement(m, e) = [frame |-> RotatedFrame(f, Q, k), events |-> m.events]
    BY <1>1, <1>3, <2>1, <2>2, <2>3, AfterRotation
  <2>7. QED
    BY <2>5, <2>6 DEF Good
<1>4. ASSUME e.kind = "clifford" PROVE Good(AfterElement(m, e), b)
  <2>1. Clifford(e.map)
    BY <1>4 DEF IsElement
  <2>2. GoodFrame(After(f, e.map), b)
    BY <1>2, <2>1, GoodAfter
  <2>3. AfterElement(m, e) = [frame |-> After(f, e.map), events |-> m.events]
    BY <1>1, <1>4, AfterClifford
  <2>4. QED
    BY <2>2, <2>3 DEF Good
<1>5. ASSUME e.kind = "uninterp", b <= e.id PROVE Good(AfterElement(m, e), e.id + 1)
  <2>1. PICK id \in Nat : id = e.id
    BY <1>5 DEF IsElement
  <2>2. PICK c \in Nat : c = id + 1
    OBVIOUS
  <2>3. e.qubits \in Seq(Names)
    BY <1>5 DEF IsElement
  <2>4. Good(m, id)
    BY <1>5, <2>1, GoodLater
  <2>5. GoodFrame(f, id)
    BY <1>1, <2>4 DEF Good
  <2>6. GoodFrame(Replaced(f, Range(e.qubits), id), c)
    BY <2>2, <2>5, GoodReplaced
  <2>7. PICK v : AfterElement(m, e) = [frame |-> Replaced(f, Range(e.qubits), id), events |-> v]
    BY <1>1, <1>5, <2>1, <2>3, AfterOther, AfterUninterp
  <2>8. QED
    BY <2>1, <2>2, <2>6, <2>7 DEF Good
<1>6. QED
  BY <1>3, <1>4, <1>5 DEF IsElement

LEMMA ListGood ==
  ASSUME NEW list, NEW N \in Nat, Elements(list, N)
  PROVE  \A n \in 0 .. N : \A b \in Nat : b > 0 /\ Before(list, n, b) => Good(ListMeaning(list, n), b)
<1> DEFINE good == {n \in 0 .. N : \A b \in Nat : b > 0 /\ Before(list, n, b) => Good(ListMeaning(list, n), b)}
<1>1. 0 \in good
  <2> SUFFICES ASSUME NEW b \in Nat, b > 0 PROVE Good(ListMeaning(list, 0), b)
    OBVIOUS
  <2>1. PICK one \in Nat : one = 1
    OBVIOUS
  <2>2. Good(StartFrame, one) /\ one <= b
    BY <2>1, StartGood
  <2>3. Good(StartFrame, b)
    BY <2>2, GoodLater
  <2>4. QED
    BY <2>3, ListStarts
<1>2. \A n \in 0 .. N - 1 : n \in good => n + 1 \in good
  <2> SUFFICES ASSUME NEW n \in 0 .. N - 1, n \in good, NEW b \in Nat, b > 0, Before(list, n + 1, b)
               PROVE  Good(ListMeaning(list, n + 1), b)
    OBVIOUS
  <2>1. PICK m \in Nat : m = n + 1 /\ m > 0 /\ m - 1 = n /\ m \in 1 .. N
    OBVIOUS
  <2>2. PICK M : M = ListMeaning(list, n)
    OBVIOUS
  <2>3. PICK e : e = list[m] /\ IsElement(e)
    BY <2>1 DEF Elements
  <2>4. ListMeaning(list, m) = AfterElement(M, e)
    BY <2>1, <2>2, <2>3, ListGoesOn
  <2>5. CASE e.kind # "uninterp"
    <3>1. Before(list, n, b)
      <4>1. 1 .. n \subseteq 1 .. n + 1
        OBVIOUS
      <4>2. QED
        BY <4>1 DEF Before
    <3>2. Good(M, b)
      BY <2>2, <3>1
    <3>3. Good(AfterElement(M, e), b)
      BY <2>3, <2>5, <3>2, ElementGood
    <3>4. QED
      BY <2>1, <2>4, <3>3
  <2>6. CASE e.kind = "uninterp"
    <3>1. PICK id \in Nat : id = e.id /\ id > 0
      BY <2>3, <2>6 DEF IsElement
    <3>2. Before(list, n, id)
      BY <2>1, <2>3, <2>6, <3>1 DEF Before, Elements
    <3>3. Good(M, id)
      BY <2>2, <3>1, <3>2
    <3>4. id <= e.id
      BY <3>1
    <3>5. Good(AfterElement(M, e), e.id + 1)
      BY <2>3, <2>6, <3>3, <3>4, ElementGood
    <3>6. PICK c \in Nat : c = e.id + 1
      BY <3>1
    <3>7. c <= b
      <4>1. list[m].id < b
        BY <2>1, <2>3, <2>6 DEF Before
      <4>2. QED
        BY <2>3, <3>1, <3>6, <4>1
    <3>8. Good(AfterElement(M, e), b)
      BY <3>5, <3>6, <3>7, GoodLater
    <3>9. QED
      BY <2>1, <2>4, <3>8
  <2>7. QED
    BY <2>5, <2>6
<1> HIDE DEF good
<1>3. \A n \in 0 .. N : n \in good
  BY <1>1, <1>2, Induction
<1>4. QED
  BY <1>3 DEF good

-----------------------------------------------------------------------------
(* Which scope a statement is in.                                          *)

Opens(p, n, m) ==
  m \in 1 .. n - 1 /\ p[m].op = "enter" /\ \A k \in m + 1 .. n - 1 : p[k].op # "leave"

LEMMA OneOpens ==
  ASSUME NEW p, NEW n \in Nat, \A k \in 1 .. n - 1 : p[k].op = "enter" => ~Inside(p, k),
         NEW m, Opens(p, n, m), NEW l, Opens(p, n, l), m < l
  PROVE  FALSE
<1>1. m \in 1 .. n - 1 /\ l \in 1 .. n - 1 /\ p[m].op = "enter" /\ p[l].op = "enter"
  BY DEF Opens
<1>2. m \in 1 .. l - 1 /\ \A k \in m + 1 .. l - 1 : k \in m + 1 .. n - 1
  BY <1>1
<1>3. Inside(p, l)
  BY <1>1, <1>2 DEF Inside, Opens
<1>4. QED
  BY <1>1, <1>3

LEMMA ScopeOpens ==
  ASSUME NEW p, NEW n \in Nat, \A k \in 1 .. n - 1 : p[k].op = "enter" => ~Inside(p, k)
  PROVE  /\ ~Inside(p, n) => Scope(p, n) = 0
         /\ Inside(p, n) => Opens(p, n, Scope(p, n)) /\ Scope(p, n) \in 1 .. n - 1
         /\ \A m : Opens(p, n, m) => Scope(p, n) = m
<1>1. ~Inside(p, n) => Scope(p, n) = 0
  BY DEF Scope
<1>2. ASSUME Inside(p, n) PROVE Opens(p, n, Scope(p, n)) /\ Scope(p, n) \in 1 .. n - 1
  BY <1>2 DEF Inside, Scope, Opens
<1>3. ASSUME NEW m, Opens(p, n, m) PROVE Scope(p, n) = m
  <2>1. Inside(p, n)
    BY <1>3 DEF Opens, Inside
  <2>2. PICK l : l = Scope(p, n) /\ Opens(p, n, l)
    BY <1>2, <2>1
  <2>3. l \in Nat /\ m \in Nat
    BY <1>3, <2>2 DEF Opens
  <2>4. ~(l < m)
    BY <1>3, <2>2, OneOpens
  <2>5. ~(m < l)
    BY <1>3, <2>2, OneOpens
  <2>6. QED
    BY <2>2, <2>3, <2>4, <2>5
<1>4. QED
  BY <1>1, <1>2, <1>3

LEMMA ScopeNext ==
  ASSUME NEW p, NEW n \in Nat, n > 0, \A k \in 1 .. n : p[k].op = "enter" => ~Inside(p, k)
  PROVE  /\ p[n].op = "enter" => Scope(p, n + 1) = n /\ Scope(p, n) = 0
         /\ p[n].op = "leave" => Scope(p, n + 1) = 0
         /\ p[n].op \notin {"enter", "leave"} => Scope(p, n + 1) = Scope(p, n)
         /\ Inside(p, n) => Scope(p, n) \in 1 .. n - 1
         /\ ~Inside(p, n) => Scope(p, n) = 0
<1>1. PICK N \in Nat : N = n + 1 /\ N - 1 = n
  OBVIOUS
<1>2. \A k \in 1 .. N - 1 : p[k].op = "enter" => ~Inside(p, k)
  BY <1>1
<1>3. \A k \in 1 .. n - 1 : p[k].op = "enter" => ~Inside(p, k)
  OBVIOUS
<1>4. /\ ~Inside(p, N) => Scope(p, N) = 0
      /\ \A m : Opens(p, N, m) => Scope(p, N) = m
  BY <1>2, ScopeOpens
<1>5. /\ ~Inside(p, n) => Scope(p, n) = 0
      /\ Inside(p, n) => Opens(p, n, Scope(p, n)) /\ Scope(p, n) \in 1 .. n - 1
  BY <1>3, ScopeOpens
<1>6. /\ p[n].op = "leave" => ~Inside(p, N)
      /\ p[n].op \notin {"enter", "leave"} => (Inside(p, N) <=> Inside(p, n))
  BY <1>1, InsideNext
<1>7. ASSUME p[n].op = "enter" PROVE Scope(p, N) = n /\ Scope(p, n) = 0
  <2>1. n \in 1 .. n
    OBVIOUS
  <2>2. ~Inside(p, n)
    BY <1>7, <2>1
  <2>3. n \in 1 .. N - 1 /\ n + 1 .. N - 1 = {}
    BY <1>1
  <2>4. Opens(p, N, n)
    BY <1>7, <2>3 DEF Opens
  <2>5. QED
    BY <1>4, <1>5, <2>2, <2>4
<1>8. ASSUME p[n].op \notin {"enter", "leave"} PROVE Scope(p, N) = Scope(p, n)
  <2>1. CASE ~Inside(p, n)
    BY <1>4, <1>5, <1>6, <1>8, <2>1
  <2>2. CASE Inside(p, n)
    <3>1. PICK m : m = Scope(p, n) /\ Opens(p, n, m) /\ m \in 1 .. n - 1
      BY <1>5, <2>2
    <3>2. m \in 1 .. N - 1 /\ \A k \in m + 1 .. N - 1 : k = n \/ k \in m + 1 .. n - 1
      BY <1>1, <3>1
    <3>3. Opens(p, N, m)
      BY <1>8, <3>1, <3>2 DEF Opens
    <3>4. QED
      BY <1>4, <3>1, <3>3
  <2>3. QED
    BY <2>1, <2>2
<1>9. QED
  BY <1>1, <1>4, <1>5, <1>6, <1>7, <1>8

-----------------------------------------------------------------------------
(* The visit.                                                              *)

(* The first N elements of the list, with C behind them, do what the       *)
(* statements of p in the scope d do, up to the last one.                  *)
Chan(p, list, N, C, d, last) ==
  /\ N \in Nat /\ Elements(list, N) /\ Before(list, N, last + 1)
  /\ Clifford(C)
  /\ AfterElement(ListMeaning(list, N), CliffordOp(C)) = Meaning(p, d, last)

(* Where the list has got to *)
ChanAt(p, list, N, C, d, n, f, e) ==
  /\ ListMeaning(list, N) = [frame |-> f, events |-> e]
  /\ GoodFrame(f, n) /\ Canonical(f)
  /\ Meaning(p, d, n - 1) = [frame |-> After(f, C), events |-> e]

LEMMA ChanFrames ==
  ASSUME NEW p, NEW list, NEW N, NEW C, NEW d, NEW n \in Nat, n > 0, Chan(p, list, N, C, d, n - 1)
  PROVE  \E f, e : ChanAt(p, list, N, C, d, n, f, e)
<1>1. N \in Nat /\ Elements(list, N) /\ Before(list, N, n) /\ (n - 1) + 1 = n
  BY DEF Chan
<1>3. PICK L : L = ListMeaning(list, N)
  OBVIOUS
<1>4. Good(L, n)
  <2>1. N \in 0 .. N
    BY <1>1
  <2>2. QED
    BY <1>1, <1>3, <2>1, ListGood
<1>5. PICK c : c = CliffordOp(C)
  OBVIOUS
<1>9. c.kind = "clifford" /\ c.map = C
  BY <1>5 DEF CliffordOp
<1>6. Meaning(p, d, n - 1) = AfterElement(L, c)
  BY <1>3, <1>5 DEF Chan
<1>7. AfterElement(L, c) = [frame |-> After(L.frame, C), events |-> L.events]
  BY <1>4, <1>9, AfterClifford
<1>8. QED
  BY <1>3, <1>4, <1>6, <1>7 DEF Good, GoodFrame, ChanAt

(* The converse *)
LEMMA FramesChan ==
  ASSUME NEW p, NEW list, NEW N \in Nat, NEW C, NEW d, NEW n \in Nat, NEW b \in Nat, NEW f, NEW e,
         Elements(list, N), Before(list, N, n + 1), Clifford(C),
         ListMeaning(list, N) = [frame |-> f, events |-> e], GoodFrame(f, b),
         Meaning(p, d, n) = [frame |-> After(f, C), events |-> e]
  PROVE  Chan(p, list, N, C, d, n)
<1>1. PICK L : L = [frame |-> f, events |-> e]
  OBVIOUS
<1>2. Good(L, b) /\ L.frame = f /\ L.events = e
  BY <1>1 DEF Good
<1>3. PICK c : c = CliffordOp(C)
  OBVIOUS
<1>6. c.kind = "clifford" /\ c.map = C
  BY <1>3 DEF CliffordOp
<1>4. AfterElement(L, c) = [frame |-> After(f, C), events |-> e]
  BY <1>2, <1>6, AfterClifford
<1>5. QED
  BY <1>1, <1>3, <1>4 DEF Chan

LEMMA BeforeLater ==
  ASSUME NEW list, NEW N \in Nat, NEW n \in Nat, Elements(list, N), Before(list, N, n)
  PROVE  Before(list, N, n + 1)
<1>1. \A k \in 1 .. N : list[k].kind = "uninterp" => list[k].id \in Nat /\ list[k].id < n
  BY DEF Elements, Before, IsElement
<1>2. QED
  BY <1>1 DEF Before

LEMMA ChanLater ==
  ASSUME NEW p, NEW list, NEW N, NEW C, NEW d, NEW n \in Nat, n > 0, Chan(p, list, N, C, d, n - 1)
  PROVE  N \in Nat /\ Elements(list, N) /\ Before(list, N, n) /\ Before(list, N, n + 1) /\ Clifford(C)
<1>1. N \in Nat /\ Elements(list, N) /\ Before(list, N, n) /\ (n - 1) + 1 = n /\ Clifford(C)
  BY DEF Chan
<1>2. QED
  BY <1>1, BeforeLater

LEMMA ChanSkips ==
  ASSUME NEW p, NEW list, NEW N, NEW C, NEW d, NEW n \in Nat, n > 0,
         Chan(p, list, N, C, d, n - 1), Skipped(p, d, n)
  PROVE  Chan(p, list, N, C, d, n)
<1>1. Meaning(p, d, n) = Meaning(p, d, n - 1)
  BY MeaningGoesOn
<1>2. Before(list, N, n + 1)
  BY ChanLater
<1>4. QED
  BY <1>1, <1>2 DEF Chan

LEMMA ChanClifford ==
  ASSUME NEW p, NEW list, NEW N, NEW C, NEW d, NEW n \in Nat, n > 0,
         Chan(p, list, N, C, d, n - 1), Scope(p, n) = d, NEW s, s = p[n],
         s.op \in CliffordGates, ~s.cond, GateArgs(s.op, s.args)
  PROVE  Chan(p, list, N, Compose(C, Dagger(s.op, s.args)), d, n)
<1>0. PICK f, e : ChanAt(p, list, N, C, d, n, f, e)
  BY ChanFrames
<1>1. /\ ListMeaning(list, N) = [frame |-> f, events |-> e]
      /\ GoodFrame(f, n) /\ Canonical(f)
      /\ Meaning(p, d, n - 1) = [frame |-> After(f, C), events |-> e]
  BY <1>0 DEF ChanAt
<1>2. PICK D : D = Dagger(s.op, s.args)
  OBVIOUS
<1>3. Clifford(C) /\ DoesGate(D, s.op, s.args)
  BY <1>2, GateIsClifford DEF Chan
<1>4. Clifford(D)
  BY <1>3 DEF DoesGate
<1>5. PICK M : M = Meaning(p, d, n - 1)
  OBVIOUS
<1>6. Meaning(p, d, n) = Gate(M, s.op, s.args)
  <2>1. ~Skipped(p, d, n)
    BY DEF Skipped, CliffordGates
  <2>2. Meaning(p, d, n) = AfterStatement(M, s)
    BY <1>5, <2>1, MeaningGoesOn
  <2>3. s.op # "rot"
    BY DEF CliffordGates
  <2>4. QED
    BY <2>2, <2>3 DEF AfterStatement
<1>7. Canonical(After(f, C))
  BY <1>1, <1>3 DEF Clifford
<1>8. Gate(M, s.op, s.args) = [frame |-> After(After(f, C), D), events |-> e]
  BY <1>1, <1>3, <1>5, <1>7 DEF DoesGate
<1>9. Clifford(Compose(C, D)) /\ After(f, Compose(C, D)) = After(After(f, C), D)
  BY <1>1, <1>3, <1>4, ComposeClifford
<1>10. N \in Nat /\ Elements(list, N) /\ Before(list, N, n + 1)
  BY ChanLater
<1>11. Chan(p, list, N, Compose(C, D), d, n)
  BY <1>1, <1>6, <1>8, <1>9, <1>10, FramesChan
<1>12. QED
  BY <1>2, <1>11

(* A rotation behind a Clifford operator is one, about another Pauli, in   *)
(* front of it.                                                            *)
LEMMA RotationAfter ==
  ASSUME NEW f, Canonical(f), NEW C, Clifford(C), NEW Q, Hermitian(Q), NEW k \in 0 .. 3
  PROVE  After(RotatedFrame(f, Q, k), C) = RotatedFrame(After(f, C), Q, k)
<1>1. f \in Frames
  BY DEF Canonical
<1>2. \A q \in Names : \A p \in Axis : C[<<q, p>>] \in Pauli
  BY DEF Clifford
<1>3. \A q \in Names : \A p \in Axis :
        WordOfPauli(RotatedFrame(f, Q, k), C[<<q, p>>]) = Rotated(Q, k, WordOfPauli(f, C[<<q, p>>]))
  BY <1>1, <1>2, WordOfRotated
<1>4. PICK h : h = After(f, C)
  OBVIOUS
<1>5. \A q \in Names : h[q].x = WordOfPauli(f, C[<<q, "X">>]) /\ h[q].z = WordOfPauli(f, C[<<q, "Z">>])
  BY <1>4 DEF After
<1>6. After(RotatedFrame(f, Q, k), C)
        = [q \in Names |-> [x |-> Rotated(Q, k, h[q].x), z |-> Rotated(Q, k, h[q].z)]]
  BY <1>3, <1>5 DEF After, Axis
<1>7. QED
  BY <1>4, <1>6 DEF RotatedFrame

(* The element that the visit makes of a rotation about the axis a of q *)
MadeOf(E, C, q, a, k) ==
  /\ E.kind = "rotation" /\ E.theta = k /\ IsElement(E)
  /\ E.pauli \in Pauli
  /\ \A g : Canonical(g) =>
       /\ Hermitian(WordOfPauli(g, E.pauli))
       /\ WordOfPauli(g, E.pauli) = WordOf(After(g, C), q, a)

LEMMA RotationElement ==
  ASSUME NEW C, Clifford(C), NEW q \in Names, NEW a \in Axis, NEW k \in 0 .. 3, NEW id
  PROVE  MadeOf(Rotation(id, k, Conjugate(C, On(q, a))), C, q, a, k)
<1>4. a \in PauliOp /\ a # "I"
  BY DEF PauliOp, Axis
<1>6. PICK P : P = Conjugate(C, On(q, a))
  OBVIOUS
<1>8. On(q, a) \in Pauli
  BY <1>4, OnTypes
<1>9. P \in Pauli
  BY <1>6, <1>8, WordOfConjugate
<1>10. ASSUME NEW g, Canonical(g)
       PROVE  Hermitian(WordOfPauli(g, P)) /\ WordOfPauli(g, P) = WordOf(After(g, C), q, a)
  <2>1. Canonical(After(g, C)) /\ After(g, C) \in Frames
    BY <1>10 DEF Clifford, Canonical
  <2>2. WordOfPauli(After(g, C), On(q, a)) = WordOfPauli(g, P)
    BY <1>6, <1>8, <1>10, WordOfConjugate
  <2>3. WordOfPauli(After(g, C), On(q, a)) = Factor(After(g, C), q, a)
    BY <1>4, <2>1, WordOfOn
  <2>4. Hermitian(Factor(After(g, C), q, a))
    BY <1>4, <2>1, FactorsOfOne
  <2>5. QED
    BY <1>4, <2>2, <2>3, <2>4 DEF Factor
<1>11. PICK E : E = Rotation(id, k, P)
  OBVIOUS
<1>12. E.kind = "rotation" /\ E.theta = k /\ E.pauli = P
  BY <1>11 DEF Rotation
<1>13. IsElement(E)
  BY <1>9, <1>10, <1>12 DEF IsElement, Signed
<1>14. MadeOf(E, C, q, a, k)
  BY <1>9, <1>10, <1>12, <1>13 DEF MadeOf
<1>15. QED
  BY <1>6, <1>11, <1>14

LEMMA MoreElements ==
  ASSUME NEW list, NEW N \in Nat, NEW n, Elements(list, N), Before(list, N, n),
         NEW more, \A j \in 1 .. N : more[j] = list[j],
         more[N + 1].kind # "uninterp", IsElement(more[N + 1])
  PROVE  Elements(more, N + 1) /\ Before(more, N + 1, n)
<1>1. \A j \in 1 .. N + 1 : j \in 1 .. N \/ j = N + 1
  OBVIOUS
<1>2. \A j \in 1 .. N : \A i \in 1 .. j - 1 : i \in 1 .. N
  OBVIOUS
<1>3. QED
  BY <1>1, <1>2 DEF Elements, Before

(* The list, with a rotation at its end *)
LEMMA MoreRotation ==
  ASSUME NEW list, NEW N \in Nat, NEW f, NEW e, NEW n, GoodFrame(f, n),
         ListMeaning(list, N) = [frame |-> f, events |-> e],
         NEW more, \A j \in 1 .. N : more[j] = list[j], more[N + 1].kind = "rotation"
  PROVE  ListMeaning(more, N + 1)
           = [frame  |-> RotatedFrame(f, WordOfPauli(f, more[N + 1].pauli), more[N + 1].theta),
              events |-> e]
<1>1. PICK L : L = [frame |-> f, events |-> e]
  OBVIOUS
<1>2. Good(L, n) /\ L.frame = f /\ L.events = e
  BY <1>1 DEF Good
<1>3. ListMeaning(more, N) = L
  BY <1>1, ListsTheSame
<1>4. PICK j \in Nat : j = N + 1 /\ j > 0 /\ j - 1 = N
  OBVIOUS
<1>5. PICK E : E = more[j] /\ E.kind = "rotation"
  BY <1>4
<1>6. ListMeaning(more, j) = AfterElement(L, E)
  BY <1>3, <1>4, <1>5, ListGoesOn
<1>7. AfterElement(L, E) = [frame |-> RotatedFrame(f, WordOfPauli(f, E.pauli), E.theta), events |-> e]
  BY <1>2, <1>5, AfterRotation
<1>8. QED
  BY <1>4, <1>5, <1>6, <1>7

LEMMA ChanRotation ==
  ASSUME NEW p, NEW list, NEW N, NEW C, NEW d, NEW n \in Nat, n > 0,
         Chan(p, list, N, C, d, n - 1), Scope(p, n) = d, NEW s, s = p[n],
         s.op = "rot", ~s.cond, s.args[1] \in Names, s.theta \in 0 .. 3, s.axis \in Axis,
         NEW more, \A j \in 1 .. N : more[j] = list[j],
         more[N + 1] = Rotation(s.id, s.theta, Conjugate(C, On(s.args[1], s.axis)))
  PROVE  Chan(p, more, N + 1, C, d, n)
<1>0. PICK f, e : ChanAt(p, list, N, C, d, n, f, e)
  BY ChanFrames
<1>1. /\ ListMeaning(list, N) = [frame |-> f, events |-> e]
      /\ GoodFrame(f, n) /\ Canonical(f)
      /\ Meaning(p, d, n - 1) = [frame |-> After(f, C), events |-> e]
  BY <1>0 DEF ChanAt
<1>2. PICK q \in Names : q = s.args[1]
  OBVIOUS
<1>3. PICK a \in Axis : a = s.axis
  OBVIOUS
<1>5. PICK k \in 0 .. 3 : k = s.theta
  OBVIOUS
<1>7. N \in Nat /\ Elements(list, N) /\ Before(list, N, n + 1) /\ Clifford(C)
  BY ChanLater
<1>6. PICK E : E = more[N + 1] /\ MadeOf(E, C, q, a, k)
  BY <1>2, <1>3, <1>5, <1>7, RotationElement
<1>8. PICK P \in Pauli : P = E.pauli
  BY <1>6 DEF MadeOf
<1>9. E.kind = "rotation" /\ E.theta = k /\ IsElement(E)
  BY <1>6 DEF MadeOf
<1>16. Elements(more, N + 1) /\ Before(more, N + 1, n + 1)
  <2>1. more[N + 1].kind # "uninterp" /\ IsElement(more[N + 1])
    BY <1>6, <1>9
  <2>2. QED
    BY <1>7, <2>1, MoreElements
<1>17. PICK Q : Q = WordOfPauli(f, P)
  OBVIOUS
<1>18. Hermitian(Q) /\ Q = WordOf(After(f, C), q, a) /\ OldWord(Q, n)
  <2>1. Hermitian(Q) /\ Q = WordOf(After(f, C), q, a)
    BY <1>1, <1>6, <1>8, <1>17 DEF MadeOf
  <2>2. OldWord(Q, n)
    BY <1>1, <1>17, OldWordOf
  <2>3. QED
    BY <2>1, <2>2
<1>19. ListMeaning(more, N + 1) = [frame |-> RotatedFrame(f, Q, k), events |-> e]
  <2>1. more[N + 1].kind = "rotation" /\ more[N + 1].theta = k /\ more[N + 1].pauli = P
    BY <1>6, <1>8, <1>9
  <2>2. ListMeaning(more, N + 1)
           = [frame  |-> RotatedFrame(f, WordOfPauli(f, more[N + 1].pauli), more[N + 1].theta),
              events |-> e]
    BY <1>1, <1>7, <2>1, MoreRotation
  <2>3. QED
    BY <1>17, <2>1, <2>2
<1>20. Meaning(p, d, n) = [frame |-> After(RotatedFrame(f, Q, k), C), events |-> e]
  <2>1. PICK M : M = Meaning(p, d, n - 1)
    OBVIOUS
  <2>2. M = [frame |-> After(f, C), events |-> e] /\ M.frame = After(f, C)
    BY <1>1, <2>1
  <2>3. ~Skipped(p, d, n)
    BY DEF Skipped
  <2>4. Meaning(p, d, n) = AfterStatement(M, s)
    BY <2>1, <2>3, MeaningGoesOn
  <2>5. AfterStatement(M, s) = Rotate(M, WordOf(M.frame, q, a), k)
    <3>1. s.op # "other" /\ s.op \notin CliffordGates
      BY DEF CliffordGates
    <3>2. QED
      BY <1>2, <1>3, <1>5, <3>1 DEF AfterStatement
  <2>6. Rotate(M, Q, k) = [frame |-> RotatedFrame(After(f, C), Q, k), events |-> e]
    BY <2>2, RotateFrame
  <2>7. After(RotatedFrame(f, Q, k), C) = RotatedFrame(After(f, C), Q, k)
    BY <1>1, <1>7, <1>18, RotationAfter
  <2>8. QED
    BY <1>18, <2>2, <2>4, <2>5, <2>6, <2>7
<1>21. GoodFrame(RotatedFrame(f, Q, k), n)
  BY <1>1, <1>18, GoodRotated
<1>23. PICK K \in Nat : K = N + 1
  BY <1>7
<1>22. Chan(p, more, K, C, d, n)
  BY <1>7, <1>16, <1>19, <1>20, <1>21, <1>23, FramesChan
<1>24. QED
  BY <1>22, <1>23

(* A rotation by 0 is none.                                                *)
LEMMA NoRotationFrame ==
  ASSUME NEW f \in Frames, NEW Q \in Words
  PROVE  RotatedFrame(f, Q, 0) = f
<1>1. \A q \in Names : f[q].x \in Words /\ f[q].z \in Words /\ f[q] = [x |-> f[q].x, z |-> f[q].z]
  BY DEF Frames
<1>2. PICK k \in 0 .. 3 : k = 0
  OBVIOUS
<1>3. \A w \in Words : Rotated(Q, k, w) = w
  BY <1>2, RotatedCases
<1>4. \A q \in Names : [x |-> Rotated(Q, k, f[q].x), z |-> Rotated(Q, k, f[q].z)] = f[q]
  BY <1>1, <1>3
<1>5. f = [q \in Names |-> f[q]]
  BY DEF Frames
<1>6. RotatedFrame(f, Q, k) = f
  BY <1>4, <1>5 DEF RotatedFrame
<1>7. QED
  BY <1>2, <1>6

(* A statement that was deleted may stand in the list as a rotation by 0.  *)
LEMMA ChanDeleted ==
  ASSUME NEW p, NEW list, NEW N, NEW C, NEW d, NEW n \in Nat, n > 0,
         Chan(p, list, N, C, d, n - 1), Skipped(p, d, n),
         NEW q \in Names, NEW a \in Axis, NEW id,
         NEW more, \A j \in 1 .. N : more[j] = list[j],
         more[N + 1] = Rotation(id, 0, Conjugate(C, On(q, a)))
  PROVE  Chan(p, more, N + 1, C, d, n)
<1>0. PICK f, e : ChanAt(p, list, N, C, d, n, f, e)
  BY ChanFrames
<1>1. /\ ListMeaning(list, N) = [frame |-> f, events |-> e]
      /\ GoodFrame(f, n) /\ Canonical(f)
      /\ Meaning(p, d, n - 1) = [frame |-> After(f, C), events |-> e]
  BY <1>0 DEF ChanAt
<1>5. PICK k \in 0 .. 3 : k = 0
  OBVIOUS
<1>7. N \in Nat /\ Elements(list, N) /\ Before(list, N, n + 1) /\ Clifford(C)
  BY ChanLater
<1>6. PICK E : E = more[N + 1] /\ MadeOf(E, C, q, a, k)
  BY <1>5, <1>7, RotationElement
<1>9. E.kind = "rotation" /\ E.theta = k /\ IsElement(E) /\ E.pauli \in Pauli
  BY <1>6 DEF MadeOf
<1>16. Elements(more, N + 1) /\ Before(more, N + 1, n + 1)
  <2>1. more[N + 1].kind # "uninterp" /\ IsElement(more[N + 1])
    BY <1>6, <1>9
  <2>2. QED
    BY <1>7, <2>1, MoreElements
<1>19. ListMeaning(more, N + 1) = [frame |-> f, events |-> e]
  <2>1. more[N + 1].kind = "rotation" /\ more[N + 1].theta = k
    BY <1>6, <1>9
  <2>2. ListMeaning(more, N + 1)
           = [frame  |-> RotatedFrame(f, WordOfPauli(f, more[N + 1].pauli), more[N + 1].theta),
              events |-> e]
    BY <1>1, <1>7, <2>1, MoreRotation
  <2>3. PICK Q \in Words : Q = WordOfPauli(f, E.pauli)
    BY <1>1, <1>9, OldWordOf
  <2>4. f \in Frames
    BY <1>1 DEF Canonical
  <2>5. RotatedFrame(f, Q, 0) = f
    BY <2>4, NoRotationFrame
  <2>6. QED
    BY <1>5, <1>6, <2>1, <2>2, <2>3, <2>5
<1>20. Meaning(p, d, n) = Meaning(p, d, n - 1)
  BY MeaningGoesOn
<1>23. PICK K \in Nat : K = N + 1
  BY <1>7
<1>22. Chan(p, more, K, C, d, n)
  BY <1>1, <1>7, <1>16, <1>19, <1>20, <1>23, FramesChan
<1>24. QED
  BY <1>22, <1>23

LEMMA ChanOther ==
  ASSUME NEW p, NEW list, NEW N \in Nat, NEW C, NEW d, NEW n \in Nat, n > 0,
         Chan(p, list, N, C, d, n - 1), Scope(p, n) = d, NEW s, s = p[n], s.id = n, s.args \in Seq(Names),
         s.op = "other" \/ (s.cond /\ s.op \in CliffordGates \cup {"rot"}),
         NEW more, \A j \in 1 .. N : more[j] = list[j],
         more[N + 1] = CliffordOp(C), more[N + 2] = Uninterp(s)
  PROVE  Chan(p, more, N + 2, Unit, d, n)
<1>0. PICK f, e : ChanAt(p, list, N, C, d, n, f, e)
  BY ChanFrames
<1>1. /\ ListMeaning(list, N) = [frame |-> f, events |-> e]
      /\ GoodFrame(f, n) /\ Canonical(f)
      /\ Meaning(p, d, n - 1) = [frame |-> After(f, C), events |-> e]
  BY <1>0 DEF ChanAt
<1>2. PICK c : c = CliffordOp(C)
  OBVIOUS
<1>3. PICK u : u = Uninterp(s)
  OBVIOUS
<1>4. Clifford(C)
  BY DEF Chan
<1>5. c.kind = "clifford" /\ c.map = C /\ IsElement(c)
  BY <1>2, <1>4 DEF CliffordOp, IsElement
<1>6. u.kind = "uninterp" /\ u.id = n /\ u.qubits = s.args /\ IsElement(u)
  <2>1. u.kind = "uninterp" /\ u.id = n /\ u.qubits = s.args
    BY <1>3 DEF Uninterp
  <2>2. QED
    BY <2>1 DEF IsElement
<1>7. (n - 1) + 1 = n
  OBVIOUS
<1>8. Elements(list, N) /\ Before(list, N, n) /\ Before(list, N, n + 1)
  BY ChanLater
<1>10. /\ more[N + 1] = c /\ more[N + 2] = u
       /\ \A j \in 1 .. N : more[j] = list[j]
  BY <1>2, <1>3
<1>11. Elements(more, N + 2) /\ Before(more, N + 2, n + 1)
  <2>1. \A j \in 1 .. N + 2 : j \in 1 .. N \/ j = N + 1 \/ j = N + 2
    OBVIOUS
  <2>2. \A j \in 1 .. N : \A i \in 1 .. j - 1 : i \in 1 .. N
    OBVIOUS
  <2>3. \A i \in 1 .. N + 2 - 1 : i \in 1 .. N \/ i = N + 1
    OBVIOUS
  <2>4. \A j \in 1 .. N + 2 : IsElement(more[j])
    BY <1>5, <1>6, <1>8, <1>10, <2>1 DEF Elements
  <2>5. Before(more, N + 2, n + 1)
    BY <1>5, <1>6, <1>8, <1>10, <2>1 DEF Before
  <2>6. ASSUME NEW j \in 1 .. N + 2, NEW i \in 1 .. j - 1,
               more[i].kind = "uninterp", more[j].kind = "uninterp"
        PROVE  more[i].id < more[j].id
    <3>1. CASE j \in 1 .. N
      BY <1>8, <1>10, <2>2, <2>6, <3>1 DEF Elements
    <3>2. CASE j = N + 1
      BY <1>5, <1>10, <2>6, <3>2
    <3>3. CASE j = N + 2
      <4>1. i \in 1 .. N
        BY <1>5, <1>10, <2>3, <2>6, <3>3
      <4>2. QED
        BY <1>6, <1>8, <1>10, <2>6, <3>3, <4>1 DEF Before
    <3>4. QED
      BY <2>1, <3>1, <3>2, <3>3
  <2>7. QED
    BY <2>4, <2>5, <2>6 DEF Elements
<1>12. PICK M : M = [frame |-> After(f, C), events |-> e]
  OBVIOUS
<1>13. GoodFrame(After(f, C), n)
  BY <1>1, <1>4, GoodAfter
<1>14. ListMeaning(more, N + 1) = M
  <2>1. PICK L : L = [frame |-> f, events |-> e]
    OBVIOUS
  <2>2. Good(L, n) /\ L.frame = f /\ L.events = e
    BY <1>1, <2>1 DEF Good
  <2>3. ListMeaning(more, N) = L
    BY <1>1, <1>7, <1>10, <2>1, ListsTheSame
  <2>4. PICK j \in Nat : j = N + 1 /\ j > 0 /\ j - 1 = N
    OBVIOUS
  <2>5. ListMeaning(more, j) = AfterElement(L, c)
    BY <1>10, <2>3, <2>4, ListGoesOn
  <2>6. AfterElement(L, c) = [frame |-> After(f, C), events |-> e]
    BY <1>5, <2>2, AfterClifford
  <2>7. QED
    BY <1>12, <2>4, <2>5, <2>6
<1>15. ListMeaning(more, N + 2) = OtherGate(M, s.args, n)
  <2>1. PICK j \in Nat : j = N + 2 /\ j > 0 /\ j - 1 = N + 1
    OBVIOUS
  <2>2. ListMeaning(more, j) = AfterElement(M, u)
    BY <1>10, <1>14, <2>1, ListGoesOn
  <2>3. QED
    BY <1>6, <2>1, <2>2, AfterUninterp
<1>16. Meaning(p, d, n) = OtherGate(M, s.args, n)
  <2>1. ~Skipped(p, d, n)
    BY DEF Skipped, CliffordGates
  <2>2. Meaning(p, d, n) = AfterStatement(M, s)
    BY <1>1, <1>12, <2>1, MeaningGoesOn
  <2>3. /\ s.op = "other" => s.op # "rot" /\ s.op \notin CliffordGates
    BY DEF CliffordGates
  <2>4. QED
    BY <2>2, <2>3 DEF AfterStatement
<1>17. PICK g, v : /\ OtherGate(M, s.args, n) = [frame |-> g, events |-> v]
                   /\ g = Replaced(After(f, C), Range(s.args), n)
  <2>1. M.frame = After(f, C)
    BY <1>12
  <2>2. OtherGate(M, s.args, n)
           = [frame  |-> Replaced(M.frame, Range(s.args), n),
              events |-> Append(M.events, <<n, [i \in DOMAIN s.args |-> M.frame[s.args[i]]]>>)]
    BY AfterOther
  <2>3. QED
    BY <2>1, <2>2
<1>18. PICK b \in Nat : b = n + 1
  OBVIOUS
<1>19. GoodFrame(g, b)
  BY <1>13, <1>17, <1>18, GoodReplaced
<1>20. Clifford(Unit) /\ After(g, Unit) = g
  <2>1. g \in Frames
    BY <1>19 DEF GoodFrame, Canonical
  <2>2. QED
    BY <2>1, UnitClifford
<1>21. PICK K \in Nat : K = N + 2
  OBVIOUS
<1>22. /\ ListMeaning(more, K) = [frame |-> g, events |-> v]
       /\ Meaning(p, d, n) = [frame |-> After(g, Unit), events |-> v]
       /\ Elements(more, K) /\ Before(more, K, n + 1)
  BY <1>11, <1>15, <1>16, <1>17, <1>20, <1>21
<1>23. Chan(p, more, K, Unit, d, n)
  BY <1>18, <1>19, <1>20, <1>21, <1>22, FramesChan
<1>24. QED
  BY <1>21, <1>23

(* Nothing has been visited.                                               *)
LEMMA ChanStarts ==
  ASSUME NEW p, NEW d, NEW n \in Nat, \A k \in 1 .. n : Skipped(p, d, k), NEW list
  PROVE  Chan(p, list, 0, Unit, d, n)
<1>2. PICK f, e : StartFrame = [frame |-> f, events |-> e] /\ GoodFrame(f, 1) /\ f \in Frames
  BY StartGood DEF Good, GoodFrame, Canonical
<1>3. Clifford(Unit) /\ After(f, Unit) = f
  BY <1>2, UnitClifford
<1>4. Meaning(p, d, n) = [frame |-> f, events |-> e]
  BY <1>2, MeaningOfNothing
<1>5. ListMeaning(list, 0) = [frame |-> f, events |-> e]
  BY <1>2, ListStarts
<1>6. Elements(list, 0) /\ Before(list, 0, n + 1)
  BY DEF Elements, Before
<1>7. PICK b \in Nat : b = 1
  OBVIOUS
<1>8. PICK N \in Nat : N = 0
  OBVIOUS
<1>9. Chan(p, list, N, Unit, d, n)
  BY <1>2, <1>3, <1>4, <1>5, <1>6, <1>7, <1>8, FramesChan
<1>10. QED
  BY <1>8, <1>9

-----------------------------------------------------------------------------
(* The program and the list, with other angles in place of some.           *)

(* What replacement_list_ may become: only rotations that are not under an *)
(* if are given another angle.                                             *)
Angles(p) ==
  {a \in [1 .. Len(p) -> {Kept} \cup 0 .. 3] :
     \A n \in 1 .. Len(p) : a[n] # Kept => p[n].op = "rot" /\ ~p[n].cond}

Turned(e, a) ==
  IF e.kind = "rotation" /\ a[e.id] # Kept THEN Rotation(e.id, a[e.id], e.pauli) ELSE e

Adjusted(list, a) == [k \in 1 .. Len(list) |-> Turned(list[k], a)]

LEMMA WellFormedList ==
  ASSUME NEW p, WellFormed(p)
  PROVE  /\ IsList(p) /\ Len(p) \in Nat /\ DOMAIN p = 1 .. Len(p)
         /\ \A n \in 1 .. Len(p) :
              /\ p[n] \in Statement /\ p[n].id = n
              /\ p[n].op \in CliffordGates \cup {"rot"} => p[n].args # <<>>
              /\ p[n].op = "cx" => Len(p[n].args) = 2 /\ p[n].args[1] # p[n].args[2]
              /\ p[n].op = "enter" => ~Inside(p, n)
              /\ p[n].op = "leave" => Inside(p, n)
<1>1. IsList(p)
  BY ListOver DEF WellFormed
<1>2. Len(p) \in Nat /\ DOMAIN p = 1 .. Len(p)
  BY <1>1, RangeOfList
<1>3. \A n \in 1 .. Len(p) : p[n] \in Statement
  BY DEF WellFormed
<1>4. QED
  BY <1>1, <1>2, <1>3 DEF WellFormed

LEMMA StatementTypes ==
  ASSUME NEW p, WellFormed(p), NEW n \in 1 .. Len(p), NEW s, s = p[n]
  PROVE  /\ s.id = n /\ s.args \in Seq(Names) /\ s.theta \in 0 .. 3 /\ s.axis \in Axis
         /\ s.op \in CliffordGates \cup {"rot", "other", "enter", "leave"}
         /\ s.op \in CliffordGates \cup {"rot"} => s.args[1] \in Names
         /\ s.op \in CliffordGates => GateArgs(s.op, s.args)
<1>1. /\ s.id = n /\ s \in Statement
      /\ s.op \in CliffordGates \cup {"rot"} => s.args # <<>>
      /\ s.op = "cx" => Len(s.args) = 2 /\ s.args[1] # s.args[2]
  BY WellFormedList
<1>2. /\ s.args \in Seq(Names) /\ s.theta \in 0 .. 3 /\ s.axis \in Axis
      /\ s.op \in CliffordGates \cup {"rot", "other", "enter", "leave"}
  BY <1>1 DEF Statement
<1>3. \A a \in Seq(Names) : a # <<>> => a[1] \in Names
  OBVIOUS
<1>4. \A a \in Seq(Names) : Len(a) = 2 => a[2] \in Names
  <2>1. \A a \in Seq(Names) : Len(a) = 2 => 2 \in 1 .. Len(a)
    OBVIOUS
  <2>2. \A a \in Seq(Names) : \A k \in 1 .. Len(a) : a[k] \in Names
    OBVIOUS
  <2>3. QED
    BY <2>1, <2>2
<1>5. s.op \in CliffordGates \cup {"rot"} => s.args[1] \in Names
  BY <1>1, <1>2, <1>3
<1>6. s.op \in CliffordGates => GateArgs(s.op, s.args)
  BY <1>1, <1>2, <1>4, <1>5 DEF GateArgs
<1>7. QED
  BY <1>1, <1>2, <1>5, <1>6

LEMMA RewrittenStatement ==
  ASSUME NEW p, WellFormed(p), NEW a \in Angles(p), NEW n \in 1 .. Len(p),
         NEW s, s = p[n], NEW t, t = Rewritten(p, a)[n]
  PROVE  /\ a[n] = Kept => t = s
         /\ a[n] # Kept => s.op = "rot" /\ ~s.cond /\ a[n] \in 0 .. 3
         /\ a[n] = 0 => t.op = "deleted"
         /\ a[n] # Kept /\ a[n] # 0 =>
              /\ t.op = "rot" /\ ~t.cond /\ t.theta = a[n]
              /\ t.id = s.id /\ t.args = s.args /\ t.axis = s.axis
         /\ t.op = "enter" <=> s.op = "enter"
         /\ t.op = "leave" <=> s.op = "leave"
<1>1. s \in Statement /\ n \in DOMAIN p
  BY WellFormedList
<1>2. a[n] \in {Kept} \cup 0 .. 3 /\ (a[n] # Kept => s.op = "rot" /\ ~s.cond)
  BY DEF Angles
<1>3. t = CASE a[n] = Kept -> s
            [] a[n] = 0    -> [s EXCEPT !.op = "deleted"]
            [] OTHER       -> [s EXCEPT !.theta = a[n]]
  BY <1>1 DEF Rewritten
<1>4. Kept # 0
  BY DEF Kept
<1>5. a[n] = Kept => t = s
  BY <1>3, <1>4
<1>6. ASSUME a[n] = 0 PROVE t.op = "deleted"
  <2>1. t = [s EXCEPT !.op = "deleted"]
    BY <1>3, <1>4, <1>6
  <2>2. QED
    BY <1>1, <2>1 DEF Statement
<1>7. ASSUME a[n] # Kept, a[n] # 0
      PROVE  /\ t.op = s.op /\ t.cond = s.cond /\ t.theta = a[n]
             /\ t.id = s.id /\ t.args = s.args /\ t.axis = s.axis
  <2>1. t = [s EXCEPT !.theta = a[n]]
    BY <1>3, <1>7
  <2>2. QED
    BY <1>1, <2>1 DEF Statement
<1>8. QED
  BY <1>2, <1>5, <1>6, <1>7

LEMMA SameScopes ==
  ASSUME NEW p, NEW q, NEW n \in Nat, \A k \in 1 .. n - 1 : p[k].op = "enter" => ~Inside(p, k),
         \A k \in 1 .. n - 1 : /\ q[k].op = "enter" <=> p[k].op = "enter"
                               /\ q[k].op = "leave" <=> p[k].op = "leave"
  PROVE  Scope(q, n) = Scope(p, n)
<1>1. \A m \in 1 .. n - 1 : m + 1 .. n - 1 \subseteq 1 .. n - 1
  OBVIOUS
<1>2. \A m : Opens(q, n, m) <=> Opens(p, n, m)
  BY <1>1 DEF Opens
<1>3. /\ ~Inside(p, n) => Scope(p, n) = 0
      /\ \A m : Opens(p, n, m) => Scope(p, n) = m
  BY ScopeOpens
<1>4. Inside(q, n) <=> \E m : Opens(q, n, m)
  BY DEF Inside, Opens
<1>5. Inside(p, n) <=> \E m : Opens(p, n, m)
  BY DEF Inside, Opens
<1>6. CASE Inside(q, n)
  <2>1. Scope(q, n) = CHOOSE m \in 1 .. n - 1 :
                        q[m].op = "enter" /\ \A k \in m + 1 .. n - 1 : q[k].op # "leave"
    BY <1>6 DEF Scope
  <2>2. Opens(q, n, Scope(q, n))
    BY <1>6, <2>1 DEF Inside, Opens
  <2>3. QED
    BY <1>2, <1>3, <2>2
<1>7. CASE ~Inside(q, n)
  <2>1. Scope(q, n) = 0
    BY <1>7 DEF Scope
  <2>2. QED
    BY <1>2, <1>3, <1>4, <1>5, <1>7, <2>1
<1>8. QED
  BY <1>6, <1>7

LEMMA RewrittenScope ==
  ASSUME NEW p, WellFormed(p), NEW a \in Angles(p), NEW n \in 1 .. Len(p) + 1
  PROVE  Scope(Rewritten(p, a), n) = Scope(p, n)
<1>1. /\ Len(p) \in Nat
      /\ \A k \in 1 .. Len(p) : p[k].op = "enter" => ~Inside(p, k)
  BY WellFormedList
<1>2. n \in Nat /\ 1 .. n - 1 \subseteq 1 .. Len(p)
  BY <1>1
<1>3. PICK q : q = Rewritten(p, a)
  OBVIOUS
<1>4. \A k \in 1 .. Len(p) : /\ q[k].op = "enter" <=> p[k].op = "enter"
                             /\ q[k].op = "leave" <=> p[k].op = "leave"
  BY <1>3, RewrittenStatement
<1>5. Scope(q, n) = Scope(p, n)
  BY <1>1, <1>2, <1>4, SameScopes
<1>6. QED
  BY <1>3, <1>5

(* No other angles *)
NoneChanged(p) == [n \in 1 .. Len(p) |-> Kept]

LEMMA NothingChanged ==
  ASSUME NEW p, WellFormed(p)
  PROVE  /\ NoneChanged(p) \in Angles(p) /\ Rewritten(p, NoneChanged(p)) = p
<1>1. IsList(p) /\ Len(p) \in Nat /\ DOMAIN p = 1 .. Len(p)
  BY WellFormedList
<1>2. PICK a : a = NoneChanged(p)
  OBVIOUS
<1>3. a \in Angles(p) /\ \A n \in 1 .. Len(p) : a[n] = Kept
  BY <1>2 DEF NoneChanged, Angles
<1>4. p = [n \in DOMAIN p |-> p[n]]
  BY <1>1 DEF IsList
<1>5. Rewritten(p, a) = p
  <2>1. \A n \in 1 .. Len(p) : Rewritten(p, a)[n] = p[n]
    BY <1>3, RewrittenStatement
  <2>2. PICK q : q = Rewritten(p, a)
    OBVIOUS
  <2>3. q = [n \in DOMAIN p |-> q[n]]
    BY <2>2 DEF Rewritten
  <2>4. QED
    BY <1>1, <1>4, <2>1, <2>2, <2>3
<1>6. QED
  BY <1>2, <1>3, <1>5

LEMMA NothingTurned ==
  ASSUME NEW p, NEW list, Len(list) \in Nat,
         \A k \in 1 .. Len(list) : list[k].kind = "rotation" => list[k].id \in 1 .. Len(p)
  PROVE  \A k \in 1 .. Len(list) : Adjusted(list, NoneChanged(p))[k] = list[k]
BY DEF Adjusted, Turned, NoneChanged

(* The list does what the program does, with any other angles in both.     *)
ChanAll(p, list, C, d, last) ==
  \A a \in Angles(p) : Chan(Rewritten(p, a), Adjusted(list, a), Len(list), C, d, last)

(* The rotations of the list are statements of the scope d.                *)
InScope(p, list, d) ==
  \A k \in 1 .. Len(list) : list[k].kind = "rotation" =>
    /\ list[k].id \in 1 .. Len(p)
    /\ p[list[k].id].op = "rot" /\ ~p[list[k].id].cond
    /\ Scope(p, list[k].id) = d

LEMMA AllSkips ==
  ASSUME NEW p, WellFormed(p), NEW list, NEW C, NEW d, NEW n \in 1 .. Len(p),
         ChanAll(p, list, C, d, n - 1), Scope(p, n) # d \/ p[n].op \in {"enter", "leave"}
  PROVE  ChanAll(p, list, C, d, n)
<1> SUFFICES ASSUME NEW a \in Angles(p)
             PROVE  Chan(Rewritten(p, a), Adjusted(list, a), Len(list), C, d, n)
  BY DEF ChanAll
<1>1. PICK q : q = Rewritten(p, a)
  OBVIOUS
<1>2. Len(p) \in Nat
  BY WellFormedList
<1>3. n \in Nat /\ n > 0 /\ n \in 1 .. Len(p) + 1
  BY <1>2
<1>4. Scope(q, n) = Scope(p, n)
  BY <1>1, <1>3, RewrittenScope
<1>5. /\ q[n].op = "enter" <=> p[n].op = "enter"
      /\ q[n].op = "leave" <=> p[n].op = "leave"
  BY <1>1, RewrittenStatement
<1>6. Skipped(q, d, n)
  BY <1>4, <1>5 DEF Skipped
<1>7. Chan(q, Adjusted(list, a), Len(list), C, d, n - 1)
  BY <1>1 DEF ChanAll
<1>8. QED
  BY <1>1, <1>3, <1>6, <1>7, ChanSkips

LEMMA AllClifford ==
  ASSUME NEW p, WellFormed(p), NEW list, NEW C, NEW d, NEW n \in 1 .. Len(p),
         ChanAll(p, list, C, d, n - 1), Scope(p, n) = d, NEW s, s = p[n],
         s.op \in CliffordGates, ~s.cond
  PROVE  ChanAll(p, list, Compose(C, Dagger(s.op, s.args)), d, n)
<1> SUFFICES ASSUME NEW a \in Angles(p)
             PROVE  Chan(Rewritten(p, a), Adjusted(list, a), Len(list),
                         Compose(C, Dagger(s.op, s.args)), d, n)
  BY DEF ChanAll
<1>1. PICK q : q = Rewritten(p, a)
  OBVIOUS
<1>2. Len(p) \in Nat
  BY WellFormedList
<1>3. n \in Nat /\ n > 0 /\ n \in 1 .. Len(p) + 1
  BY <1>2
<1>4. Scope(q, n) = d
  BY <1>1, <1>3, RewrittenScope
<1>5. s = q[n]
  <2>1. a[n] = Kept => q[n] = s
    BY <1>1, RewrittenStatement
  <2>2. a[n] # Kept => s.op = "rot"
    BY RewrittenStatement
  <2>3. s.op # "rot"
    BY DEF CliffordGates
  <2>4. QED
    BY <2>1, <2>2, <2>3
<1>6. GateArgs(s.op, s.args)
  BY StatementTypes
<1>7. Chan(q, Adjusted(list, a), Len(list), C, d, n - 1)
  BY <1>1 DEF ChanAll
<1>8. Chan(q, Adjusted(list, a), Len(list), Compose(C, Dagger(s.op, s.args)), d, n)
  BY <1>3, <1>4, <1>5, <1>6, <1>7, ChanClifford
<1>9. QED
  BY <1>1, <1>8

LEMMA AllRotation ==
  ASSUME NEW p, WellFormed(p), NEW list, IsList(list), NEW C, NEW d, NEW n \in 1 .. Len(p),
         ChanAll(p, list, C, d, n - 1), Scope(p, n) = d, NEW s, s = p[n], s.op = "rot", ~s.cond,
         NEW E, E = Rotation(s.id, s.theta, Conjugate(C, On(s.args[1], s.axis)))
  PROVE  ChanAll(p, Append(list, E), C, d, n)
<1> SUFFICES ASSUME NEW a \in Angles(p)
             PROVE  Chan(Rewritten(p, a), Adjusted(Append(list, E), a), Len(Append(list, E)), C, d, n)
  BY DEF ChanAll
<1>1. PICK q : q = Rewritten(p, a)
  OBVIOUS
<1>2. Len(p) \in Nat
  BY WellFormedList
<1>3. n \in Nat /\ n > 0 /\ n \in 1 .. Len(p) + 1
  BY <1>2
<1>4. Scope(q, n) = d
  BY <1>1, <1>3, RewrittenScope
<1>5. PICK N \in Nat : N = Len(list)
  BY RangeOfList
<1>6. PICK L : L = Adjusted(list, a)
  OBVIOUS
<1>7. Chan(q, L, N, C, d, n - 1)
  BY <1>1, <1>5, <1>6 DEF ChanAll
<1>8. PICK more : more = Append(list, E)
  OBVIOUS
<1>9. Len(more) = N + 1 /\ more[N + 1] = E /\ \A j \in 1 .. N : more[j] = list[j]
  BY <1>5, <1>8, AppendList
<1>10. PICK M : M = Adjusted(more, a)
  OBVIOUS
<1>11. /\ \A j \in 1 .. N : M[j] = L[j]
       /\ M[N + 1] = Turned(E, a)
  <2>1. N + 1 \in 1 .. N + 1 /\ 1 .. N \subseteq 1 .. N + 1
    OBVIOUS
  <2>2. \A j \in 1 .. N + 1 : M[j] = Turned(more[j], a)
    BY <1>9, <1>10 DEF Adjusted
  <2>3. \A j \in 1 .. N : L[j] = Turned(list[j], a)
    BY <1>5, <1>6 DEF Adjusted
  <2>4. QED
    BY <1>9, <2>1, <2>2, <2>3
<1>12. s.id = n /\ s.theta \in 0 .. 3
  BY StatementTypes
<1>13. PICK c \in Names : c = s.args[1]
  BY StatementTypes
<1>14. PICK x \in Axis : x = s.axis
  BY StatementTypes
<1>15. PICK P : P = Conjugate(C, On(c, x))
  OBVIOUS
<1>16. E.kind = "rotation" /\ E.id = n /\ E.pauli = P /\ E = Rotation(n, s.theta, P)
  BY <1>12, <1>13, <1>14, <1>15 DEF Rotation
<1>17. PICK t : t = q[n]
  OBVIOUS
<1>18. /\ a[n] = Kept => t = s
       /\ a[n] = 0 => t.op = "deleted"
       /\ a[n] # Kept => a[n] \in 0 .. 3
       /\ a[n] # Kept /\ a[n] # 0 =>
            /\ t.op = "rot" /\ ~t.cond /\ t.theta = a[n]
            /\ t.id = s.id /\ t.args = s.args /\ t.axis = s.axis
  BY <1>1, <1>17, RewrittenStatement
<1>19. Turned(E, a) = IF a[n] # Kept THEN Rotation(n, a[n], P) ELSE E
  BY <1>16 DEF Turned
<1>20. CASE a[n] = 0
  <2>1. Skipped(q, d, n)
    BY <1>17, <1>18, <1>20 DEF Skipped
  <2>2. M[N + 1] = Rotation(n, 0, Conjugate(C, On(c, x)))
    BY <1>11, <1>15, <1>19, <1>20 DEF Kept
  <2>3. Chan(q, M, N + 1, C, d, n)
    BY <1>3, <1>7, <1>11, <2>1, <2>2, ChanDeleted
  <2>4. QED
    BY <1>1, <1>8, <1>9, <1>10, <2>3
<1>21. CASE a[n] # 0
  <2>1. /\ t.op = "rot" /\ ~t.cond /\ t.theta \in 0 .. 3
        /\ t.id = n /\ t.args[1] = c /\ t.axis = x
    BY <1>12, <1>13, <1>14, <1>18, <1>21
  <2>2. M[N + 1] = Rotation(n, t.theta, P)
    BY <1>11, <1>16, <1>18, <1>19, <1>21
  <2>3. M[N + 1] = Rotation(t.id, t.theta, Conjugate(C, On(t.args[1], t.axis)))
    BY <1>15, <2>1, <2>2
  <2>4. Chan(q, M, N + 1, C, d, n)
    BY <1>3, <1>4, <1>7, <1>11, <1>17, <2>1, <2>3, ChanRotation
  <2>5. QED
    BY <1>1, <1>8, <1>9, <1>10, <2>4
<1>22. QED
  BY <1>20, <1>21

LEMMA AllOther ==
  ASSUME NEW p, WellFormed(p), NEW list, IsList(list), NEW C, NEW d, NEW n \in 1 .. Len(p),
         ChanAll(p, list, C, d, n - 1), Scope(p, n) = d, NEW s, s = p[n],
         s.op = "other" \/ (s.cond /\ s.op \in CliffordGates \cup {"rot"}),
         NEW more, more = list \o <<CliffordOp(C), Uninterp(s)>>
  PROVE  ChanAll(p, more, Unit, d, n)
<1> SUFFICES ASSUME NEW a \in Angles(p)
             PROVE  Chan(Rewritten(p, a), Adjusted(more, a), Len(more), Unit, d, n)
  BY DEF ChanAll
<1>1. PICK q : q = Rewritten(p, a)
  OBVIOUS
<1>2. Len(p) \in Nat
  BY WellFormedList
<1>3. n \in Nat /\ n > 0 /\ n \in 1 .. Len(p) + 1
  BY <1>2
<1>4. Scope(q, n) = d
  BY <1>1, <1>3, RewrittenScope
<1>5. PICK N \in Nat : N = Len(list)
  BY RangeOfList
<1>6. PICK L : L = Adjusted(list, a)
  OBVIOUS
<1>7. Chan(q, L, N, C, d, n - 1)
  BY <1>1, <1>5, <1>6 DEF ChanAll
<1>8. /\ Len(more) = N + 2 /\ more[N + 1] = CliffordOp(C) /\ more[N + 2] = Uninterp(s)
      /\ \A j \in 1 .. N : more[j] = list[j]
  <2>1. PICK c : c = CliffordOp(C)
    OBVIOUS
  <2>2. PICK u : u = Uninterp(s)
    OBVIOUS
  <2>3. more = list \o <<c, u>>
    BY <2>1, <2>2
  <2>4. /\ Len(more) = N + 2 /\ more[N + 1] = c /\ more[N + 2] = u
        /\ \A j \in 1 .. N : more[j] = list[j]
    BY <1>5, <2>3, AppendTwo
  <2>5. QED
    BY <2>1, <2>2, <2>4
<1>10. PICK M : M = Adjusted(more, a)
  OBVIOUS
<1>11. /\ \A j \in 1 .. N : M[j] = L[j]
       /\ M[N + 1] = CliffordOp(C) /\ M[N + 2] = Uninterp(s)
  <2>1. N + 1 \in 1 .. N + 2 /\ N + 2 \in 1 .. N + 2 /\ 1 .. N \subseteq 1 .. N + 2
    OBVIOUS
  <2>2. \A j \in 1 .. N + 2 : M[j] = Turned(more[j], a)
    BY <1>8, <1>10 DEF Adjusted
  <2>3. \A j \in 1 .. N : L[j] = Turned(list[j], a)
    BY <1>5, <1>6 DEF Adjusted
  <2>4. CliffordOp(C).kind = "clifford" /\ Uninterp(s).kind = "uninterp"
    BY DEF CliffordOp, Uninterp
  <2>5. Turned(CliffordOp(C), a) = CliffordOp(C) /\ Turned(Uninterp(s), a) = Uninterp(s)
    BY <2>4 DEF Turned
  <2>6. \A j \in 1 .. N : M[j] = L[j]
    BY <1>8, <2>1, <2>2, <2>3
  <2>7. QED
    BY <1>8, <2>1, <2>2, <2>5, <2>6
<1>12. s.id = n /\ s.args \in Seq(Names)
  BY StatementTypes
<1>13. s = q[n]
  <2>1. a[n] = Kept => q[n] = s
    BY <1>1, RewrittenStatement
  <2>2. a[n] # Kept => s.op = "rot" /\ ~s.cond
    BY RewrittenStatement
  <2>3. QED
    BY <2>1, <2>2
<1>14. Chan(q, M, N + 2, Unit, d, n)
  BY <1>3, <1>4, <1>7, <1>11, <1>12, <1>13, ChanOther
<1>15. QED
  BY <1>1, <1>8, <1>10, <1>14

LEMMA AllStarts ==
  ASSUME NEW p, WellFormed(p), NEW d, NEW n \in 0 .. Len(p),
         \A k \in 1 .. n : Scope(p, k) # d \/ p[k].op \in {"enter", "leave"}
  PROVE  ChanAll(p, <<>>, Unit, d, n)
<1> SUFFICES ASSUME NEW a \in Angles(p)
             PROVE  Chan(Rewritten(p, a), Adjusted(<<>>, a), Len(<<>>), Unit, d, n)
  BY DEF ChanAll
<1>1. PICK q : q = Rewritten(p, a)
  OBVIOUS
<1>2. Len(p) \in Nat
  BY WellFormedList
<1>3. n \in Nat /\ Len(<<>>) = 0 /\ 1 .. n \subseteq 1 .. Len(p) /\ 1 .. n \subseteq 1 .. Len(p) + 1
  BY <1>2
<1>4. \A k \in 1 .. n : Scope(q, k) = Scope(p, k)
  BY <1>1, <1>3, RewrittenScope
<1>5. \A k \in 1 .. n : /\ q[k].op = "enter" <=> p[k].op = "enter"
                        /\ q[k].op = "leave" <=> p[k].op = "leave"
  BY <1>1, <1>3, RewrittenStatement
<1>6. \A k \in 1 .. n : Skipped(q, d, k)
  BY <1>4, <1>5 DEF Skipped
<1>7. QED
  BY <1>1, <1>3, <1>6, ChanStarts

(* The list that is being made, and that of the main program while it      *)
(* waits for the end of a gate body.                                       *)
ChannelInv ==
  /\ pc = "visit" => ChanAll(program, accum, clifford, Scope(program, next), next - 1)
  /\ pc \in {"visit", "fold"} => InScope(program, accum, Scope(program, next))
  /\ outer # <<>> =>
       /\ ChanAll(program, outer[1], outer[2], 0, next - 1)
       /\ InScope(program, outer[1], 0)

LEMMA InScopeMore ==
  ASSUME NEW p, NEW list, NEW d, InScope(p, list, d), Len(list) \in Nat,
         NEW more, \A j \in 1 .. Len(list) : more[j] = list[j],
         \A j \in 1 .. Len(more) : j \in 1 .. Len(list) \/ more[j].kind # "rotation"
                                   \/ /\ more[j].id \in 1 .. Len(p)
                                      /\ p[more[j].id].op = "rot" /\ ~p[more[j].id].cond
                                      /\ Scope(p, more[j].id) = d
  PROVE  InScope(p, more, d)
BY DEF InScope

LEMMA Program ==
  ASSUME Inv
  PROVE  /\ WellFormed(program) /\ Len(program) \in Nat /\ next \in 1 .. Len(program) + 1
         /\ next - 1 \in 0 .. Len(program) /\ IsList(accum)
<1>1. WellFormed(program)
  BY ProgramAssumption DEF Inv, TypeInv
<1>2. Len(program) \in Nat
  BY <1>1, WellFormedList
<1>3. next \in 1 .. Len(program) + 1 /\ IsList(accum)
  BY DEF Inv, TypeInv, ListInv, Accumulated
<1>4. QED
  BY <1>1, <1>2, <1>3

LEMMA InitChannel == Init => ChannelInv
<1> SUFFICES ASSUME Init PROVE ChannelInv
  OBVIOUS
<1>1. /\ pc = "visit" /\ accum = <<>> /\ clifford = Unit /\ outer = <<>> /\ next = 1
      /\ program \in Programs
  BY DEF Init
<1>2. WellFormed(program)
  BY <1>1, ProgramAssumption
<1>3. Len(program) \in Nat
  BY <1>2, WellFormedList
<1>4. PICK n \in 0 .. Len(program) : n = 0 /\ n = next - 1
  BY <1>1, <1>3
<1>5. \A k \in 1 .. n : Scope(program, k) # Scope(program, next) \/ program[k].op \in {"enter", "leave"}
  BY <1>4
<1>6. ChanAll(program, <<>>, Unit, Scope(program, next), n)
  BY <1>2, <1>5, AllStarts
<1>7. InScope(program, <<>>, Scope(program, next))
  BY DEF InScope
<1>8. QED
  BY <1>1, <1>4, <1>6, <1>7 DEF ChannelInv

(* The main program, while in the body of a gate *)
LEMMA OuterWaits ==
  ASSUME Inv, ChannelInv, next <= Len(program), outer # <<>>
  PROVE  ChanAll(program, outer[1], outer[2], 0, next)
<1>1. /\ WellFormed(program) /\ next \in 1 .. Len(program) /\ Len(program) \in Nat
      /\ \A n \in 1 .. Len(program) : program[n].op = "enter" => ~Inside(program, n)
  BY Program, WellFormedList
<1>2. Inside(program, next)
  BY DEF Inv, ScopeInv
<1>3. PICK n \in 1 .. Len(program) : n = next
  BY <1>1
<1>4. n \in Nat /\ n > 0 /\ \A k \in 1 .. n : program[k].op = "enter" => ~Inside(program, k)
  BY <1>1
<1>5. Scope(program, n) \in 1 .. n - 1
  BY <1>2, <1>3, <1>4, ScopeNext
<1>6. Scope(program, n) # 0
  BY <1>5
<1>7. ChanAll(program, outer[1], outer[2], 0, n - 1)
  BY <1>3 DEF ChannelInv
<1>8. QED
  BY <1>1, <1>3, <1>6, <1>7, AllSkips

LEMMA VisitChannel ==
  ASSUME Inv, ChannelInv, Visit
  PROVE  ChannelInv'
<1> DEFINE s == program[next]
<1>1. /\ pc = "visit" /\ next <= Len(program) /\ next' = next + 1
      /\ program' = program /\ pc' = pc
      /\ VisitClifford(s) \/ VisitRotation(s) \/ VisitOther(s) \/ EnterGate(s)
  BY DEF Visit
<1>2. /\ WellFormed(program) /\ IsList(accum) /\ next \in 1 .. Len(program) /\ Len(program) \in Nat
      /\ \A n \in 1 .. Len(program) : program[n].op = "enter" => ~Inside(program, n)
  BY <1>1, Program, WellFormedList
<1>3. PICK n \in 1 .. Len(program) : n = next
  BY <1>2
<1>12. n \in Nat /\ n > 0 /\ n \in 0 .. Len(program)
  BY <1>2
<1>4. PICK d : d = Scope(program, n)
  OBVIOUS
<1>5. PICK t : t = program[n] /\ t = s
  BY <1>3
<1>6. \A k \in 1 .. n : program[k].op = "enter" => ~Inside(program, k)
  BY <1>2, <1>3
<1>7. /\ t.op = "enter" => Scope(program, n + 1) = n /\ d = 0
      /\ t.op \notin {"enter", "leave"} => Scope(program, n + 1) = d
  <2>1. /\ program[n].op = "enter" => Scope(program, n + 1) = n /\ Scope(program, n) = 0
        /\ program[n].op \notin {"enter", "leave"} => Scope(program, n + 1) = Scope(program, n)
    BY <1>6, <1>12, ScopeNext
  <2>2. QED
    BY <1>4, <1>5, <2>1
<1>8. t.id = n
  <2>1. program[n].id = n
    BY <1>2, WellFormedList
  <2>2. QED
    BY <1>5, <2>1
<1>9. ChanAll(program, accum, clifford, d, n - 1) /\ InScope(program, accum, d)
  BY <1>1, <1>3, <1>4 DEF ChannelInv
<1>10. outer # <<>> => ChanAll(program, outer[1], outer[2], 0, n) /\ InScope(program, outer[1], 0)
  BY <1>1, <1>3, OuterWaits DEF ChannelInv
<1>11. /\ next' = n + 1 /\ (n + 1) - 1 = n /\ program' = program
       /\ VisitClifford(t) \/ VisitRotation(t) \/ VisitOther(t) \/ EnterGate(t)
  BY <1>1, <1>3, <1>5
<1>19. PICK N \in Nat : N = Len(accum)
  BY <1>2, RangeOfList
<1> HIDE DEF s
<1>13. ASSUME ChanAll(program, accum', clifford', Scope(program, n + 1), n),
              InScope(program, accum', Scope(program, n + 1)),
              outer' # <<>> => ChanAll(program, outer'[1], outer'[2], 0, n) /\ InScope(program, outer'[1], 0)
       PROVE  ChannelInv'
  BY <1>11, <1>13 DEF ChannelInv
<1>14. CASE VisitClifford(t)
  <2>1. /\ t.op \in CliffordGates /\ ~t.cond /\ accum' = accum /\ outer' = outer
        /\ clifford' = Compose(clifford, Dagger(t.op, t.args))
    BY <1>14 DEF VisitClifford
  <2>2. ChanAll(program, accum, Compose(clifford, Dagger(t.op, t.args)), d, n)
    BY <1>2, <1>4, <1>5, <1>9, <2>1, AllClifford
  <2>3. Scope(program, n + 1) = d
    BY <1>7, <2>1 DEF CliffordGates
  <2>4. QED
    BY <1>9, <1>10, <1>13, <2>1, <2>2, <2>3
<1>15. CASE VisitRotation(t)
  <2>0. PICK E : E = Rotation(t.id, t.theta, Conjugate(clifford, On(t.args[1], t.axis)))
    OBVIOUS
  <2>1. /\ t.op = "rot" /\ ~t.cond /\ clifford' = clifford /\ outer' = outer
        /\ accum' = Append(accum, E)
    BY <1>15, <2>0 DEF VisitRotation
  <2>2. ChanAll(program, accum', clifford, d, n)
    BY <1>2, <1>4, <1>5, <1>9, <2>0, <2>1, AllRotation
  <2>3. Scope(program, n + 1) = d
    BY <1>7, <2>1
  <2>4. InScope(program, accum', d)
    <3>1. Len(accum') = N + 1 /\ accum'[N + 1] = E /\ \A j \in 1 .. N : accum'[j] = accum[j]
      BY <1>2, <1>19, <2>1, AppendList
    <3>2. \A j \in 1 .. N + 1 : j \in 1 .. N \/ j = N + 1
      OBVIOUS
    <3>3. E.id = n
      BY <1>8, <2>0 DEF Rotation
    <3>4. \A j \in 1 .. N + 1 : j \in 1 .. N \/
            /\ accum'[j].id \in 1 .. Len(program) /\ program[accum'[j].id].op = "rot"
            /\ ~program[accum'[j].id].cond /\ Scope(program, accum'[j].id) = d
      BY <1>4, <1>5, <2>1, <3>1, <3>2, <3>3
    <3>5. QED
      BY <1>9, <1>19, <3>1, <3>4, InScopeMore
  <2>5. QED
    BY <1>10, <1>13, <2>1, <2>2, <2>3, <2>4
<1>16. CASE VisitOther(t)
  <2>1. /\ t.op = "other" \/ (t.cond /\ t.op \in CliffordGates \cup {"rot"})
        /\ accum' = accum \o <<CliffordOp(clifford), Uninterp(t)>>
        /\ clifford' = Unit /\ outer' = outer
    BY <1>16 DEF VisitOther, PushUninterp
  <2>2. ChanAll(program, accum', Unit, d, n)
    BY <1>2, <1>4, <1>5, <1>9, <2>1, AllOther
  <2>3. Scope(program, n + 1) = d
    BY <1>7, <2>1 DEF CliffordGates
  <2>4. InScope(program, accum', d)
    <3>0. PICK c : c = CliffordOp(clifford) /\ c.kind = "clifford"
      <4>1. CliffordOp(clifford).kind = "clifford"
        BY DEF CliffordOp
      <4>2. QED
        BY <4>1
    <3>5. PICK u : u = Uninterp(t) /\ u.kind = "uninterp"
      <4>1. Uninterp(t).kind = "uninterp"
        BY DEF Uninterp
      <4>2. QED
        BY <4>1
    <3>1. /\ Len(accum') = N + 2 /\ accum'[N + 1] = c /\ accum'[N + 2] = u
          /\ \A j \in 1 .. N : accum'[j] = accum[j]
      <4>1. accum' = accum \o <<c, u>>
        BY <2>1, <3>0, <3>5
      <4>2. QED
        BY <1>2, <1>19, <4>1, AppendTwo
    <3>2. \A j \in 1 .. N + 2 : j \in 1 .. N \/ j = N + 1 \/ j = N + 2
      OBVIOUS
    <3>4. \A j \in 1 .. N + 2 : j \in 1 .. N \/ accum'[j].kind # "rotation"
      BY <3>0, <3>1, <3>2, <3>5
    <3>6. QED
      BY <1>9, <1>19, <3>1, <3>4, InScopeMore
  <2>5. QED
    BY <1>10, <1>13, <2>1, <2>2, <2>3, <2>4
<1>17. CASE EnterGate(t)
  <2>1. /\ t.op = "enter" /\ outer' = <<accum, clifford>>
        /\ accum' = <<>> /\ clifford' = Unit
    BY <1>17 DEF EnterGate
  <2>2. Scope(program, n + 1) = n /\ d = 0
    BY <1>7, <2>1
  <2>3. ChanAll(program, accum, clifford, 0, n)
    <3>1. program[n].op \in {"enter", "leave"}
      BY <1>5, <2>1
    <3>2. QED
      BY <1>2, <1>9, <2>2, <3>1, AllSkips
  <2>4. ChanAll(program, <<>>, Unit, n, n)
    <3>1. ASSUME NEW k \in 1 .. n PROVE Scope(program, k) # n
      <4>1. \A j \in 1 .. k : program[j].op = "enter" => ~Inside(program, j)
        BY <1>6
      <4>2. k \in Nat /\ k > 0
        OBVIOUS
      <4>3. /\ Inside(program, k) => Scope(program, k) \in 1 .. k - 1
            /\ ~Inside(program, k) => Scope(program, k) = 0
        BY <4>1, <4>2, ScopeNext
      <4>4. QED
        BY <1>12, <4>2, <4>3
    <3>2. QED
      BY <1>2, <1>12, <3>1, AllStarts
  <2>5. outer'[1] = accum /\ outer'[2] = clifford
    BY <2>1
  <2>7. InScope(program, <<>>, n)
    BY DEF InScope
  <2>6. QED
    BY <1>9, <1>13, <2>1, <2>2, <2>3, <2>4, <2>5, <2>7
<1>18. QED
  BY <1>11, <1>14, <1>15, <1>16, <1>17

LEMMA StartFoldChannel ==
  ASSUME Inv, ChannelInv, StartFold
  PROVE  ChannelInv'
<1>1. /\ pc = "visit" /\ pc' = "fold" /\ accum' = Append(accum, CliffordOp(clifford))
      /\ UNCHANGED <<program, next, outer>>
  BY DEF StartFold
<1>2. IsList(accum)
  BY Program
<1>3. PICK N \in Nat : N = Len(accum)
  BY <1>2, RangeOfList
<1>4. PICK c : c = CliffordOp(clifford) /\ c.kind = "clifford"
  <2>1. CliffordOp(clifford).kind = "clifford"
    BY DEF CliffordOp
  <2>2. QED
    BY <2>1
<1>5. Len(accum') = N + 1 /\ accum'[N + 1] = c /\ \A j \in 1 .. N : accum'[j] = accum[j]
  <2>1. accum' = Append(accum, c)
    BY <1>1, <1>4
  <2>2. QED
    BY <1>2, <1>3, <2>1, AppendList
<1>6. \A j \in 1 .. N + 1 : j \in 1 .. N \/ j = N + 1
  OBVIOUS
<1>7. \A j \in 1 .. N + 1 : j \in 1 .. N \/ accum'[j].kind # "rotation"
  BY <1>4, <1>5, <1>6
<1>8. PICK d : d = Scope(program, next)
  OBVIOUS
<1>9. InScope(program, accum, d)
  BY <1>1, <1>8 DEF ChannelInv
<1>10. InScope(program, accum', d)
  BY <1>3, <1>5, <1>7, <1>9, InScopeMore
<1>11. QED
  BY <1>1, <1>8, <1>10 DEF ChannelInv

LEMMA EndFoldChannel ==
  ASSUME Inv, ChannelInv, EndFold
  PROVE  ChannelInv'
<1>1. /\ pc = "fold" /\ program' = program
      /\ IF next > Len(program)
         THEN pc' = "done" /\ UNCHANGED <<next, accum, clifford, outer>>
         ELSE /\ pc' = "visit"
              /\ next' = next + 1
              /\ accum' = outer[1] /\ clifford' = outer[2]
              /\ outer' = <<>>
  BY DEF EndFold, Folding
<1>2. /\ next \in 1 .. Len(program) + 1 /\ Len(program) \in Nat
      /\ \A n \in 1 .. Len(program) :
            /\ program[n].op = "enter" => ~Inside(program, n)
            /\ program[n].op = "leave" => Inside(program, n)
  BY Program, WellFormedList
<1>3. CASE next > Len(program)
  BY <1>1, <1>3 DEF ChannelInv
<1>4. CASE ~(next > Len(program))
  <2>1. PICK n \in Nat : n = next /\ n > 0 /\ n \in 1 .. Len(program) /\ (n + 1) - 1 = n
    BY <1>2, <1>4
  <2>2. program[n].op = "leave"
    BY <1>1, <1>4, <2>1 DEF Inv, FoldInv
  <2>3. outer # <<>>
    BY <1>2, <2>1, <2>2 DEF Inv, ScopeInv
  <2>4. ChanAll(program, outer[1], outer[2], 0, n) /\ InScope(program, outer[1], 0)
    <3>1. next <= Len(program)
      BY <2>1
    <3>2. QED
      BY <2>1, <2>3, <3>1, OuterWaits DEF ChannelInv
  <2>5. Scope(program, n + 1) = 0
    <3>1. \A k \in 1 .. n : program[k].op = "enter" => ~Inside(program, k)
      BY <1>2, <2>1
    <3>2. QED
      BY <2>1, <2>2, <3>1, ScopeNext
  <2>6. /\ pc' = "visit" /\ next' = n + 1 /\ accum' = outer[1] /\ clifford' = outer[2] /\ outer' = <<>>
    BY <1>1, <1>4, <2>1
  <2>7. /\ ChanAll(program, accum', clifford', Scope(program, n + 1), n)
        /\ InScope(program, accum', Scope(program, n + 1))
    BY <2>4, <2>5, <2>6
  <2>8. QED
    BY <1>1, <2>1, <2>6, <2>7 DEF ChannelInv
<1>5. QED
  BY <1>3, <1>4

(* A step of fold, of which the list is a part of the one before *)
LEMMA FoldChannel ==
  ASSUME Inv, ChannelInv, pc = "fold", pc' = "fold", UNCHANGED <<program, next, outer>>,
         \A k \in 1 .. Len(accum') : \E j \in 1 .. Len(accum) : accum'[k] = accum[j]
  PROVE  ChannelInv'
<1>1. PICK d : d = Scope(program, next)
  OBVIOUS
<1>2. InScope(program, accum, d)
  BY <1>1 DEF ChannelInv
<1>3. InScope(program, accum', d)
  BY <1>2 DEF InScope
<1>4. QED
  BY <1>1, <1>3 DEF ChannelInv

LEMMA NextChannel == Inv /\ ChannelInv /\ [Next]_vars => ChannelInv'
<1> SUFFICES ASSUME Inv, ChannelInv, [Next]_vars PROVE ChannelInv'
  OBVIOUS
<1>1. ASSUME pc = "fold", pc' = "fold", UNCHANGED <<program, next, outer, accum>> PROVE ChannelInv'
  BY <1>1, FoldChannel
<1>3. CASE SkipElement
  BY <1>1, <1>3 DEF SkipElement, Folding
<1>4. CASE TakeRotation
  BY <1>1, <1>4 DEF TakeRotation, Folding
<1>5. CASE Merge \/ Pass \/ Stop
  <2>1. moving # Nothing
    BY <1>5 DEF Merge, Pass, Stop, Meets, Inv, TypeInv
  <2>2. pc = "fold"
    BY <2>1, InHand
  <2>3. CASE Pass
    BY <1>1, <2>2, <2>3 DEF Pass
  <2>4. CASE Stop
    BY <1>1, <2>2, <2>4 DEF Stop
  <2>5. CASE Merge
    <3>1. /\ Meets("rotation") /\ accum' = ErasedFrom(forward)
          /\ UNCHANGED <<program, next, pc, outer>>
      BY <2>5 DEF Merge
    <3>2. PICK list : list = ErasedFrom(forward)
      OBVIOUS
    <3>3. \A k \in 1 .. Len(list) : \E j \in 1 .. Len(accum) : list[k] = accum[j]
      BY <2>1, <3>1, <3>2, ErasedList
    <3>4. pc' = "fold" /\ \A k \in 1 .. Len(accum') : \E j \in 1 .. Len(accum) : accum'[k] = accum[j]
      BY <2>2, <3>1, <3>2, <3>3
    <3>5. QED
      BY <2>2, <3>1, <3>4, FoldChannel
  <2>6. QED
    BY <1>5, <2>3, <2>4, <2>5
<1>6. CASE UNCHANGED vars
  BY <1>6 DEF vars, ChannelInv
<1>7. QED
  BY <1>3, <1>4, <1>5, <1>6, VisitChannel, StartFoldChannel, EndFoldChannel DEF Next

(* The list that the visit builds, with the current Clifford operator at   *)
(* its end, does what the statements visited do, whatever the program.     *)
THEOREM ListIsProgram == Spec => []ChannelMatches
<1>1. ASSUME Inv, ChannelInv, pc = "visit"
      PROVE  AfterElement(ListMeaning(accum, Len(accum)), CliffordOp(clifford))
               = Meaning(program, Scope(program, next), next - 1)
  <2>1. WellFormed(program)
    BY <1>1, Program
  <2>2. PICK a \in Angles(program) : a = NoneChanged(program) /\ Rewritten(program, a) = program
    BY <2>1, NothingChanged
  <2>3. PICK N \in Nat : N = Len(accum)
    BY <1>1, Program, RangeOfList
  <2>4. \A k \in 1 .. N : Adjusted(accum, a)[k] = accum[k]
    <3>1. \A k \in 1 .. Len(accum) : accum[k].kind = "rotation" => accum[k].id \in 1 .. Len(program)
      BY <1>1 DEF ChannelInv, InScope
    <3>2. QED
      BY <2>2, <2>3, <3>1, NothingTurned
  <2>5. ListMeaning(Adjusted(accum, a), N) = ListMeaning(accum, N)
    BY <2>4, ListsTheSame
  <2>6. Chan(program, Adjusted(accum, a), N, clifford, Scope(program, next), next - 1)
    BY <1>1, <2>2, <2>3 DEF ChannelInv, ChanAll
  <2>7. QED
    BY <2>3, <2>5, <2>6 DEF Chan
<1>2. Inv /\ ChannelInv => ChannelMatches
  BY <1>1 DEF ChannelMatches
<1>3. QED
  BY <1>2, ListsAreRight, InitChannel, NextChannel, PTL DEF Spec

-----------------------------------------------------------------------------
(* The list, as fold begins, is the whole scope.                           *)

LEMMA MeaningRest ==
  ASSUME NEW p, NEW d, NEW N \in Nat, NEW M \in Nat, N <= M, \A n \in N + 1 .. M : Skipped(p, d, n)
  PROVE  Meaning(p, d, M) = Meaning(p, d, N)
<1> DEFINE same == {k \in 0 .. M - N : Meaning(p, d, N + k) = Meaning(p, d, N)}
<1>1. 0 \in same
  BY N + 0 = N
<1>2. \A k \in 0 .. (M - N) - 1 : k \in same => k + 1 \in same
  <2> SUFFICES ASSUME NEW k \in 0 .. (M - N) - 1, k \in same PROVE k + 1 \in same
    OBVIOUS
  <2>1. PICK n \in Nat : n = N + (k + 1) /\ n - 1 = N + k /\ n > 0 /\ n \in N + 1 .. M
    OBVIOUS
  <2>2. Meaning(p, d, n) = Meaning(p, d, n - 1)
    BY <2>1, MeaningGoesOn
  <2>3. k + 1 \in 0 .. M - N
    OBVIOUS
  <2>4. QED
    BY <2>1, <2>2, <2>3
<1> HIDE DEF same
<1>3. PICK K \in Nat : K = M - N /\ N + K = M
  OBVIOUS
<1>4. \A k \in 0 .. K : k \in same
  BY <1>1, <1>2, <1>3, Induction
<1>5. K \in same
  BY <1>4
<1>6. QED
  BY <1>3, <1>5 DEF same

LEMMA RestOfScope ==
  ASSUME NEW p, WellFormed(p), NEW n \in 1 .. Len(p) + 1, n <= Len(p) => p[n].op = "leave",
         NEW k \in n .. Len(p)
  PROVE  Scope(p, k) # Scope(p, n) \/ p[k].op \in {"enter", "leave"}
<1> SUFFICES ASSUME Scope(p, k) = Scope(p, n), k # n PROVE FALSE
  <2>1. Len(p) \in Nat
    BY WellFormedList
  <2>2. n <= Len(p)
    BY <2>1
  <2>3. QED
    BY <2>2
<1>1. /\ Len(p) \in Nat
      /\ \A m \in 1 .. Len(p) : p[m].op = "enter" => ~Inside(p, m)
      /\ \A m \in 1 .. Len(p) : p[m].op = "leave" => Inside(p, m)
  BY WellFormedList
<1>2. n \in Nat /\ k \in Nat /\ n < k /\ n \in 1 .. Len(p)
  BY <1>1
<1>3. Inside(p, n)
  BY <1>1, <1>2
<1>4. \A m \in 1 .. k - 1 : p[m].op = "enter" => ~Inside(p, m)
  BY <1>1
<1>5. \A m \in 1 .. n - 1 : p[m].op = "enter" => ~Inside(p, m)
  BY <1>1
<1>6. PICK d : d = Scope(p, n) /\ d \in 1 .. n - 1
  BY <1>2, <1>3, <1>5, ScopeOpens
<1>7. /\ ~Inside(p, k) => Scope(p, k) = 0
      /\ Inside(p, k) => Opens(p, k, Scope(p, k))
  BY <1>2, <1>4, ScopeOpens
<1>8. Opens(p, k, d)
  BY <1>6, <1>7
<1>9. n \in d + 1 .. k - 1
  BY <1>2, <1>6
<1>10. QED
  BY <1>2, <1>8, <1>9 DEF Opens

(* What has been deleted is deleted with the angles a, too.                *)
KeepsDeleted(p, list, a) == \A n \in 1 .. Len(p) : list[n] = 0 => a[n] = 0

(* The list does what the scope d does, with the replacements so far and   *)
(* any more of them.                                                       *)
FoldAll(p, list, replacement, d) ==
  \A a \in Angles(p) : KeepsDeleted(p, replacement, a) =>
    ListMeaning(Adjusted(list, a), Len(list)) = Meaning(Rewritten(p, a), d, Len(p))

LEMMA ListComplete ==
  ASSUME NEW p, WellFormed(p), NEW list, IsList(list), NEW C, NEW n \in 1 .. Len(p) + 1,
         n <= Len(p) => p[n].op = "leave", NEW d, d = Scope(p, n),
         ChanAll(p, list, C, d, n - 1), InScope(p, list, d),
         NEW more, more = Append(list, CliffordOp(C)), NEW replacement
  PROVE  Elements(more, Len(more)) /\ FoldAll(p, more, replacement, d)
<1>1. Len(p) \in Nat
  BY WellFormedList
<1>2. PICK N \in Nat : N = Len(list)
  BY RangeOfList
<1>3. PICK c : c = CliffordOp(C)
  OBVIOUS
<1>4. c.kind = "clifford" /\ c.map = C
  BY <1>3 DEF CliffordOp
<1>5. Len(more) = N + 1 /\ more[N + 1] = c /\ \A j \in 1 .. N : more[j] = list[j]
  BY <1>2, <1>3, AppendList
<1>6. Elements(more, N + 1)
  <2>1. PICK a \in Angles(p) : a = NoneChanged(p)
    BY NothingChanged
  <2>2. PICK L : L = Adjusted(list, a)
    OBVIOUS
  <2>3. \A k \in 1 .. N : L[k] = list[k]
    <3>1. \A k \in 1 .. Len(list) : list[k].kind = "rotation" => list[k].id \in 1 .. Len(p)
      BY DEF InScope
    <3>2. QED
      BY <1>2, <2>1, <2>2, <3>1, NothingTurned
  <2>4. Elements(L, N) /\ Clifford(C) /\ Before(L, N, (n - 1) + 1)
    BY <1>2, <2>2 DEF ChanAll, Chan
  <2>5. \A j \in 1 .. N : more[j] = L[j]
    BY <1>5, <2>3
  <2>6. IsElement(c)
    BY <1>4, <2>4 DEF IsElement
  <2>7. QED
    BY <1>4, <1>5, <2>4, <2>5, <2>6, MoreElements
<1>7. ASSUME NEW a \in Angles(p)
      PROVE  ListMeaning(Adjusted(more, a), N + 1) = Meaning(Rewritten(p, a), d, Len(p))
  <2>1. PICK q : q = Rewritten(p, a)
    OBVIOUS
  <2>2. PICK L : L = Adjusted(list, a)
    OBVIOUS
  <2>3. PICK M : M = Adjusted(more, a)
    OBVIOUS
  <2>4. M[N + 1] = c /\ \A j \in 1 .. N : M[j] = L[j]
    <3>1. N + 1 \in 1 .. N + 1 /\ 1 .. N \subseteq 1 .. N + 1
      OBVIOUS
    <3>2. \A j \in 1 .. N + 1 : M[j] = Turned(more[j], a)
      BY <1>5, <2>3 DEF Adjusted
    <3>3. \A j \in 1 .. N : L[j] = Turned(list[j], a)
      BY <1>2, <2>2 DEF Adjusted
    <3>4. Turned(c, a) = c
      BY <1>4 DEF Turned
    <3>5. QED
      BY <1>5, <3>1, <3>2, <3>3, <3>4
  <2>5. AfterElement(ListMeaning(L, N), c) = Meaning(q, d, n - 1)
    BY <1>2, <1>3, <2>1, <2>2 DEF ChanAll, Chan
  <2>6. ListMeaning(M, N) = ListMeaning(L, N)
    BY <2>4, ListsTheSame
  <2>7. ListMeaning(M, N + 1) = Meaning(q, d, n - 1)
    <3>1. PICK j \in Nat : j = N + 1 /\ j > 0 /\ j - 1 = N
      OBVIOUS
    <3>2. ListMeaning(M, j) = AfterElement(ListMeaning(M, j - 1), M[j])
      BY <3>1, ListGoesOn
    <3>3. QED
      BY <2>4, <2>5, <2>6, <3>1, <3>2
  <2>8. ASSUME NEW k \in n .. Len(p) PROVE Skipped(q, d, k)
    <3>1. Scope(p, k) # d \/ p[k].op \in {"enter", "leave"}
      BY RestOfScope
    <3>2. k \in 1 .. Len(p) /\ k \in 1 .. Len(p) + 1
      BY <1>1
    <3>3. Scope(q, k) = Scope(p, k)
      BY <2>1, <3>2, RewrittenScope
    <3>4. /\ q[k].op = "enter" <=> p[k].op = "enter"
          /\ q[k].op = "leave" <=> p[k].op = "leave"
      BY <2>1, <3>2, RewrittenStatement
    <3>5. QED
      BY <3>1, <3>3, <3>4 DEF Skipped
  <2>9. Meaning(q, d, Len(p)) = Meaning(q, d, n - 1)
    <3>1. PICK m \in Nat : m = n - 1 /\ m + 1 = n /\ m <= Len(p)
      BY <1>1
    <3>2. \A k \in m + 1 .. Len(p) : Skipped(q, d, k)
      BY <2>8, <3>1
    <3>3. QED
      BY <1>1, <3>1, <3>2, MeaningRest
  <2>10. QED
    BY <2>1, <2>3, <2>7, <2>9
<1>8. QED
  BY <1>5, <1>6, <1>7 DEF FoldAll

-----------------------------------------------------------------------------
(* A Pauli is known by its words.                                          *)

LEMMA CommuteOn ==
  ASSUME NEW P \in Pauli, NEW q \in Names, NEW a \in Axis
  PROVE  Commute(P, On(q, a)) <=> P.op[q] \in {"I", a}
<1>1. a \in PauliOp /\ a # "I"
  BY DEF PauliOp, Axis
<1>2. \A n \in Names : On(q, a).op[n] = IF n = q THEN a ELSE "I"
  BY <1>1, OnTypes
<1>3. PICK S : S = {n \in Names : "I" \notin {P.op[n], On(q, a).op[n]} /\ P.op[n] # On(q, a).op[n]}
  OBVIOUS
<1>4. S = IF P.op[q] \in {"I", a} THEN {} ELSE {q}
  BY <1>1, <1>2, <1>3
<1>5. Cardinality({}) = 0 /\ Cardinality({q}) = 1
  BY FS_EmptySet, FS_Singleton
<1>6. Commute(P, On(q, a)) <=> Cardinality(S) % 2 = 0
  BY <1>3 DEF Commute
<1>7. CASE P.op[q] \in {"I", a}
  <2>1. Cardinality(S) = 0
    BY <1>4, <1>5, <1>7
  <2>2. 0 % 2 = 0
    OBVIOUS
  <2>3. QED
    BY <1>6, <1>7, <2>1, <2>2
<1>8. CASE P.op[q] \notin {"I", a}
  <2>1. Cardinality(S) = 1
    BY <1>4, <1>5, <1>8
  <2>2. 1 % 2 # 0
    OBVIOUS
  <2>3. QED
    BY <1>6, <1>8, <2>1, <2>2
<1>9. QED
  BY <1>7, <1>8

LEMMA WordOnQubit ==
  ASSUME NEW f, Canonical(f), NEW P \in Pauli, NEW q \in Names
  PROVE  /\ AntiCommute(WordOfPauli(f, P), f[q].x) <=> P.op[q] \notin {"I", "X"}
         /\ AntiCommute(WordOfPauli(f, P), f[q].z) <=> P.op[q] \notin {"I", "Z"}
<1>1. f \in Frames
  BY DEF Canonical
<1>2. ASSUME NEW a \in Axis
      PROVE  AntiCommute(WordOfPauli(f, P), Factor(f, q, a)) <=> P.op[q] \notin {"I", a}
  <2>1. a \in PauliOp
    BY DEF PauliOp
  <2>2. On(q, a) \in Pauli
    BY <2>1, OnTypes
  <2>3. WordOfPauli(f, On(q, a)) = Factor(f, q, a)
    BY <1>1, <2>1, WordOfOn
  <2>4. Commute(P, On(q, a)) <=> ~AntiCommute(WordOfPauli(f, P), WordOfPauli(f, On(q, a)))
    BY <2>2, WordsCommute
  <2>5. Commute(P, On(q, a)) <=> P.op[q] \in {"I", a}
    BY CommuteOn
  <2>6. QED
    BY <2>3, <2>4, <2>5
<1>3. Factor(f, q, "X") = f[q].x /\ Factor(f, q, "Z") = f[q].z
  BY <1>1, FactorTypes
<1>4. "X" \in Axis /\ "Z" \in Axis
  BY DEF Axis
<1>5. QED
  BY <1>2, <1>3, <1>4

LEMMA SamePauli ==
  ASSUME NEW f, Canonical(f), NEW P \in Pauli, NEW Q \in Pauli,
         WordOfPauli(f, P) = WordOfPauli(f, Q)
  PROVE  P = Q
<1>1. f \in Frames
  BY DEF Canonical
<1>2. /\ P.op \in [Names -> PauliOp] /\ Q.op \in [Names -> PauliOp]
      /\ P.phase \in 0 .. 3 /\ Q.phase \in 0 .. 3
      /\ P = [op |-> P.op, phase |-> P.phase] /\ Q = [op |-> Q.op, phase |-> Q.phase]
  BY PauliTypes
<1>3. ASSUME NEW q \in Names PROVE P.op[q] = Q.op[q]
  <2>1. /\ P.op[q] \notin {"I", "X"} <=> Q.op[q] \notin {"I", "X"}
        /\ P.op[q] \notin {"I", "Z"} <=> Q.op[q] \notin {"I", "Z"}
    BY WordOnQubit
  <2>2. P.op[q] \in {"I", "X", "Y", "Z"} /\ Q.op[q] \in {"I", "X", "Y", "Z"}
    BY <1>2 DEF PauliOp, Axis
  <2>3. QED
    BY <2>1, <2>2
<1>4. P.op = Q.op
  BY <1>2, <1>3
<1>5. PICK k \in 0 .. 3 : k = (Q.phase - P.phase) % 4
  <2>1. \A a, b \in 0 .. 3 : (a - b) % 4 \in 0 .. 3
    OBVIOUS
  <2>2. QED
    BY <1>2, <2>1
<1>6. (P.phase + k) % 4 = Q.phase
  <2>1. \A a, b \in 0 .. 3 : (a + ((b - a) % 4)) % 4 = b
    OBVIOUS
  <2>2. QED
    BY <1>2, <1>5, <2>1
<1>7. PICK v \in Words : v = WordOfPauli(f, P)
  BY <1>1, WordToTypes
<1>8. Q = Phased(P, k)
  <2>1. Phased(P, k) = [op |-> P.op, phase |-> (P.phase + k) % 4]
    BY <1>2 DEF Phased
  <2>2. QED
    BY <1>2, <1>4, <1>6, <2>1
<1>9. TimesI(v, k) = v
  BY <1>1, <1>7, <1>8, WordPhase
<1>10. (v.phase + k) % 4 = v.phase
  BY <1>9, PhasedWord
<1>11. k = 0
  <2>1. v.phase \in 0 .. 3
    BY DEF Words
  <2>2. \A a, b \in 0 .. 3 : (a + b) % 4 = a => b = 0
    OBVIOUS
  <2>3. QED
    BY <1>10, <2>1, <2>2
<1>12. QED
  <2>1. \A a \in 0 .. 3 : (a + 0) % 4 = a
    OBVIOUS
  <2>2. P.phase = Q.phase
    BY <1>2, <1>6, <1>11, <2>1
  <2>3. QED
    BY <1>2, <1>4, <2>2

UpToSign(P, Q) == P \in {Q, Minus(Q)}

LEMMA Signs ==
  ASSUME NEW P \in Pauli, NEW Q \in Pauli
  PROVE  /\ Minus(P) \in Pauli /\ Minus(Minus(P)) = P
         /\ UpToSign(P, P) /\ (UpToSign(P, Q) <=> UpToSign(Q, P))
<1>1. ASSUME NEW R \in Pauli PROVE Minus(R) \in Pauli /\ Minus(Minus(R)) = R
  <2>1. ASSUME NEW T \in Pauli
        PROVE  /\ T.op \in [Names -> PauliOp] /\ T.phase \in 0 .. 3
               /\ T = [op |-> T.op, phase |-> T.phase]
               /\ Minus(T) = [op |-> T.op, phase |-> (T.phase + 2) % 4]
    BY <2>1, PauliTypes DEF Minus, Phased
  <2>2. \A a \in 0 .. 3 : (a + 2) % 4 \in 0 .. 3 /\ (((a + 2) % 4) + 2) % 4 = a
    OBVIOUS
  <2>3. PICK S : S = Minus(R)
    OBVIOUS
  <2>4. S.op = R.op /\ S.phase = (R.phase + 2) % 4 /\ S = [op |-> R.op, phase |-> (R.phase + 2) % 4]
    BY <2>1, <2>3
  <2>5. S \in Pauli
    BY <2>1, <2>2, <2>4 DEF Pauli
  <2>6. Minus(S) = [op |-> R.op, phase |-> (((R.phase + 2) % 4) + 2) % 4]
    BY <2>1, <2>4, <2>5
  <2>7. QED
    BY <2>1, <2>2, <2>3, <2>5, <2>6
<1>2. QED
  BY <1>1 DEF UpToSign

LEMMA SignsAgree ==
  ASSUME NEW P \in Pauli, NEW Q \in Pauli, NEW R \in Pauli, UpToSign(P, Q), UpToSign(Q, R)
  PROVE  UpToSign(P, R)
BY Signs DEF UpToSign

(* Paulis that differ by more than the sign do so in front of a Clifford   *)
(* operator, too.                                                          *)
LEMMA ConjugateApart ==
  ASSUME NEW C, Clifford(C), NEW P \in Pauli, NEW Q \in Pauli,
         UpToSign(Conjugate(C, P), Conjugate(C, Q))
  PROVE  UpToSign(P, Q)
<1>1. PICK f : Canonical(f)
  BY StartGood DEF Good, GoodFrame
<1>2. PICK g : g = After(f, C)
  OBVIOUS
<1>3. Canonical(g) /\ f \in Frames /\ g \in Frames
  BY <1>1, <1>2 DEF Clifford, Canonical
<1>4. PICK D \in Pauli : D = Conjugate(C, P) /\ WordOfPauli(g, P) = WordOfPauli(f, D)
  BY <1>1, <1>2, WordOfConjugate
<1>5. PICK E \in Pauli : E = Conjugate(C, Q) /\ WordOfPauli(g, Q) = WordOfPauli(f, E)
  BY <1>1, <1>2, WordOfConjugate
<1>6. CASE D = E
  BY <1>3, <1>4, <1>5, <1>6, SamePauli DEF UpToSign
<1>7. CASE D = Minus(E)
  <2>1. PICK k \in 0 .. 3 : k = 2
    OBVIOUS
  <2>2. WordOfPauli(f, D) = TimesI(WordOfPauli(f, E), k)
    BY <1>3, <1>7, <2>1, WordPhase DEF Minus
  <2>3. Minus(Q) \in Pauli /\ WordOfPauli(g, Minus(Q)) = TimesI(WordOfPauli(g, Q), k)
    BY <1>3, <2>1, WordPhase DEF Minus
  <2>4. P = Minus(Q)
    BY <1>3, <1>4, <1>5, <2>2, <2>3, SamePauli
  <2>5. QED
    BY <2>4 DEF UpToSign
<1>8. QED
  BY <1>4, <1>5, <1>6, <1>7 DEF UpToSign

(* A Pauli is the same word in frames that differ on other qubits.         *)
LEMMA WordElsewhere ==
  ASSUME NEW f \in Frames, NEW g \in Frames, NEW P \in Pauli,
         \A q \in Names : P.op[q] = "I" \/ g[q] = f[q]
  PROVE  WordOfPauli(g, P) = WordOfPauli(f, P)
<1>1. PICK u : u = WordTo(f, P)
  OBVIOUS
<1>2. PICK v : v = WordTo(g, P)
  OBVIOUS
<1>3. /\ WordOfPauli(f, P) = u[NQ] /\ u[0] = TimesI(Idle, P.phase)
      /\ \A n \in 1 .. NQ : u[n] = IF P.op[n] = "I" THEN u[n - 1] ELSE u[n - 1] ** Factor(f, n, P.op[n])
  BY <1>1, WordToSteps
<1>4. /\ WordOfPauli(g, P) = v[NQ] /\ v[0] = TimesI(Idle, P.phase)
      /\ \A n \in 1 .. NQ : v[n] = IF P.op[n] = "I" THEN v[n - 1] ELSE v[n - 1] ** Factor(g, n, P.op[n])
  BY <1>2, WordToSteps
<1> DEFINE same == {n \in 0 .. NQ : u[n] = v[n]}
<1>5. 0 \in same
  BY <1>3, <1>4, SizeAssumption
<1>6. \A n \in 0 .. NQ - 1 : n \in same => n + 1 \in same
  <2> SUFFICES ASSUME NEW n \in 0 .. NQ - 1, u[n] = v[n] PROVE u[n + 1] = v[n + 1]
    BY SizeAssumption
  <2>1. PICK m \in Names : m = n + 1 /\ m \in 1 .. NQ /\ m - 1 = n
    BY SizeAssumption DEF Names
  <2>2. CASE P.op[m] = "I"
    BY <1>3, <1>4, <2>1, <2>2
  <2>3. CASE P.op[m] # "I"
    <3>1. g[m] = f[m]
      BY <2>1, <2>3
    <3>2. Factor(g, m, P.op[m]) = Factor(f, m, P.op[m])
      BY <3>1 DEF Factor, WordOf
    <3>3. QED
      BY <1>3, <1>4, <2>1, <2>3, <3>2
  <2>4. QED
    BY <2>2, <2>3
<1> HIDE DEF same
<1>7. \A n \in 0 .. NQ : n \in same
  BY <1>5, <1>6, Induction, SizeAssumption
<1>8. NQ \in same
  BY <1>7, SizeAssumption
<1>9. QED
  BY <1>3, <1>4, <1>8 DEF same

-----------------------------------------------------------------------------
(* A rotation that a Pauli is moved past commutes with it, and a gate      *)
(* without a rule is on other qubits.                                      *)
Passes(e, P) ==
  /\ e.kind = "rotation" => Commute(P, e.pauli)
  /\ e.kind = "uninterp" => TrivialOn(P, Range(e.qubits))

(* Of two equal operations, one with and one without a rotation about W in *)
(* front.                                                                  *)
TurnedBy(after, before, W, b) ==
  after = [frame |-> RotatedFrame(before.frame, W, b), events |-> before.events]

Passed(m, v, e, P, W, k) ==
  /\ WordOfPauli(AfterElement(m, e).frame, P) = W
  /\ TurnedBy(AfterElement(v, e), AfterElement(m, e), W, k)

LEMMA RotationsExchange ==
  ASSUME NEW f, Canonical(f), NEW W, Hermitian(W), NEW b \in 0 .. 3,
         NEW S, Hermitian(S), NEW t \in 0 .. 3, ~AntiCommute(W, S)
  PROVE  /\ Rotated(S, t, W) = W /\ Rotated(W, b, S) = S
         /\ RotatedFrame(RotatedFrame(f, W, b), S, t) = RotatedFrame(RotatedFrame(f, S, t), W, b)
<1>1. W \in Words /\ S \in Words /\ ~AntiCommute(S, W)
  <2>1. W \in Words /\ S \in Words
    BY DEF Hermitian
  <2>2. PICK n \in 0 .. 3 : n = 0
    OBVIOUS
  <2>3. QED
    BY <2>1, <2>2, AntiFacts
<1>2. Rotated(S, t, W) = W /\ Rotated(W, b, S) = S
  BY <1>1, RotatedCases
<1>3. ASSUME NEW w \in Words
      PROVE  Rotated(S, t, Rotated(W, b, w)) = Rotated(W, b, Rotated(S, t, w))
  BY <1>1, <1>2, RotatedRotated
<1>4. \A q \in Names : f[q].x \in Words /\ f[q].z \in Words
  BY DEF Canonical, Frames
<1>5. QED
  BY <1>2, <1>3, <1>4 DEF RotatedFrame

LEMMA TurnedGood ==
  ASSUME NEW m, NEW b, Good(m, b), NEW P \in Pauli, NEW W, W = WordOfPauli(m.frame, P),
         Hermitian(W), NEW k \in 0 .. 3, NEW v, TurnedBy(v, m, W, k)
  PROVE  /\ Good(v, b) /\ v.frame = RotatedFrame(m.frame, W, k) /\ v.events = m.events
         /\ Canonical(m.frame) /\ GoodFrame(m.frame, b) /\ Canonical(v.frame)
         /\ W \in Words /\ OldWord(W, b)
<1>1. Canonical(m.frame) /\ GoodFrame(m.frame, b)
  BY DEF Good, GoodFrame
<1>2. W \in Words /\ OldWord(W, b)
  BY <1>1, OldWordOf
<1>3. v.frame = RotatedFrame(m.frame, W, k) /\ v.events = m.events
      /\ v = [frame |-> v.frame, events |-> v.events]
  BY DEF TurnedBy
<1>4. GoodFrame(v.frame, b)
  BY <1>1, <1>2, <1>3, GoodRotated
<1>5. QED
  BY <1>1, <1>2, <1>3, <1>4 DEF Good, GoodFrame

LEMMA PassClifford ==
  ASSUME NEW m, NEW b, Good(m, b), NEW e, IsElement(e), e.kind = "clifford", NEW P \in Pauli,
         NEW W, W = WordOfPauli(m.frame, Past(e, P)), Hermitian(W),
         NEW k \in 0 .. 3, NEW v, TurnedBy(v, m, W, k)
  PROVE  Passed(m, v, e, P, W, k)
<1>1. Clifford(e.map)
  BY DEF IsElement
<1>2. PICK f : f = m.frame
  OBVIOUS
<1>3. Conjugate(e.map, P) \in Pauli /\ W = WordOfPauli(f, Conjugate(e.map, P))
  BY <1>1, <1>2, WordOfConjugate DEF Past
<1>4. /\ Good(v, b) /\ v.frame = RotatedFrame(f, W, k) /\ v.events = m.events /\ Canonical(f)
  BY <1>2, <1>3, TurnedGood
<1>5. WordOfPauli(After(f, e.map), P) = W
  BY <1>1, <1>3, <1>4, WordOfConjugate
<1>6. AfterElement(m, e) = [frame |-> After(f, e.map), events |-> m.events]
  BY <1>2, AfterClifford
<1>7. AfterElement(v, e) = [frame |-> After(RotatedFrame(f, W, k), e.map), events |-> m.events]
  BY <1>4, AfterClifford
<1>8. After(RotatedFrame(f, W, k), e.map) = RotatedFrame(After(f, e.map), W, k)
  BY <1>1, <1>4, RotationAfter
<1>9. QED
  BY <1>5, <1>6, <1>7, <1>8 DEF Passed, TurnedBy

LEMMA PassRotation ==
  ASSUME NEW m, NEW b, Good(m, b), NEW e, IsElement(e), e.kind = "rotation", NEW P \in Pauli,
         NEW W, W = WordOfPauli(m.frame, Past(e, P)), Hermitian(W), Passes(e, P),
         NEW k \in 0 .. 3, NEW v, TurnedBy(v, m, W, k)
  PROVE  Passed(m, v, e, P, W, k)
<1>1. Signed(e.pauli) /\ e.pauli \in Pauli /\ e.theta \in 0 .. 3 /\ Commute(P, e.pauli)
  BY DEF IsElement, Signed, Passes
<1>2. PICK f : f = m.frame
  OBVIOUS
<1>3. W = WordOfPauli(f, P)
  BY <1>2 DEF Past
<1>4. Good(v, b) /\ v.frame = RotatedFrame(f, W, k) /\ v.events = m.events /\ Canonical(f) /\ W \in Words
  BY <1>2, <1>3, TurnedGood
<1>5. PICK S : S = WordOfPauli(f, e.pauli)
  OBVIOUS
<1>6. Hermitian(S) /\ ~AntiCommute(W, S)
  BY <1>1, <1>3, <1>4, <1>5, WordsCommute DEF Signed
<1>7. PICK t \in 0 .. 3 : t = e.theta
  BY <1>1
<1>8. /\ Rotated(S, t, W) = W /\ Rotated(W, k, S) = S
      /\ RotatedFrame(RotatedFrame(f, W, k), S, t) = RotatedFrame(RotatedFrame(f, S, t), W, k)
  BY <1>4, <1>6, RotationsExchange
<1>9. f \in Frames
  BY <1>4 DEF Canonical
<1>10. AfterElement(m, e) = [frame |-> RotatedFrame(f, S, t), events |-> m.events]
  BY <1>2, <1>5, <1>7, AfterRotation
<1>11. WordOfPauli(RotatedFrame(f, S, t), P) = W
  BY <1>3, <1>6, <1>8, <1>9, WordOfRotated
<1>12. WordOfPauli(v.frame, e.pauli) = S
  BY <1>1, <1>4, <1>5, <1>8, <1>9, WordOfRotated
<1>13. AfterElement(v, e) = [frame |-> RotatedFrame(RotatedFrame(f, W, k), S, t), events |-> m.events]
  BY <1>4, <1>7, <1>12, AfterRotation
<1>14. QED
  BY <1>8, <1>10, <1>11, <1>13 DEF Passed, TurnedBy

LEMMA PassOther ==
  ASSUME NEW m, NEW e, IsElement(e), e.kind = "uninterp", Good(m, e.id), NEW P \in Pauli,
         NEW W, W = WordOfPauli(m.frame, Past(e, P)), Hermitian(W), Passes(e, P),
         NEW k \in 0 .. 3, NEW v, TurnedBy(v, m, W, k)
  PROVE  Passed(m, v, e, P, W, k)
<1>1. e.qubits \in Seq(Names) /\ TrivialOn(P, Range(e.qubits))
  BY DEF IsElement, Passes
<1>2. PICK id \in Nat : id = e.id
  BY DEF IsElement
<1>3. PICK f : f = m.frame
  OBVIOUS
<1>4. W = WordOfPauli(f, P)
  BY <1>3 DEF Past
<1>5. /\ Good(v, id) /\ v.frame = RotatedFrame(f, W, k) /\ v.events = m.events
      /\ Canonical(f) /\ GoodFrame(f, id) /\ W \in Words /\ OldWord(W, id)
  BY <1>2, <1>3, <1>4, TurnedGood
<1>6. PICK T : T = Range(e.qubits)
  OBVIOUS
<1>7. \A q \in T : P.op[q] = "I"
  BY <1>1, <1>6 DEF TrivialOn
<1>8. PICK g : g = Replaced(f, T, id)
  OBVIOUS
<1>9. PICK h : h = RotatedFrame(f, W, k)
  OBVIOUS
<1>10. f \in Frames /\ \A q \in Names : f[q].x \in Words /\ f[q].z \in Words
       /\ f[q] = [x |-> f[q].x, z |-> f[q].z]
  BY <1>5 DEF Canonical, Frames
<1>11. ASSUME NEW q \in Names, P.op[q] = "I"
       PROVE  h[q] = f[q]
  <2>1. ~AntiCommute(W, f[q].x) /\ ~AntiCommute(W, f[q].z)
    BY <1>4, <1>5, <1>11, WordOnQubit
  <2>2. Rotated(W, k, f[q].x) = f[q].x /\ Rotated(W, k, f[q].z) = f[q].z
    BY <1>5, <1>10, <2>1, RotatedCases
  <2>3. QED
    BY <1>9, <1>10, <2>2 DEF RotatedFrame
<1>12. ASSUME NEW q \in Names
       PROVE  /\ FreshQubit(q, id) \in [x : Words, z : Words]
              /\ RotatedFrame(g, W, k)[q] = IF q \in T THEN FreshQubit(q, id) ELSE h[q]
  <2>1. PICK u : u = FreshQubit(q, id)
    OBVIOUS
  <2>2. u \in [x : Words, z : Words]
    BY <2>1, FreshWords
  <2>3. ~AntiCommute(W, u.x) /\ ~AntiCommute(W, u.z)
    BY <1>5, <2>1, FreshAndOld
  <2>4. Rotated(W, k, u.x) = u.x /\ Rotated(W, k, u.z) = u.z
    BY <1>5, <2>2, <2>3, RotatedCases
  <2>5. u = [x |-> u.x, z |-> u.z]
    BY <2>2
  <2>6. g[q] = IF q \in T THEN u ELSE f[q]
    BY <1>8, <2>1 DEF Replaced
  <2>7. RotatedFrame(g, W, k)[q] = [x |-> Rotated(W, k, g[q].x), z |-> Rotated(W, k, g[q].z)]
    BY DEF RotatedFrame
  <2>8. h[q] = [x |-> Rotated(W, k, f[q].x), z |-> Rotated(W, k, f[q].z)]
    BY <1>9 DEF RotatedFrame
  <2>9. QED
    BY <2>1, <2>2, <2>4, <2>5, <2>6, <2>7, <2>8
<1>13. RotatedFrame(g, W, k) = Replaced(h, T, id)
  <2>1. RotatedFrame(g, W, k) = [q \in Names |-> RotatedFrame(g, W, k)[q]]
    BY DEF RotatedFrame
  <2>2. QED
    BY <1>12, <2>1 DEF Replaced
<1>14. WordOfPauli(g, P) = W
  <2>1. g \in Frames
    BY <1>8, <1>10, <1>12 DEF Replaced, Frames
  <2>2. \A q \in Names : P.op[q] = "I" \/ g[q] = f[q]
    BY <1>7, <1>8 DEF Replaced
  <2>3. QED
    BY <1>4, <1>10, <2>1, <2>2, WordElsewhere
<1>15. \A n \in DOMAIN e.qubits : e.qubits[n] \in T /\ e.qubits[n] \in Names
  BY <1>1, <1>6 DEF Range
<1>16. [n \in DOMAIN e.qubits |-> h[e.qubits[n]]] = [n \in DOMAIN e.qubits |-> f[e.qubits[n]]]
  BY <1>7, <1>11, <1>15
<1>17. PICK ev : ev = [n \in DOMAIN e.qubits |-> f[e.qubits[n]]]
  OBVIOUS
<1>18. AfterElement(m, e) = [frame |-> g, events |-> Append(m.events, <<id, ev>>)]
  BY <1>1, <1>2, <1>3, <1>6, <1>8, <1>17, AfterOther, AfterUninterp
<1>19. AfterElement(v, e) = [frame |-> RotatedFrame(g, W, k), events |-> Append(m.events, <<id, ev>>)]
  <2>1. AfterElement(v, e) = OtherGate(v, e.qubits, id)
    BY <1>2, AfterUninterp
  <2>2. OtherGate(v, e.qubits, id)
          = [frame  |-> Replaced(v.frame, T, id),
             events |-> Append(v.events, <<id, [n \in DOMAIN e.qubits |-> v.frame[e.qubits[n]]]>>)]
    BY <1>1, <1>6, AfterOther
  <2>3. v.frame = h /\ v.events = m.events
    BY <1>5, <1>9
  <2>4. QED
    BY <1>13, <1>16, <1>17, <2>1, <2>2, <2>3
<1>20. QED
  BY <1>14, <1>18, <1>19 DEF Passed, TurnedBy

LEMMA ListBound ==
  ASSUME NEW list, NEW N \in Nat, Elements(list, N)
  PROVE  \E b \in Nat : b > 0 /\ Before(list, N, b)
<1> DEFINE bounded == {n \in 0 .. N : \E b \in Nat : b > 0 /\ Before(list, n, b)}
<1>1. 0 \in bounded
  <2>1. PICK b \in Nat : b = 1
    OBVIOUS
  <2>2. Before(list, 0, b)
    BY DEF Before
  <2>3. QED
    BY <2>1, <2>2
<1>2. \A n \in 0 .. N - 1 : n \in bounded => n + 1 \in bounded
  <2> SUFFICES ASSUME NEW n \in 0 .. N - 1, NEW b \in Nat, b > 0, Before(list, n, b)
               PROVE  \E c \in Nat : c > 0 /\ Before(list, n + 1, c)
    OBVIOUS
  <2>1. \A k \in 1 .. n + 1 : k \in 1 .. n \/ k = n + 1
    OBVIOUS
  <2>2. CASE list[n + 1].kind # "uninterp"
    <3>1. Before(list, n + 1, b)
      BY <2>1, <2>2 DEF Before
    <3>2. QED
      BY <3>1
  <2>3. CASE list[n + 1].kind = "uninterp"
    <3>1. n + 1 \in 1 .. N
      OBVIOUS
    <3>2. PICK id \in Nat : id = list[n + 1].id
      BY <2>3, <3>1 DEF Elements, IsElement
    <3>3. PICK c \in Nat : c = id + 1 /\ c > 0 /\ id < c
      OBVIOUS
    <3>4. \A k \in 1 .. n + 1 : list[k].kind = "uninterp" => list[k].id \in Nat
      BY <2>1, <3>1 DEF Elements, IsElement
    <3>5. \A k \in 1 .. n : list[k].kind = "uninterp" => list[k].id < id
      BY <2>3, <3>1, <3>2 DEF Elements
    <3>6. \A k \in 1 .. n + 1 : list[k].kind = "uninterp" => list[k].id < c
      BY <2>1, <3>2, <3>3, <3>4, <3>5
    <3>7. Before(list, n + 1, c)
      BY <3>6 DEF Before
    <3>8. QED
      BY <3>3, <3>7
  <2>4. QED
    BY <2>2, <2>3
<1> HIDE DEF bounded
<1>3. N \in bounded
  BY <1>1, <1>2, Induction
<1>4. QED
  BY <1>3 DEF bounded

(* The frame in front of every element of a list is good; before a gate    *)
(* without a rule it knows nothing of that gate.                           *)
LEMMA FrontGood ==
  ASSUME NEW list, NEW N \in Nat, Elements(list, N), NEW n \in 1 .. N
  PROVE  /\ \E b \in Nat : Good(ListMeaning(list, n - 1), b)
         /\ list[n].kind = "uninterp" => Good(ListMeaning(list, n - 1), list[n].id)
<1>1. n - 1 \in 0 .. N /\ n - 1 \in Nat /\ \A k \in 1 .. n - 1 : k \in 1 .. N
  OBVIOUS
<1>2. PICK b \in Nat : b > 0 /\ Before(list, N, b)
  BY ListBound
<1>3. Before(list, n - 1, b)
  BY <1>1, <1>2 DEF Before
<1>4. Good(ListMeaning(list, n - 1), b)
  BY <1>1, <1>2, <1>3, ListGood
<1>5. ASSUME list[n].kind = "uninterp"
      PROVE  Good(ListMeaning(list, n - 1), list[n].id)
  <2>1. PICK id \in Nat : id = list[n].id /\ id > 0
    BY <1>5 DEF Elements, IsElement
  <2>2. Before(list, n - 1, id)
    BY <1>1, <1>5, <2>1 DEF Elements, Before
  <2>3. QED
    BY <1>1, <2>1, <2>2, ListGood
<1>6. QED
  BY <1>4, <1>5

(* What a Pauli, h[m - 1] in front of m, is on the way to n.               *)
WayTo(list, n, m, h) ==
  /\ \A k \in n .. m - 1 : h[k] \in Pauli
  /\ \A k \in n + 1 .. m - 1 : h[k - 1] = Past(list[k], h[k]) /\ Passes(list[k], h[k])

TurnedAt(A, B, k, P, W, b) ==
  /\ WordOfPauli(ListMeaning(B, k).frame, P) = W
  /\ TurnedBy(ListMeaning(A, k), ListMeaning(B, k), W, b)

LEMMA TurnedPast ==
  ASSUME NEW A, NEW B, NEW N \in Nat, Elements(B, N), NEW k \in 1 .. N, A[k] = B[k],
         NEW P \in Pauli, Passes(B[k], P), NEW W, Hermitian(W), NEW b \in 0 .. 3,
         TurnedAt(A, B, k - 1, Past(B[k], P), W, b)
  PROVE  TurnedAt(A, B, k, P, W, b)
<1>1. PICK e : e = B[k]
  OBVIOUS
<1>2. PICK m : m = ListMeaning(B, k - 1)
  OBVIOUS
<1>3. PICK v : v = ListMeaning(A, k - 1)
  OBVIOUS
<1>4. W = WordOfPauli(m.frame, Past(e, P)) /\ TurnedBy(v, m, W, b)
  BY <1>1, <1>2, <1>3 DEF TurnedAt
<1>5. IsElement(e) /\ Passes(e, P)
  BY <1>1 DEF Elements
<1>6. PICK c \in Nat : Good(m, c)
  BY <1>2, FrontGood
<1>7. e.kind = "uninterp" => Good(m, e.id)
  BY <1>1, <1>2, FrontGood
<1>8. ASSUME e.kind = "clifford" PROVE Passed(m, v, e, P, W, b)
  BY <1>4, <1>5, <1>6, <1>8, PassClifford
<1>9. ASSUME e.kind = "rotation" PROVE Passed(m, v, e, P, W, b)
  BY <1>4, <1>5, <1>6, <1>9, PassRotation
<1>10. ASSUME e.kind = "uninterp" PROVE Passed(m, v, e, P, W, b)
  BY <1>4, <1>5, <1>7, <1>10, PassOther
<1>11. Passed(m, v, e, P, W, b)
  BY <1>5, <1>8, <1>9, <1>10 DEF IsElement
<1>12. ListMeaning(B, k) = AfterElement(m, e) /\ ListMeaning(A, k) = AfterElement(v, e)
  BY <1>1, <1>2, <1>3, ListGoesOn
<1>13. QED
  BY <1>11, <1>12 DEF Passed, TurnedAt

LEMMA TurnedAlong ==
  ASSUME NEW A, NEW B, NEW N \in Nat, Elements(B, N), NEW n \in 1 .. N, NEW m \in n + 1 .. N,
         \A k \in n + 1 .. m - 1 : A[k] = B[k], NEW h, WayTo(B, n, m, h),
         NEW W, Hermitian(W), NEW b \in 0 .. 3, TurnedAt(A, B, n, h[n], W, b)
  PROVE  TurnedAt(A, B, m - 1, h[m - 1], W, b)
<1>1. PICK M \in Nat : M = m - 1 - n
  OBVIOUS
<1> DEFINE turned == {i \in 0 .. M : TurnedAt(A, B, n + i, h[n + i], W, b)}
<1>2. 0 \in turned
  <2>1. n + 0 = n
    OBVIOUS
  <2>2. QED
    BY <2>1
<1>3. \A i \in 0 .. M - 1 : i \in turned => i + 1 \in turned
  <2> SUFFICES ASSUME NEW i \in 0 .. M - 1, TurnedAt(A, B, n + i, h[n + i], W, b)
               PROVE  TurnedAt(A, B, n + (i + 1), h[n + (i + 1)], W, b)
    OBVIOUS
  <2>1. PICK k \in 1 .. N : k = n + (i + 1) /\ k - 1 = n + i /\ k \in n + 1 .. m - 1 /\ k \in n .. m - 1
    BY <1>1
  <2>2. A[k] = B[k] /\ h[k] \in Pauli /\ Passes(B[k], h[k]) /\ h[k - 1] = Past(B[k], h[k])
    BY <2>1 DEF WayTo
  <2>3. TurnedAt(A, B, k - 1, Past(B[k], h[k]), W, b)
    BY <2>1, <2>2
  <2>4. TurnedAt(A, B, k, h[k], W, b)
    BY <2>2, <2>3, TurnedPast
  <2>5. QED
    BY <2>1, <2>4
<1> HIDE DEF turned
<1>4. M \in turned
  BY <1>2, <1>3, Induction
<1>5. n + M = m - 1
  BY <1>1
<1>6. QED
  BY <1>4, <1>5 DEF turned

(* The rotation that is deleted, about P, is a rotation about the Pauli of *)
(* the one that it is merged with, by b.                                   *)
MergedBy(R, P, a, b) == (R = P /\ b = a) \/ (R = Minus(P) /\ b = (4 - a) % 4)

LEMMA MergeStarts ==
  ASSUME NEW A, NEW B, NEW N \in Nat, Elements(B, N), NEW n \in 1 .. N,
         \A k \in 1 .. n - 1 : A[k] = B[k],
         A[n].kind = "rotation", B[n].kind = "rotation", NEW P, A[n].pauli = P, B[n].pauli = P,
         B[n].theta = 0, NEW a \in 0 .. 3, A[n].theta = a,
         NEW R, NEW b \in 0 .. 3, MergedBy(R, P, a, b)
  PROVE  \E W : Hermitian(W) /\ TurnedAt(A, B, n, R, W, b)
<1>1. PICK m : m = ListMeaning(B, n - 1)
  OBVIOUS
<1>2. PICK c \in Nat : Good(m, c)
  BY <1>1, FrontGood
<1>3. PICK f : f = m.frame
  OBVIOUS
<1>4. Canonical(f) /\ f \in Frames
  BY <1>2, <1>3 DEF Good, GoodFrame, Canonical
<1>5. IsElement(B[n]) /\ Signed(P) /\ P \in Pauli
  BY DEF Elements, IsElement, Signed
<1>6. PICK V : V = WordOfPauli(f, P)
  OBVIOUS
<1>7. Hermitian(V) /\ V \in Words
  BY <1>4, <1>5, <1>6 DEF Signed, Hermitian
<1>8. ListMeaning(A, n - 1) = m
  <2>1. n - 1 \in Nat
    OBVIOUS
  <2>2. QED
    BY <1>1, <2>1, ListsTheSame
<1>9. ListMeaning(B, n) = [frame |-> f, events |-> m.events]
  <2>1. ListMeaning(B, n) = AfterElement(m, B[n])
    BY <1>1, ListGoesOn
  <2>2. AfterElement(m, B[n]) = [frame |-> RotatedFrame(f, V, 0), events |-> m.events]
    BY <1>2, <1>3, <1>6, AfterRotation
  <2>3. RotatedFrame(f, V, 0) = f
    BY <1>4, <1>7, NoRotationFrame
  <2>4. QED
    BY <2>1, <2>2, <2>3
<1>10. ListMeaning(A, n) = [frame |-> RotatedFrame(f, V, a), events |-> m.events]
  <2>1. ListMeaning(A, n) = AfterElement(m, A[n])
    BY <1>8, ListGoesOn
  <2>2. AfterElement(m, A[n]) = [frame |-> RotatedFrame(f, V, a), events |-> m.events]
    BY <1>2, <1>3, <1>6, AfterRotation
  <2>3. QED
    BY <2>1, <2>2
<1>11. CASE R = P /\ b = a
  <2>1. WordOfPauli(ListMeaning(B, n).frame, R) = V
    BY <1>6, <1>9, <1>11
  <2>2. TurnedBy(ListMeaning(A, n), ListMeaning(B, n), V, b)
    BY <1>9, <1>10, <1>11 DEF TurnedBy
  <2>3. QED
    BY <1>7, <2>1, <2>2 DEF TurnedAt
<1>12. CASE R = Minus(P) /\ b = (4 - a) % 4
  <2>1. PICK W : W = TimesI(V, 2)
    OBVIOUS
  <2>2. PICK k \in 0 .. 3 : k = 2
    OBVIOUS
  <2>3. WordOfPauli(f, R) = W
    BY <1>4, <1>5, <1>6, <1>12, <2>1, <2>2, WordPhase DEF Minus
  <2>4. Hermitian(W)
    BY <1>7, <2>1, RotatedBack
  <2>5. (4 - b) % 4 = a
    <3>1. \A x \in 0 .. 3 : (4 - ((4 - x) % 4)) % 4 = x
      OBVIOUS
    <3>2. QED
      BY <1>12, <3>1
  <2>6. ASSUME NEW w \in Words PROVE Rotated(W, b, w) = Rotated(V, a, w)
    BY <1>7, <2>1, <2>5, RotatedBack
  <2>7. \A q \in Names : f[q].x \in Words /\ f[q].z \in Words
    BY <1>4 DEF Frames
  <2>8. RotatedFrame(f, W, b) = RotatedFrame(f, V, a)
    BY <2>6, <2>7 DEF RotatedFrame
  <2>9. TurnedBy(ListMeaning(A, n), ListMeaning(B, n), W, b)
    BY <1>9, <1>10, <2>8 DEF TurnedBy
  <2>10. WordOfPauli(ListMeaning(B, n).frame, R) = W
    BY <1>9, <2>3
  <2>11. QED
    BY <2>4, <2>9, <2>10 DEF TurnedAt
<1>13. QED
  BY <1>11, <1>12 DEF MergedBy

MergesAt(A, B, N, m, R, r, b, W) ==
  /\ N \in Nat /\ Elements(B, N) /\ m \in 1 .. N /\ R \in Pauli /\ r \in 0 .. 3 /\ b \in 0 .. 3
  /\ A[m].kind = "rotation" /\ B[m].kind = "rotation" /\ A[m].pauli = R /\ B[m].pauli = R
  /\ A[m].theta = r /\ B[m].theta = (r + b) % 4
  /\ TurnedAt(A, B, m - 1, R, W, b) /\ Hermitian(W)

LEMMA MergeEnds ==
  ASSUME NEW A, NEW B, NEW N, NEW m, NEW R, NEW r, NEW b, NEW W, MergesAt(A, B, N, m, R, r, b, W)
  PROVE  ListMeaning(A, m) = ListMeaning(B, m)
<1> USE DEF MergesAt
<1>1. PICK s : s = ListMeaning(B, m - 1)
  OBVIOUS
<1>2. PICK v : v = ListMeaning(A, m - 1)
  OBVIOUS
<1>3. PICK c \in Nat : Good(s, c)
  BY <1>1, FrontGood
<1>4. PICK f : f = s.frame
  OBVIOUS
<1>5. W = WordOfPauli(f, R) /\ TurnedBy(v, s, W, b)
  BY <1>1, <1>2, <1>4 DEF TurnedAt
<1>6. /\ Good(v, c) /\ v.frame = RotatedFrame(f, W, b) /\ v.events = s.events
      /\ Canonical(f) /\ W \in Words
  BY <1>3, <1>4, <1>5, TurnedGood
<1>7. f \in Frames /\ \A q \in Names : f[q].x \in Words /\ f[q].z \in Words
  BY <1>6 DEF Canonical, Frames
<1>8. ListMeaning(B, m) = [frame |-> RotatedFrame(f, W, (r + b) % 4), events |-> s.events]
  <2>1. ListMeaning(B, m) = AfterElement(s, B[m])
    BY <1>1, ListGoesOn
  <2>2. QED
    BY <1>3, <1>4, <1>5, <2>1, AfterRotation
<1>9. Rotated(W, b, W) = W
  <2>1. PICK n \in 0 .. 3 : n = 0
    OBVIOUS
  <2>2. ~AntiCommute(W, W)
    BY <1>6, <2>1, AntiFacts
  <2>3. QED
    BY <1>6, <2>2, RotatedCases
<1>10. WordOfPauli(v.frame, R) = W
  BY <1>5, <1>6, <1>7, <1>9, WordOfRotated
<1>11. ListMeaning(A, m) = [frame |-> RotatedFrame(RotatedFrame(f, W, b), W, r), events |-> s.events]
  <2>1. ListMeaning(A, m) = AfterElement(v, A[m])
    BY <1>2, ListGoesOn
  <2>2. QED
    BY <1>6, <1>10, <2>1, AfterRotation
<1>12. RotatedFrame(RotatedFrame(f, W, b), W, r) = RotatedFrame(f, W, (r + b) % 4)
  <2>1. \A w \in Words : Rotated(W, r, Rotated(W, b, w)) = Rotated(W, (r + b) % 4, w)
    BY RotatedTwice
  <2>2. QED
    BY <1>7, <2>1 DEF RotatedFrame
<1>13. QED
  BY <1>8, <1>11, <1>12

LEMMA SameFrom ==
  ASSUME NEW A, NEW B, NEW m \in Nat, NEW N \in Nat, m <= N, ListMeaning(A, m) = ListMeaning(B, m),
         \A k \in m + 1 .. N : A[k] = B[k]
  PROVE  ListMeaning(A, N) = ListMeaning(B, N)
<1>1. PICK M \in Nat : M = N - m
  OBVIOUS
<1> DEFINE same == {i \in 0 .. M : ListMeaning(A, m + i) = ListMeaning(B, m + i)}
<1>2. 0 \in same
  <2>1. m + 0 = m
    OBVIOUS
  <2>2. QED
    BY <2>1
<1>3. \A i \in 0 .. M - 1 : i \in same => i + 1 \in same
  <2> SUFFICES ASSUME NEW i \in 0 .. M - 1, ListMeaning(A, m + i) = ListMeaning(B, m + i)
               PROVE  ListMeaning(A, m + (i + 1)) = ListMeaning(B, m + (i + 1))
    OBVIOUS
  <2>1. PICK k \in Nat : k = m + (i + 1) /\ k > 0 /\ k - 1 = m + i /\ k \in m + 1 .. N
    BY <1>1
  <2>2. QED
    BY <2>1, ListGoesOn
<1> HIDE DEF same
<1>4. M \in same
  BY <1>2, <1>3, Induction
<1>5. m + M = N
  BY <1>1
<1>6. QED
  BY <1>4, <1>5 DEF same

(* Two rotations are merged into the later one.                            *)
MergesLists(A, B, N, n, m, h, b) ==
  /\ N \in Nat /\ Elements(B, N) /\ n \in 1 .. N /\ m \in n + 1 .. N
  /\ \A k \in 1 .. N : k \notin {n, m} => A[k] = B[k]
  /\ A[n].kind = "rotation" /\ B[n].kind = "rotation" /\ A[n].pauli = B[n].pauli /\ B[n].theta = 0
  /\ A[m].kind = "rotation" /\ B[m].kind = "rotation" /\ A[m].pauli = B[m].pauli
  /\ A[n].theta \in 0 .. 3 /\ A[m].theta \in 0 .. 3
  /\ WayTo(B, n, m, h) /\ h[m - 1] = B[m].pauli
  /\ b \in 0 .. 3 /\ MergedBy(h[n], B[n].pauli, A[n].theta, b)
  /\ B[m].theta = (A[m].theta + b) % 4

LEMMA MergedLists ==
  ASSUME NEW A, NEW B, NEW N, NEW n, NEW m, NEW h, NEW b, MergesLists(A, B, N, n, m, h, b)
  PROVE  ListMeaning(A, N) = ListMeaning(B, N)
<1> USE DEF MergesLists
<1>1. /\ m \in 1 .. N /\ \A k \in 1 .. n - 1 : k \in 1 .. N /\ k \notin {n, m}
      /\ \A k \in n + 1 .. m - 1 : k \in 1 .. N /\ k \notin {n, m}
      /\ \A k \in m + 1 .. N : k \in 1 .. N /\ k \notin {n, m}
      /\ m - 1 \in n .. m - 1
  OBVIOUS
<1>2. PICK a \in 0 .. 3 : a = A[n].theta
  OBVIOUS
<1>3. PICK W : Hermitian(W) /\ TurnedAt(A, B, n, h[n], W, b)
  BY <1>1, <1>2, MergeStarts
<1>4. TurnedAt(A, B, m - 1, h[m - 1], W, b)
  BY <1>1, <1>3, TurnedAlong
<1>5. PICK r \in 0 .. 3 : r = A[m].theta
  OBVIOUS
<1>6. PICK R \in Pauli : R = h[m - 1]
  BY <1>1 DEF WayTo
<1>7. ListMeaning(A, m) = ListMeaning(B, m)
  <2>1. A[m].kind = "rotation" /\ B[m].kind = "rotation" /\ A[m].pauli = R /\ B[m].pauli = R
    BY <1>6
  <2>2. A[m].theta = r /\ B[m].theta = (r + b) % 4
    BY <1>5
  <2>3. TurnedAt(A, B, m - 1, R, W, b)
    BY <1>4, <1>6
  <2>4. m \in 1 .. N /\ Hermitian(W)
    BY <1>1, <1>3
  <2>5. MergesAt(A, B, N, m, R, r, b, W)
    BY <1>5, <1>6, <2>1, <2>2, <2>3, <2>4 DEF MergesAt
  <2>6. QED
    BY <2>5, MergeEnds
<1>8. QED
  BY <1>1, <1>7, SameFrom

-----------------------------------------------------------------------------
(* A rotation by 0 can be left out of a list.                              *)
LEMMA RotationByNothing ==
  ASSUME NEW list, NEW N \in Nat, Elements(list, N), NEW n \in 1 .. N,
         list[n].kind = "rotation", list[n].theta = 0
  PROVE  ListMeaning(list, n) = ListMeaning(list, n - 1)
<1>1. PICK m : m = ListMeaning(list, n - 1)
  OBVIOUS
<1>2. PICK c \in Nat : Good(m, c)
  BY <1>1, FrontGood
<1>3. PICK f : f = m.frame
  OBVIOUS
<1>4. Canonical(f) /\ f \in Frames /\ m = [frame |-> f, events |-> m.events]
  BY <1>2, <1>3 DEF Good, GoodFrame, Canonical
<1>5. PICK P : P = list[n].pauli
  OBVIOUS
<1>6. Signed(P)
  BY <1>5 DEF Elements, IsElement
<1>7. WordOfPauli(f, P) \in Words
  BY <1>4, <1>6 DEF Signed, Hermitian
<1>8. AfterElement(m, list[n]) = [frame |-> RotatedFrame(f, WordOfPauli(f, P), 0), events |-> m.events]
  BY <1>2, <1>3, <1>5, AfterRotation
<1>9. ListMeaning(list, n) = AfterElement(m, list[n])
  BY <1>1, ListGoesOn
<1>10. RotatedFrame(f, WordOfPauli(f, P), 0) = f
  BY <1>4, <1>7, NoRotationFrame
<1>11. QED
  BY <1>1, <1>4, <1>8, <1>9, <1>10

IsWithout(other, list, n, N) ==
  \A k \in 1 .. N - 1 : other[k] = IF k < n THEN list[k] ELSE list[k + 1]

LEMMA ErasedMeaning ==
  ASSUME NEW list, NEW N \in Nat, Elements(list, N), NEW n \in 1 .. N,
         list[n].kind = "rotation", list[n].theta = 0, NEW other, IsWithout(other, list, n, N)
  PROVE  ListMeaning(other, N - 1) = ListMeaning(list, N)
<1>1. PICK M \in Nat : M = N - n
  OBVIOUS
<1>2. PICK l \in Nat : l = n - 1
  OBVIOUS
<1> DEFINE same == {i \in 0 .. M : ListMeaning(other, l + i) = ListMeaning(list, n + i)}
<1>3. 0 \in same
  <2>1. ListMeaning(list, n) = ListMeaning(list, l)
    BY <1>2, RotationByNothing
  <2>2. \A k \in 1 .. l : k \in 1 .. N - 1 /\ k < n
    BY <1>2
  <2>3. \A k \in 1 .. l : other[k] = list[k]
    BY <2>2 DEF IsWithout
  <2>4. ListMeaning(other, l) = ListMeaning(list, l)
    BY <2>3, ListsTheSame
  <2>5. l + 0 = l /\ n + 0 = n
    OBVIOUS
  <2>6. QED
    BY <2>1, <2>4, <2>5
<1>4. \A i \in 0 .. M - 1 : i \in same => i + 1 \in same
  <2> SUFFICES ASSUME NEW i \in 0 .. M - 1, ListMeaning(other, l + i) = ListMeaning(list, n + i)
               PROVE  ListMeaning(other, l + (i + 1)) = ListMeaning(list, n + (i + 1))
    OBVIOUS
  <2>1. PICK k \in Nat : k = l + (i + 1) /\ k > 0 /\ k - 1 = l + i /\ k \in 1 .. N - 1 /\ ~(k < n)
    BY <1>1, <1>2
  <2>2. PICK j \in Nat : j = n + (i + 1) /\ j > 0 /\ j - 1 = n + i /\ j = k + 1
    BY <1>2, <2>1
  <2>3. other[k] = list[j]
    BY <2>1, <2>2 DEF IsWithout
  <2>4. ListMeaning(other, k) = AfterElement(ListMeaning(other, k - 1), other[k])
    BY <2>1, ListGoesOn
  <2>5. ListMeaning(list, j) = AfterElement(ListMeaning(list, j - 1), list[j])
    BY <2>2, ListGoesOn
  <2>6. QED
    BY <2>1, <2>2, <2>3, <2>4, <2>5
<1> HIDE DEF same
<1>5. M \in same
  <2>1. \A i \in 0 .. M : i \in same
    BY <1>3, <1>4, Induction
  <2>2. QED
    BY <2>1
<1>6. l + M = N - 1 /\ n + M = N
  BY <1>1, <1>2
<1>7. QED
  BY <1>5, <1>6 DEF same

LEMMA ErasedElements ==
  ASSUME NEW list, NEW N \in Nat, Elements(list, N), NEW n \in 1 .. N, NEW other, IsWithout(other, list, n, N)
  PROVE  Elements(other, N - 1)
<1> SUFFICES ASSUME NEW k \in 1 .. N - 1
             PROVE  /\ IsElement(other[k])
                    /\ \A i \in 1 .. k - 1 :
                         other[i].kind = "uninterp" /\ other[k].kind = "uninterp" => other[i].id < other[k].id
  BY DEF Elements
<1>1. PICK j \in 1 .. N : other[k] = list[j] /\ j = IF k < n THEN k ELSE k + 1
  <2>1. k \in 1 .. N /\ k + 1 \in 1 .. N
    OBVIOUS
  <2>2. QED
    BY <2>1 DEF IsWithout
<1>2. IsElement(other[k])
  BY <1>1 DEF Elements
<1>3. ASSUME NEW i \in 1 .. k - 1, other[i].kind = "uninterp", other[k].kind = "uninterp"
      PROVE  other[i].id < other[k].id
  <2>1. i \in 1 .. N - 1 /\ (IF i < n THEN i ELSE i + 1) \in 1 .. j - 1
    BY <1>1
  <2>2. PICK l \in 1 .. j - 1 : l = IF i < n THEN i ELSE i + 1
    BY <2>1
  <2>3. other[i] = list[l]
    BY <2>1, <2>2 DEF IsWithout
  <2>4. QED
    BY <1>1, <1>3, <2>3 DEF Elements
<1>4. QED
  BY <1>2, <1>3

-----------------------------------------------------------------------------
(* An element with another angle                                           *)
LEMMA TurnedElement ==
  ASSUME NEW e, IsElement(e), NEW a, e.kind = "rotation" => a[e.id] \in {Kept} \cup 0 .. 3
  PROVE  /\ IsElement(Turned(e, a)) /\ Turned(e, a).kind = e.kind
         /\ e.kind # "rotation" => Turned(e, a) = e
         /\ e.kind = "rotation" =>
              /\ Turned(e, a).pauli = e.pauli
              /\ Turned(e, a).theta = IF a[e.id] = Kept THEN e.theta ELSE a[e.id]
<1>1. CASE e.kind = "rotation" /\ a[e.id] # Kept
  <2>1. PICK t : t = Rotation(e.id, a[e.id], e.pauli)
    OBVIOUS
  <2>2. Turned(e, a) = t
    BY <1>1, <2>1 DEF Turned
  <2>3. t.kind = "rotation" /\ t.id = e.id /\ t.theta = a[e.id] /\ t.pauli = e.pauli
    BY <2>1 DEF Rotation
  <2>4. IsElement(t)
    BY <1>1, <2>3 DEF IsElement
  <2>5. QED
    BY <1>1, <2>2, <2>3, <2>4
<1>2. CASE ~(e.kind = "rotation" /\ a[e.id] # Kept)
  <2>1. Turned(e, a) = e
    BY <1>2 DEF Turned
  <2>2. QED
    BY <1>2, <2>1
<1>3. QED
  BY <1>1, <1>2

LEMMA TurnedPasses ==
  ASSUME NEW e, IsElement(e), NEW a, e.kind = "rotation" => a[e.id] \in {Kept} \cup 0 .. 3, NEW P
  PROVE  Past(Turned(e, a), P) = Past(e, P) /\ (Passes(Turned(e, a), P) <=> Passes(e, P))
BY TurnedElement DEF Past, Passes

AdjustedOf(B, list, N, a) ==
  /\ Elements(B, N)
  /\ \A k \in 1 .. N :
       /\ B[k] = Turned(list[k], a)
       /\ B[k].kind = list[k].kind
       /\ list[k].kind = "rotation" =>
            /\ B[k].pauli = list[k].pauli
            /\ B[k].theta = IF a[list[k].id] = Kept THEN list[k].theta ELSE a[list[k].id]

LEMMA AdjustedElements ==
  ASSUME NEW p, NEW d, NEW list, Len(list) \in Nat, Elements(list, Len(list)), InScope(p, list, d),
         NEW a \in Angles(p)
  PROVE  /\ AdjustedOf(Adjusted(list, a), list, Len(list), a)
         /\ \A k \in 1 .. Len(list) : list[k].kind = "rotation" => a[list[k].id] \in {Kept} \cup 0 .. 3
<1>1. PICK N \in Nat : N = Len(list)
  OBVIOUS
<1>2. \A k \in 1 .. N : list[k].kind = "rotation" => a[list[k].id] \in {Kept} \cup 0 .. 3
  BY <1>1 DEF Angles, InScope
<1>3. PICK B : B = Adjusted(list, a)
  OBVIOUS
<1>4. \A k \in 1 .. N : B[k] = Turned(list[k], a) /\ IsElement(list[k])
  BY <1>1, <1>3 DEF Adjusted, Elements
<1>5. ASSUME NEW k \in 1 .. N
      PROVE  /\ IsElement(B[k]) /\ B[k].kind = list[k].kind
             /\ list[k].kind # "rotation" => B[k] = list[k]
             /\ list[k].kind = "rotation" =>
                  /\ B[k].pauli = list[k].pauli
                  /\ B[k].theta = IF a[list[k].id] = Kept THEN list[k].theta ELSE a[list[k].id]
  <2>1. PICK e : e = list[k]
    OBVIOUS
  <2>2. IsElement(e) /\ (e.kind = "rotation" => a[e.id] \in {Kept} \cup 0 .. 3) /\ B[k] = Turned(e, a)
    BY <1>2, <1>4, <2>1
  <2>3. QED
    BY <2>1, <2>2, TurnedElement
<1>6. Elements(B, N)
  <2>1. \A k \in 1 .. N : \A i \in 1 .. k - 1 : i \in 1 .. N
    OBVIOUS
  <2>2. \A k \in 1 .. N : B[k].kind = "uninterp" => B[k] = list[k]
    BY <1>5
  <2>3. Elements(list, N)
    BY <1>1
  <2>4. QED
    BY <1>5, <2>1, <2>2, <2>3 DEF Elements
<1>7. QED
  BY <1>1, <1>2, <1>3, <1>4, <1>5, <1>6 DEF AdjustedOf

-----------------------------------------------------------------------------
(* What is erased has the angle 0.                                         *)
LEMMA FoldErased ==
  ASSUME NEW p, NEW d, NEW list, IsList(list), Elements(list, Len(list)), InScope(p, list, d),
         NEW before, FoldAll(p, list, before, d), NEW n \in 1 .. Len(list), list[n].kind = "rotation",
         NEW after, after[list[n].id] = 0, \A k \in 1 .. Len(p) : before[k] = 0 => after[k] = 0
  PROVE  /\ Elements(RemoveAt(list, n), Len(RemoveAt(list, n)))
         /\ FoldAll(p, RemoveAt(list, n), after, d)
<1>1. PICK N \in Nat : N = Len(list)
  BY RangeOfList
<1>2. PICK other : other = RemoveAt(list, n)
  OBVIOUS
<1>3. Len(other) = N - 1 /\ N - 1 \in Nat /\ IsWithout(other, list, n, N)
  <2>1. Len(other) = N - 1 /\ \A k \in 1 .. N - 1 : other[k] = IF k < n THEN list[k] ELSE list[k + 1]
    BY <1>1, <1>2, RemoveAtList
  <2>2. N - 1 \in Nat
    BY <1>1
  <2>3. QED
    BY <2>1, <2>2 DEF IsWithout
<1>4. Elements(other, N - 1)
  BY <1>1, <1>3, ErasedElements
<1>5. ASSUME NEW a \in Angles(p), KeepsDeleted(p, after, a)
      PROVE  ListMeaning(Adjusted(other, a), N - 1) = Meaning(Rewritten(p, a), d, Len(p))
  <2>1. PICK A : A = Adjusted(list, a)
    OBVIOUS
  <2>2. PICK B : B = Adjusted(other, a)
    OBVIOUS
  <2>3. AdjustedOf(A, list, N, a)
    BY <1>1, <2>1, AdjustedElements
  <2>4. IsWithout(B, A, n, N)
    <3> SUFFICES ASSUME NEW k \in 1 .. N - 1
                 PROVE  B[k] = IF k < n THEN A[k] ELSE A[k + 1]
      BY DEF IsWithout
    <3>1. B[k] = Turned(other[k], a)
      BY <1>3, <2>2 DEF Adjusted
    <3>2. k \in 1 .. N /\ k + 1 \in 1 .. N
      BY <1>1
    <3>3. A[k] = Turned(list[k], a) /\ A[k + 1] = Turned(list[k + 1], a)
      BY <1>1, <2>1, <3>2 DEF Adjusted
    <3>4. QED
      BY <1>3, <3>1, <3>3 DEF IsWithout
  <2>5. n \in 1 .. N /\ A[n].kind = "rotation" /\ A[n].theta = 0
    <3>1. list[n].id \in 1 .. Len(p)
      BY DEF InScope
    <3>2. a[list[n].id] = 0
      BY <1>5, <3>1 DEF KeepsDeleted
    <3>3. Kept # 0
      BY DEF Kept
    <3>4. QED
      BY <1>1, <2>3, <3>2, <3>3 DEF AdjustedOf
  <2>6. ListMeaning(B, N - 1) = ListMeaning(A, N)
    BY <1>1, <2>3, <2>4, <2>5, ErasedMeaning DEF AdjustedOf
  <2>7. KeepsDeleted(p, before, a)
    BY <1>5 DEF KeepsDeleted
  <2>8. ListMeaning(A, N) = Meaning(Rewritten(p, a), d, Len(p))
    BY <1>1, <2>1, <2>7 DEF FoldAll
  <2>9. QED
    BY <2>2, <2>6, <2>8
<1>6. QED
  BY <1>2, <1>3, <1>4, <1>5 DEF FoldAll

LEMMA FoldLess ==
  ASSUME NEW p, NEW d, NEW list, NEW before, FoldAll(p, list, before, d),
         NEW after, \A k \in 1 .. Len(p) : before[k] = 0 => after[k] = 0
  PROVE  FoldAll(p, list, after, d)
BY DEF FoldAll, KeepsDeleted

(* A merge leaves the meaning of the program.                              *)
MergesInto(list, n, m, h, b, before, after) ==
  /\ n \in 1 .. Len(list) /\ m \in n + 1 .. Len(list)
  /\ list[n].kind = "rotation" /\ list[m].kind = "rotation"
  /\ WayTo(list, n, m, h) /\ h[m - 1] = list[m].pauli
  /\ b \in 0 .. 3 /\ MergedBy(h[n], list[n].pauli, list[n].theta, b)
  /\ before[list[n].id] = Kept /\ before[list[m].id] = Kept
  /\ after[list[n].id] = 0
  /\ (IF after[list[m].id] = Kept THEN list[m].theta ELSE after[list[m].id]) = (list[m].theta + b) % 4

LEMMA MergedMeaning ==
  ASSUME NEW p, NEW d, NEW list, IsList(list), Elements(list, Len(list)), InScope(p, list, d),
         \A j, k \in 1 .. Len(list) :
           list[j].kind = "rotation" /\ list[k].kind = "rotation" /\ list[j].id = list[k].id => j = k,
         NEW before \in Angles(p), FoldAll(p, list, before, d), NEW after \in Angles(p),
         \A k \in 1 .. Len(p) : before[k] = 0 => after[k] = 0,
         NEW n, NEW m, NEW h, NEW b, MergesInto(list, n, m, h, b, before, after),
         \A k \in 1 .. Len(p) : k \notin {list[n].id, list[m].id} => after[k] = before[k]
  PROVE  Meaning(Rewritten(p, after), d, Len(p)) = Meaning(Rewritten(p, before), d, Len(p))
<1>1. PICK N \in Nat : N = Len(list)
  BY RangeOfList
<1>2. PICK A : A = Adjusted(list, before)
  OBVIOUS
<1>3. PICK B : B = Adjusted(list, after)
  OBVIOUS
<1>4. AdjustedOf(A, list, N, before)
  BY <1>1, <1>2, AdjustedElements
<1>5. AdjustedOf(B, list, N, after)
  BY <1>1, <1>3, AdjustedElements
<1>6. /\ \A k \in 1 .. N : list[k].kind = "rotation" => after[list[k].id] \in {Kept} \cup 0 .. 3
      /\ Elements(list, N)
  BY <1>1, AdjustedElements
<1>7. /\ n \in 1 .. N /\ m \in n + 1 .. N /\ m \in 1 .. N /\ n # m
      /\ list[n].kind = "rotation" /\ list[m].kind = "rotation"
  BY <1>1 DEF MergesInto
<1>8. ASSUME NEW k \in 1 .. N, k \notin {n, m}
      PROVE  A[k] = B[k]
  <2>1. A[k] = Turned(list[k], before) /\ B[k] = Turned(list[k], after)
    BY <1>4, <1>5 DEF AdjustedOf
  <2>2. CASE list[k].kind # "rotation"
    BY <2>1, <2>2 DEF Turned
  <2>3. CASE list[k].kind = "rotation"
    <3>1. list[k].id # list[n].id /\ list[k].id # list[m].id
      BY <1>1, <1>7, <1>8, <2>3
    <3>2. list[k].id \in 1 .. Len(p)
      BY <1>1, <2>3 DEF InScope
    <3>3. after[list[k].id] = before[list[k].id]
      BY <3>1, <3>2
    <3>4. QED
      BY <2>1, <3>3 DEF Turned
  <2>4. QED
    BY <2>2, <2>3
<1>9. /\ A[n].kind = "rotation" /\ B[n].kind = "rotation" /\ A[n].pauli = list[n].pauli
      /\ B[n].pauli = list[n].pauli /\ A[n].theta = list[n].theta /\ B[n].theta = 0
  <2>1. before[list[n].id] = Kept /\ after[list[n].id] = 0 /\ Kept # 0
    BY DEF MergesInto, Kept
  <2>2. QED
    BY <1>4, <1>5, <1>7, <2>1 DEF AdjustedOf
<1>10. /\ A[m].kind = "rotation" /\ B[m].kind = "rotation" /\ A[m].pauli = list[m].pauli
       /\ B[m].pauli = list[m].pauli /\ A[m].theta = list[m].theta
       /\ B[m].theta = (list[m].theta + b) % 4
  <2>1. /\ before[list[m].id] = Kept
        /\ (IF after[list[m].id] = Kept THEN list[m].theta ELSE after[list[m].id]) = (list[m].theta + b) % 4
    BY DEF MergesInto
  <2>2. QED
    BY <1>4, <1>5, <1>7, <2>1 DEF AdjustedOf
<1>11. list[n].theta \in 0 .. 3 /\ list[m].theta \in 0 .. 3
  BY <1>6, <1>7 DEF Elements, IsElement
<1>12. /\ WayTo(list, n, m, h) /\ h[m - 1] = list[m].pauli
       /\ b \in 0 .. 3 /\ MergedBy(h[n], list[n].pauli, list[n].theta, b)
  BY DEF MergesInto
<1>13. WayTo(B, n, m, h)
  <2>1. \A k \in n + 1 .. m - 1 : k \in 1 .. N
    BY <1>7
  <2>2. ASSUME NEW k \in n + 1 .. m - 1
        PROVE  h[k - 1] = Past(B[k], h[k]) /\ Passes(B[k], h[k])
    <3>1. PICK e : e = list[k]
      OBVIOUS
    <3>2. IsElement(e) /\ (e.kind = "rotation" => after[e.id] \in {Kept} \cup 0 .. 3)
      BY <1>6, <2>1, <3>1 DEF Elements
    <3>3. B[k] = Turned(e, after)
      BY <1>5, <2>1, <3>1 DEF AdjustedOf
    <3>4. h[k - 1] = Past(e, h[k]) /\ Passes(e, h[k])
      BY <1>12, <3>1 DEF WayTo
    <3>5. QED
      BY <3>2, <3>3, <3>4, TurnedPasses
  <2>3. QED
    BY <1>12, <2>2 DEF WayTo
<1>14. ListMeaning(A, N) = ListMeaning(B, N)
  <2>1. Elements(B, N)
    BY <1>5 DEF AdjustedOf
  <2>2. /\ A[n].pauli = B[n].pauli /\ A[m].pauli = B[m].pauli /\ h[m - 1] = B[m].pauli
        /\ A[n].theta \in 0 .. 3 /\ A[m].theta \in 0 .. 3 /\ B[n].theta = 0
        /\ B[m].theta = (A[m].theta + b) % 4
    BY <1>9, <1>10, <1>11, <1>12
  <2>3. MergedBy(h[n], B[n].pauli, A[n].theta, b)
    BY <1>9, <1>12
  <2>4. MergesLists(A, B, N, n, m, h, b)
    BY <1>1, <1>7, <1>8, <1>9, <1>10, <1>12, <1>13, <2>1, <2>2, <2>3 DEF MergesLists
  <2>5. QED
    BY <2>4, MergedLists
<1>15. ListMeaning(A, N) = Meaning(Rewritten(p, before), d, Len(p))
  BY <1>1, <1>2 DEF FoldAll, KeepsDeleted
<1>16. ListMeaning(B, N) = Meaning(Rewritten(p, after), d, Len(p))
  BY <1>1, <1>3 DEF FoldAll, KeepsDeleted
<1>17. QED
  BY <1>14, <1>15, <1>16

-----------------------------------------------------------------------------
LEMMA MeaningElsewhere ==
  ASSUME NEW p, WellFormed(p), NEW a \in Angles(p), NEW b \in Angles(p), NEW d,
         \A n \in 1 .. Len(p) : Scope(p, n) = d => a[n] = b[n]
  PROVE  Meaning(Rewritten(p, a), d, Len(p)) = Meaning(Rewritten(p, b), d, Len(p))
<1>1. PICK N \in Nat : N = Len(p)
  BY WellFormedList
<1>2. PICK q : q = Rewritten(p, a)
  OBVIOUS
<1>3. PICK r : r = Rewritten(p, b)
  OBVIOUS
<1> DEFINE same == {n \in 0 .. N : Meaning(q, d, n) = Meaning(r, d, n)}
<1>4. 0 \in same
  BY MeaningStarts
<1>5. \A n \in 0 .. N - 1 : n \in same => n + 1 \in same
  <2> SUFFICES ASSUME NEW m \in 0 .. N - 1, Meaning(q, d, m) = Meaning(r, d, m)
               PROVE  Meaning(q, d, m + 1) = Meaning(r, d, m + 1)
    OBVIOUS
  <2>1. PICK n \in Nat : n = m + 1 /\ n > 0 /\ n - 1 = m /\ n \in 1 .. N
    OBVIOUS
  <2>2. n \in 1 .. Len(p) /\ n \in 1 .. Len(p) + 1
    BY <1>1, <2>1
  <2>3. Scope(q, n) = Scope(p, n) /\ Scope(r, n) = Scope(p, n)
    BY <1>2, <1>3, <2>2, RewrittenScope
  <2>4. CASE Scope(p, n) # d
    <3>1. Skipped(q, d, n) /\ Skipped(r, d, n)
      BY <2>3, <2>4 DEF Skipped
    <3>2. Meaning(q, d, n) = Meaning(q, d, n - 1) /\ Meaning(r, d, n) = Meaning(r, d, n - 1)
      BY <2>1, <3>1, MeaningGoesOn
    <3>3. QED
      BY <2>1, <3>2
  <2>5. CASE Scope(p, n) = d
    <3>1. a[n] = b[n]
      BY <2>2, <2>5
    <3>2. DOMAIN p = 1 .. Len(p)
      BY WellFormedList
    <3>3. q[n] = r[n]
      BY <1>2, <1>3, <2>2, <3>1, <3>2 DEF Rewritten
    <3>4. Skipped(q, d, n) <=> Skipped(r, d, n)
      BY <2>3, <3>3 DEF Skipped
    <3>5. Meaning(q, d, n) = IF Skipped(q, d, n) THEN Meaning(q, d, n - 1)
                             ELSE AfterStatement(Meaning(q, d, n - 1), q[n])
      BY <2>1, MeaningGoesOn
    <3>6. Meaning(r, d, n) = IF Skipped(r, d, n) THEN Meaning(r, d, n - 1)
                             ELSE AfterStatement(Meaning(r, d, n - 1), r[n])
      BY <2>1, MeaningGoesOn
    <3>7. QED
      BY <2>1, <3>3, <3>4, <3>5, <3>6
  <2>6. QED
    BY <2>4, <2>5
<1> HIDE DEF same
<1>6. \A n \in 0 .. N : n \in same
  BY <1>4, <1>5, Induction
<1>7. N \in same
  BY <1>6
<1>8. QED
  BY <1>1, <1>2, <1>3, <1>7 DEF same

SameMeaning(p, a) ==
  \A d : Meaning(Rewritten(p, a), d, Len(p)) = Meaning(p, d, Len(p))

LEMMA OneScope ==
  ASSUME NEW p, WellFormed(p), NEW before \in Angles(p), NEW after \in Angles(p), NEW d,
         \A n \in 1 .. Len(p) : after[n] = before[n] \/ Scope(p, n) = d,
         Meaning(Rewritten(p, after), d, Len(p)) = Meaning(Rewritten(p, before), d, Len(p)),
         SameMeaning(p, before)
  PROVE  SameMeaning(p, after)
<1> SUFFICES ASSUME NEW c PROVE Meaning(Rewritten(p, after), c, Len(p)) = Meaning(p, c, Len(p))
  BY DEF SameMeaning
<1>1. Meaning(Rewritten(p, before), c, Len(p)) = Meaning(p, c, Len(p))
  BY DEF SameMeaning
<1>2. CASE c = d
  BY <1>1, <1>2
<1>3. CASE c # d
  <2>1. \A n \in 1 .. Len(p) : Scope(p, n) = c => after[n] = before[n]
    BY <1>3
  <2>2. Meaning(Rewritten(p, after), c, Len(p)) = Meaning(Rewritten(p, before), c, Len(p))
    BY <2>1, MeaningElsewhere
  <2>3. QED
    BY <1>1, <2>2
<1>4. QED
  BY <1>2, <1>3

-----------------------------------------------------------------------------
LEMMA PastTypes ==
  ASSUME NEW e, IsElement(e), NEW P \in Pauli
  PROVE  Past(e, P) \in Pauli
BY WordOfConjugate DEF Past, IsElement

LEMMA MovedTypes ==
  ASSUME NEW list, NEW N \in Nat, Elements(list, N), NEW m \in 1 .. N, list[m].kind = "rotation"
  PROVE  \A k \in 0 .. m - 1 : Moved(list, m, k) \in Pauli
<1>1. PICK M \in Nat : M = m - 1
  OBVIOUS
<1> DEFINE typed == {i \in 0 .. M : Moved(list, m, M - i) \in Pauli}
<1>2. 0 \in typed
  <2>1. list[m].pauli \in Pauli
    BY DEF Elements, IsElement, Signed
  <2>2. Moved(list, m, m - 1) = list[m].pauli
    BY MovedStarts
  <2>3. M - 0 = m - 1
    BY <1>1
  <2>4. QED
    BY <2>1, <2>2, <2>3
<1>3. \A i \in 0 .. M - 1 : i \in typed => i + 1 \in typed
  <2> SUFFICES ASSUME NEW i \in 0 .. M - 1, Moved(list, m, M - i) \in Pauli
               PROVE  Moved(list, m, M - (i + 1)) \in Pauli
    OBVIOUS
  <2>1. PICK k \in 1 .. m - 1 : k = M - i /\ k - 1 = M - (i + 1) /\ k \in 1 .. N
    BY <1>1
  <2>2. IsElement(list[k])
    BY <2>1 DEF Elements
  <2>3. Past(list[k], Moved(list, m, k)) \in Pauli
    BY <2>1, <2>2, PastTypes
  <2>4. Moved(list, m, k - 1) = Past(list[k], Moved(list, m, k))
    BY <2>1, MovedGoesOn
  <2>5. QED
    BY <2>1, <2>3, <2>4
<1> HIDE DEF typed
<1>4. \A i \in 0 .. M : i \in typed
  BY <1>2, <1>3, Induction
<1>5. ASSUME NEW k \in 0 .. m - 1 PROVE Moved(list, m, k) \in Pauli
  <2>1. PICK i \in 0 .. M : i = M - k /\ M - i = k
    BY <1>1
  <2>2. i \in typed
    BY <1>4, <2>1
  <2>3. QED
    BY <2>1, <2>2 DEF typed
<1>6. QED
  BY <1>5

-----------------------------------------------------------------------------
(* A rotation was merged into the first element, which is still there: its *)
(* Pauli, g[k] in front of k, is not that of a rotation up to N.           *)
Guards(g, list, N) ==
  /\ \A k \in 1 .. N : g[k] \in Pauli
  /\ UpToSign(g[1], list[1].pauli)
  /\ \A k \in 2 .. N :
       /\ g[k - 1] = Past(list[k], g[k])
       /\ list[k].kind = "rotation" => ~UpToSign(g[k], list[k].pauli)

LEMMA NeverToFirst ==
  ASSUME NEW list, NEW N \in Nat, Elements(list, N), NEW m \in 2 .. N, list[m].kind = "rotation",
         list[1].kind = "rotation", NEW g, Guards(g, list, m),
         UpToSign(Moved(list, m, 1), list[1].pauli)
  PROVE  FALSE
<1>1. PICK M \in Nat : M = m - 2
  OBVIOUS
<1>2. \A k \in 0 .. m - 1 : Moved(list, m, k) \in Pauli
  BY MovedTypes
<1>3. list[1].pauli \in Pauli
  BY DEF Elements, IsElement, Signed
<1> DEFINE agree == {i \in 0 .. M : UpToSign(g[1 + i], Moved(list, m, 1 + i))}
<1>4. 0 \in agree
  <2>1. PICK P \in Pauli : P = g[1]
    BY DEF Guards
  <2>2. PICK Q \in Pauli : Q = Moved(list, m, 1)
    BY <1>2
  <2>3. UpToSign(P, list[1].pauli) /\ UpToSign(list[1].pauli, Q)
    BY <1>3, <2>1, <2>2, Signs DEF Guards
  <2>4. UpToSign(P, Q)
    BY <1>3, <2>3, SignsAgree
  <2>5. 1 + 0 = 1
    OBVIOUS
  <2>6. QED
    BY <2>1, <2>2, <2>4, <2>5
<1>5. \A i \in 0 .. M - 1 : i \in agree => i + 1 \in agree
  <2> SUFFICES ASSUME NEW i \in 0 .. M - 1, UpToSign(g[1 + i], Moved(list, m, 1 + i))
               PROVE  UpToSign(g[1 + (i + 1)], Moved(list, m, 1 + (i + 1)))
    OBVIOUS
  <2>1. PICK k \in 1 .. m - 1 : k = 1 + (i + 1) /\ k - 1 = 1 + i /\ k \in 2 .. m /\ k \in 1 .. N /\ k \in 1 .. m /\ k \in 0 .. m - 1
    BY <1>1
  <2>2. PICK P \in Pauli : P = g[k]
    BY <2>1 DEF Guards
  <2>3. PICK Q \in Pauli : Q = Moved(list, m, k)
    BY <1>2, <2>1
  <2>4. PICK e : e = list[k]
    OBVIOUS
  <2>5. IsElement(e)
    BY <2>1, <2>4 DEF Elements
  <2>6. g[k - 1] = Past(e, P)
    BY <2>1, <2>2, <2>4 DEF Guards
  <2>7. Moved(list, m, k - 1) = Past(e, Q)
    BY <2>1, <2>3, <2>4, MovedGoesOn
  <2>8. UpToSign(Past(e, P), Past(e, Q))
    BY <2>1, <2>6, <2>7
  <2>9. UpToSign(P, Q)
    BY <2>5, <2>8, ConjugateApart DEF Past, IsElement
  <2>10. QED
    BY <2>1, <2>2, <2>3, <2>9
<1> HIDE DEF agree
<1>6. \A i \in 0 .. M : i \in agree
  BY <1>4, <1>5, Induction
<1>7. M \in agree /\ 1 + M = m - 1
  BY <1>1, <1>6
<1>8. UpToSign(g[m - 1], list[m].pauli)
  <2>1. Moved(list, m, m - 1) = list[m].pauli
    BY MovedStarts
  <2>2. QED
    BY <1>7, <2>1 DEF agree
<1>9. g[m - 1] = g[m] /\ ~UpToSign(g[m], list[m].pauli)
  <2>1. m \in 2 .. m
    OBVIOUS
  <2>2. QED
    BY <2>1 DEF Guards, Past
<1>10. QED
  BY <1>8, <1>9

LEMMA GuardsLess ==
  ASSUME NEW list, NEW N \in Nat, NEW M \in Nat, M <= N, NEW g, Guards(g, list, N)
  PROVE  Guards(g, list, M)
BY DEF Guards

(* The rotation n, which is not the first, is erased.                      *)
LEMMA GuardsErased ==
  ASSUME NEW list, NEW N \in Nat, NEW L \in Nat, N <= L, NEW n \in 2 .. N, list[n].kind = "rotation",
         NEW g, Guards(g, list, N), NEW other, IsWithout(other, list, n, L)
  PROVE  \E h : Guards(h, other, N - 1)
<1> DEFINE h == [k \in 1 .. N - 1 |-> IF k < n THEN g[k] ELSE g[k + 1]]
<1>1. \A k \in 1 .. N - 1 : h[k] \in Pauli
  BY DEF Guards
<1>2. UpToSign(h[1], other[1].pauli)
  <2>1. 1 \in 1 .. N - 1 /\ 1 < n /\ 1 \in 1 .. L - 1
    OBVIOUS
  <2>2. h[1] = g[1] /\ other[1] = list[1]
    BY <2>1 DEF IsWithout
  <2>3. QED
    BY <2>2 DEF Guards
<1>3. ASSUME NEW k \in 2 .. N - 1
      PROVE  /\ h[k - 1] = Past(other[k], h[k])
             /\ other[k].kind = "rotation" => ~UpToSign(h[k], other[k].pauli)
  <2>1. k \in 1 .. N - 1 /\ k - 1 \in 1 .. N - 1 /\ k \in 1 .. L - 1 /\ k \in 2 .. N /\ k + 1 \in 2 .. N
    OBVIOUS
  <2>2. CASE k < n
    <3>1. h[k] = g[k] /\ h[k - 1] = g[k - 1] /\ other[k] = list[k]
      BY <2>1, <2>2 DEF IsWithout
    <3>2. QED
      BY <2>1, <3>1 DEF Guards
  <2>3. CASE ~(k < n)
    <3>1. h[k] = g[k + 1] /\ other[k] = list[k + 1]
      BY <2>1, <2>3 DEF IsWithout
    <3>2. h[k - 1] = g[k]
      <4>1. CASE k = n
        <5>1. h[k - 1] = g[k - 1]
          BY <2>1, <4>1
        <5>2. g[k - 1] = g[k]
          BY <2>1, <4>1 DEF Guards, Past
        <5>3. QED
          BY <5>1, <5>2
      <4>2. CASE k # n
        <5>1. ~(k - 1 < n) /\ (k - 1) + 1 = k
          BY <2>3, <4>2
        <5>2. QED
          BY <2>1, <5>1
      <4>3. QED
        BY <4>1, <4>2
    <3>3. PICK j \in 2 .. N : j = k + 1 /\ j - 1 = k
      BY <2>1
    <3>4. g[k] = Past(list[j], g[j]) /\ (list[j].kind = "rotation" => ~UpToSign(g[j], list[j].pauli))
      BY <3>3 DEF Guards
    <3>5. QED
      BY <3>1, <3>2, <3>3, <3>4
  <2>4. QED
    BY <2>2, <2>3
<1> HIDE DEF h
<1>4. Guards(h, other, N - 1)
  BY <1>1, <1>2, <1>3 DEF Guards
<1>5. QED
  BY <1>4

-----------------------------------------------------------------------------
(* What is not stopped by e, nor merged with it                            *)
Clear(e, P) == Passes(e, P) /\ (e.kind = "rotation" => ~UpToSign(P, e.pauli))

FoldingInv ==
  /\ replaced \in Angles(program)
  /\ SameMeaning(program, replaced)
  /\ pc = "fold" =>
       /\ Elements(accum, Len(accum))
       /\ FoldAll(program, accum, replaced, Scope(program, next))
       /\ moving # Nothing =>
            /\ moving.pauli = Moved(accum, it, forward) /\ moving.theta = accum[it].theta
            /\ \A k \in forward + 1 .. it - 1 : Clear(accum[k], Moved(accum, it, k))
       /\ Len(accum) > 0 /\ accum[1].kind = "rotation" /\ replaced[accum[1].id] # Kept =>
            \E g : Guards(g, accum, it)

LEMMA InitFolding == Init => FoldingInv
<1> SUFFICES ASSUME Init PROVE FoldingInv
  OBVIOUS
<1>1. WellFormed(program) /\ pc = "visit" /\ replaced = [n \in DOMAIN program |-> Kept]
  BY ProgramAssumption DEF Init
<1>2. replaced = NoneChanged(program)
  <2>1. DOMAIN program = 1 .. Len(program)
    BY <1>1, WellFormedList
  <2>2. QED
    BY <1>1, <2>1 DEF NoneChanged
<1>3. replaced \in Angles(program) /\ Rewritten(program, replaced) = program
  BY <1>1, <1>2, NothingChanged
<1>4. SameMeaning(program, replaced)
  BY <1>3 DEF SameMeaning
<1>5. QED
  BY <1>1, <1>3, <1>4 DEF FoldingInv

LEMMA StartFoldFolding ==
  ASSUME Inv, ChannelInv, FoldingInv, StartFold
  PROVE  FoldingInv'
<1>1. /\ UNCHANGED <<program, next, moving, replaced>> /\ moving' = Nothing /\ pc = "visit"
      /\ accum' = Append(accum, CliffordOp(clifford))
      /\ next <= Len(program) => program[next].op = "leave"
  BY DEF StartFold, AtEnd, Inv, TypeInv
<1>2. /\ WellFormed(program) /\ next \in 1 .. Len(program) + 1 /\ IsList(accum)
  BY Program
<1>3. PICK d : d = Scope(program, next)
  OBVIOUS
<1>4. ChanAll(program, accum, clifford, d, next - 1) /\ InScope(program, accum, d)
  BY <1>1, <1>3 DEF ChannelInv
<1>5. Elements(accum', Len(accum')) /\ FoldAll(program, accum', replaced, d)
  BY <1>1, <1>2, <1>3, <1>4, ListComplete
<1>6. ASSUME accum'[1].kind = "rotation" PROVE replaced[accum'[1].id] = Kept
  <2>1. PICK N \in Nat : N = Len(accum) /\ \A n \in 1 .. N : Append(accum, CliffordOp(clifford))[n] = accum[n]
    BY <1>2, RangeOfList, AppendList
  <2>2. Append(accum, CliffordOp(clifford))[N + 1] = CliffordOp(clifford)
    BY <1>2, <2>1, AppendList
  <2>3. CliffordOp(clifford).kind = "clifford"
    BY DEF CliffordOp
  <2>4. N # 0
    <3>1. N = 0 => N + 1 = 1
      OBVIOUS
    <3>2. QED
      BY <1>1, <1>6, <2>2, <2>3, <3>1
  <2>5. 1 \in 1 .. N
    BY <2>4
  <2>6. KeptIn(accum, 1, N)
    BY <1>1, <2>1 DEF Inv, ListInv
  <2>7. QED
    BY <1>1, <1>6, <2>1, <2>5, <2>6 DEF KeptIn
<1>7. replaced \in Angles(program) /\ SameMeaning(program, replaced)
  BY DEF FoldingInv
<1>8. Scope(program', next') = d
  BY <1>1, <1>3
<1>9. QED
  BY <1>1, <1>5, <1>6, <1>7, <1>8 DEF FoldingInv

(* What does not touch the replacements and the list, nor moves a rotation *)
LEMMA QuietFolding ==
  ASSUME Inv, FoldingInv, UNCHANGED <<program, replaced>>,
         \/ pc' # "fold"
         \/ /\ pc = "fold" /\ UNCHANGED <<next, accum>>
            /\ moving' = Nothing
            /\ it' \in Nat /\ it' <= it
  PROVE  FoldingInv'
<1>1. replaced \in Angles(program) /\ SameMeaning(program, replaced)
  BY DEF FoldingInv
<1>2. CASE pc' # "fold"
  BY <1>1, <1>2 DEF FoldingInv
<1>3. CASE pc = "fold" /\ UNCHANGED <<next, accum>> /\ moving' = Nothing /\ it' \in Nat /\ it' <= it
  <2>1. Elements(accum, Len(accum)) /\ FoldAll(program, accum, replaced, Scope(program, next))
    BY <1>3 DEF FoldingInv
  <2>2. ASSUME Len(accum) > 0, accum[1].kind = "rotation", replaced[accum[1].id] # Kept
        PROVE  \E g : Guards(g, accum, it')
    <3>1. PICK g : Guards(g, accum, it)
      BY <1>3, <2>2 DEF FoldingInv
    <3>2. it \in Nat
      BY DEF Inv, TypeInv
    <3>3. Guards(g, accum, it')
      BY <1>3, <3>1, <3>2, GuardsLess
    <3>4. QED
      BY <3>3
  <2>3. Scope(program', next') = Scope(program, next)
    BY <1>3
  <2>4. QED
    BY <1>1, <1>3, <2>1, <2>2, <2>3 DEF FoldingInv
<1>4. QED
  BY <1>2, <1>3

LEMMA TakeRotationFolding ==
  ASSUME Inv, FoldingInv, TakeRotation
  PROVE  FoldingInv'
<1>1. /\ pc = "fold" /\ pc' = "fold" /\ UNCHANGED <<program, next, accum, it, replaced>>
      /\ moving' = accum[it] /\ forward' = it - 1
  BY DEF TakeRotation, Folding
<1>2. it \in Nat
  BY DEF Inv, TypeInv
<1>3. accum[it].pauli = Moved(accum, it, it - 1)
  BY <1>2, MovedStarts
<1>4. \A k \in (it - 1) + 1 .. it - 1 : Clear(accum[k], Moved(accum, it, k))
  BY <1>2
<1>5. Scope(program', next') = Scope(program, next)
  BY <1>1
<1>6. QED
  BY <1>1, <1>3, <1>4, <1>5 DEF FoldingInv

LEMMA PassFolding ==
  ASSUME Inv, FoldingInv, Pass
  PROVE  FoldingInv'
<1>1. moving # Nothing
  <2>1. moving = Nothing => forward = 0
    BY DEF Inv, TypeInv
  <2>2. forward > 0
    BY DEF Pass, Meets
  <2>3. QED
    BY <2>1, <2>2
<1>2. /\ pc = "fold" /\ it \in Nat /\ it <= Len(accum) /\ Len(accum) \in Nat
      /\ forward \in Nat /\ forward < it /\ IsRotation(moving)
  BY <1>1, InHand
<1>3. /\ pc' = "fold" /\ UNCHANGED <<program, next, accum, it, replaced>> /\ forward' = forward - 1
      /\ forward > 0
  BY <1>2 DEF Pass, Meets
<1>4. PICK n \in 1 .. it - 1 : n = forward
  BY <1>2, <1>3
<1>5. PICK e : e = accum[n]
  OBVIOUS
<1>6. PICK P : P = moving.pauli
  OBVIOUS
<1>7. /\ P = Moved(accum, it, n) /\ moving.theta = accum[it].theta
      /\ \A k \in n + 1 .. it - 1 : Clear(accum[k], Moved(accum, it, k))
  BY <1>1, <1>2, <1>4, <1>6 DEF FoldingInv
<1>8. moving'.pauli = Past(e, P) /\ moving'.theta = moving.theta /\ Clear(e, P)
  <2>1. CASE e.kind = "rotation"
    BY <1>4, <1>5, <1>6, <2>1 DEF Pass, Meets, Past, Clear, Passes, CanMerge, UpToSign
  <2>2. CASE e.kind = "uninterp"
    BY <1>4, <1>5, <1>6, <2>2 DEF Pass, Meets, Past, Clear, Passes
  <2>3. CASE e.kind = "clifford"
    <3>1. moving' = [moving EXCEPT !.pauli = Conjugate(e.map, @)]
      BY <1>4, <1>5, <2>3 DEF Pass, Meets
    <3>2. moving = [kind |-> "rotation", id |-> moving.id, theta |-> moving.theta, pauli |-> P]
      BY <1>2, <1>6 DEF IsRotation, Rotation
    <3>3. moving'.pauli = Conjugate(e.map, P) /\ moving'.theta = moving.theta
      BY <3>1, <3>2
    <3>4. QED
      BY <2>3, <3>3 DEF Past, Clear, Passes
  <2>4. QED
    BY <1>4, <1>5, <2>1, <2>2, <2>3 DEF Pass, Meets
<1>9. moving'.pauli = Moved(accum, it, n - 1)
  BY <1>2, <1>5, <1>7, <1>8, MovedGoesOn
<1>10. \A k \in (n - 1) + 1 .. it - 1 : Clear(accum[k], Moved(accum, it, k))
  <2>1. \A k \in (n - 1) + 1 .. it - 1 : k = n \/ k \in n + 1 .. it - 1
    OBVIOUS
  <2>2. QED
    BY <1>5, <1>7, <1>8, <2>1
<1>11. Scope(program', next') = Scope(program, next)
  BY <1>3
<1>12. /\ moving'.pauli = Moved(accum', it', forward') /\ moving'.theta = accum'[it'].theta
       /\ \A k \in forward' + 1 .. it' - 1 : Clear(accum'[k], Moved(accum', it', k))
  BY <1>3, <1>4, <1>7, <1>8, <1>9, <1>10
<1>13. /\ replaced \in Angles(program) /\ SameMeaning(program, replaced)
       /\ Elements(accum, Len(accum))
       /\ FoldAll(program, accum, replaced, Scope(program, next))
       /\ Len(accum) > 0 /\ accum[1].kind = "rotation" /\ replaced[accum[1].id] # Kept =>
            \E g : Guards(g, accum, it)
  BY <1>2 DEF FoldingInv
<1>14. QED
  BY <1>3, <1>11, <1>12, <1>13 DEF FoldingInv

-----------------------------------------------------------------------------
(* A rotation in the list is one of the scope that is folded.              *)
LEMMA RotationsOfList ==
  ASSUME Inv, ChannelInv, FoldingInv, pc = "fold", NEW d, d = Scope(program, next)
  PROVE  /\ IsList(accum) /\ WellFormed(program) /\ Elements(accum, Len(accum))
         /\ InScope(program, accum, d) /\ FoldAll(program, accum, replaced, d)
         /\ \A k \in 1 .. Len(accum) : accum[k].kind = "rotation" =>
              /\ IsRotation(accum[k]) /\ accum[k].id \in 1 .. Len(program)
              /\ accum[k].theta \in 0 .. 3 /\ accum[k].pauli \in Pauli
              /\ program[accum[k].id].op = "rot" /\ ~program[accum[k].id].cond
              /\ Scope(program, accum[k].id) = d
         /\ \A j, k \in 1 .. Len(accum) :
              accum[j].kind = "rotation" /\ accum[k].kind = "rotation" /\ accum[j].id = accum[k].id => j = k
<1>1. IsList(accum) /\ WellFormed(program)
  BY Program
<1>2. Elements(accum, Len(accum)) /\ FoldAll(program, accum, replaced, d) /\ InScope(program, accum, d)
  BY DEF FoldingInv, ChannelInv
<1>3. Accumulated(accum, next)
  BY DEF Inv, ListInv
<1>4. \A k \in 1 .. Len(accum) : accum[k].kind = "rotation" =>
        /\ IsRotation(accum[k]) /\ accum[k].id \in 1 .. Len(program)
        /\ accum[k].theta \in 0 .. 3 /\ accum[k].pauli \in Pauli
        /\ program[accum[k].id].op = "rot" /\ ~program[accum[k].id].cond
        /\ Scope(program, accum[k].id) = d
  BY <1>2, <1>3 DEF Elements, IsElement, Signed, InScope, Accumulated
<1>5. \A j, k \in 1 .. Len(accum) :
        accum[j].kind = "rotation" /\ accum[k].kind = "rotation" /\ accum[j].id = accum[k].id => j = k
  BY <1>3 DEF Accumulated
<1>6. QED
  BY <1>1, <1>2, <1>4, <1>5

(* New angles for rotations of the list                                    *)
LEMMA NewAngles ==
  ASSUME NEW p, NEW before \in Angles(p), NEW after, after = [k \in 1 .. Len(p) |-> after[k]],
         \A k \in 1 .. Len(p) : \/ after[k] = before[k]
                                \/ after[k] \in 0 .. 3 /\ p[k].op = "rot" /\ ~p[k].cond
  PROVE  after \in Angles(p)
<1>1. \A k \in 1 .. Len(p) : before[k] \in {Kept} \cup 0 .. 3
                              /\ (before[k] # Kept => p[k].op = "rot" /\ ~p[k].cond)
  BY DEF Angles
<1>2. \A k \in 1 .. Len(p) : after[k] \in {Kept} \cup 0 .. 3
                              /\ (after[k] # Kept => p[k].op = "rot" /\ ~p[k].cond)
  BY <1>1
<1>3. after \in [1 .. Len(p) -> {Kept} \cup 0 .. 3]
  BY <1>2
<1>4. QED
  BY <1>2, <1>3 DEF Angles

(* A rotation that was moved in vain keeps its angle.                      *)
LEMMA SettledMeaning ==
  ASSUME NEW p, NEW d, NEW list, IsList(list), InScope(p, list, d),
         \A j, k \in 1 .. Len(list) :
           list[j].kind = "rotation" /\ list[k].kind = "rotation" /\ list[j].id = list[k].id => j = k,
         NEW before \in Angles(p), FoldAll(p, list, before, d), NEW after \in Angles(p),
         \A k \in 1 .. Len(p) : before[k] = 0 => after[k] = 0,
         NEW m \in 1 .. Len(list), list[m].kind = "rotation", IsRotation(list[m]),
         before[list[m].id] = Kept, after[list[m].id] \in {Kept, list[m].theta},
         \A k \in 1 .. Len(p) : k # list[m].id => after[k] = before[k]
  PROVE  Meaning(Rewritten(p, after), d, Len(p)) = Meaning(Rewritten(p, before), d, Len(p))
<1>1. PICK N \in Nat : N = Len(list)
  BY RangeOfList
<1>2. PICK A : A = Adjusted(list, before)
  OBVIOUS
<1>3. PICK B : B = Adjusted(list, after)
  OBVIOUS
<1>4. ASSUME NEW k \in 1 .. N PROVE A[k] = B[k]
  <2>1. A[k] = Turned(list[k], before) /\ B[k] = Turned(list[k], after)
    BY <1>1, <1>2, <1>3 DEF Adjusted
  <2>2. CASE list[k].kind # "rotation"
    BY <2>1, <2>2 DEF Turned
  <2>3. CASE list[k].kind = "rotation" /\ k # m
    <3>1. list[k].id # list[m].id /\ list[k].id \in 1 .. Len(p)
      BY <1>1, <2>3 DEF InScope
    <3>2. after[list[k].id] = before[list[k].id]
      BY <3>1
    <3>3. QED
      BY <2>1, <3>2 DEF Turned
  <2>4. CASE k = m
    <3>1. Turned(list[m], before) = list[m]
      BY DEF Turned
    <3>2. Turned(list[m], after) = list[m]
      BY DEF Turned, IsRotation
    <3>3. QED
      BY <2>1, <2>4, <3>1, <3>2
  <2>5. QED
    BY <2>2, <2>3, <2>4
<1>5. ListMeaning(A, N) = ListMeaning(B, N)
  BY <1>4, ListsTheSame
<1>6. ListMeaning(A, N) = Meaning(Rewritten(p, before), d, Len(p))
  BY <1>1, <1>2 DEF FoldAll, KeepsDeleted
<1>7. ListMeaning(B, N) = Meaning(Rewritten(p, after), d, Len(p))
  BY <1>1, <1>3 DEF FoldAll, KeepsDeleted
<1>8. QED
  BY <1>5, <1>6, <1>7

LEMMA StopFolding ==
  ASSUME Inv, ChannelInv, FoldingInv, Stop
  PROVE  FoldingInv'
<1>1. /\ moving # Nothing /\ replaced' = Settle(moving, replaced) /\ it' = it - 1
      /\ moving' = Nothing /\ UNCHANGED <<program, next, pc, accum>>
  BY DEF Stop
<1>2. /\ pc = "fold" /\ it \in Nat /\ it > 1 /\ it <= Len(accum) /\ Len(accum) \in Nat
      /\ accum[it].kind = "rotation" /\ moving.id = accum[it].id /\ replaced[moving.id] = Kept
  BY <1>1, InHand
<1>3. PICK d : d = Scope(program, next)
  OBVIOUS
<1>4. /\ IsList(accum) /\ WellFormed(program) /\ Elements(accum, Len(accum))
      /\ InScope(program, accum, d) /\ FoldAll(program, accum, replaced, d)
  BY <1>2, <1>3, RotationsOfList
<1>5. /\ \A k \in 1 .. Len(accum) : accum[k].kind = "rotation" =>
           /\ IsRotation(accum[k]) /\ accum[k].id \in 1 .. Len(program)
           /\ accum[k].theta \in 0 .. 3
           /\ program[accum[k].id].op = "rot" /\ ~program[accum[k].id].cond
           /\ Scope(program, accum[k].id) = d
      /\ \A j, k \in 1 .. Len(accum) :
           accum[j].kind = "rotation" /\ accum[k].kind = "rotation" /\ accum[j].id = accum[k].id => j = k
  BY <1>2, <1>3, RotationsOfList
<1>6. PICK m \in 1 .. Len(accum) : m = it
  BY <1>2
<1>7. PICK id : id = accum[m].id
  OBVIOUS
<1>8. /\ IsRotation(accum[m]) /\ id \in 1 .. Len(program) /\ accum[m].theta \in 0 .. 3
      /\ program[id].op = "rot" /\ ~program[id].cond /\ Scope(program, id) = d /\ accum[m].id = id
  BY <1>2, <1>5, <1>6, <1>7
<1>9. moving.theta = accum[m].theta /\ moving.id = id /\ replaced[id] = Kept
  BY <1>1, <1>2, <1>6, <1>7 DEF FoldingInv
<1>10. replaced \in Angles(program) /\ SameMeaning(program, replaced)
  BY DEF FoldingInv
<1>11. /\ replaced' = [k \in 1 .. Len(program) |-> replaced'[k]]
       /\ replaced'[id] \in {Kept, accum[m].theta}
       /\ \A k \in 1 .. Len(program) : k # id => replaced'[k] = replaced[k]
  <2>1. replaced = [k \in 1 .. Len(program) |-> replaced[k]]
    BY DEF Inv, TypeInv
  <2>2. replaced' = replaced \/ replaced' = [replaced EXCEPT ![id] = accum[m].theta]
    BY <1>1, <1>9 DEF Settle
  <2>3. QED
    BY <1>8, <1>9, <2>1, <2>2
<1>12. replaced' \in Angles(program)
  <2>1. \A k \in 1 .. Len(program) : \/ replaced'[k] = replaced[k]
                                     \/ replaced'[k] \in 0 .. 3 /\ program[k].op = "rot" /\ ~program[k].cond
    BY <1>8, <1>9, <1>11
  <2>2. QED
    BY <1>10, <1>11, <2>1, NewAngles
<1>13. \A k \in 1 .. Len(program) : replaced[k] = 0 => replaced'[k] = 0
  BY StopInv
<1>14. PICK after : after = replaced'
  OBVIOUS
<1>15. Meaning(Rewritten(program, after), d, Len(program)) = Meaning(Rewritten(program, replaced), d, Len(program))
  <2>1. /\ after \in Angles(program) /\ \A k \in 1 .. Len(program) : replaced[k] = 0 => after[k] = 0
    BY <1>12, <1>13, <1>14
  <2>2. /\ replaced[accum[m].id] = Kept /\ after[accum[m].id] \in {Kept, accum[m].theta}
        /\ \A k \in 1 .. Len(program) : k # accum[m].id => after[k] = replaced[k]
    BY <1>8, <1>9, <1>11, <1>14
  <2>3. accum[m].kind = "rotation"
    BY <1>2, <1>6
  <2>4. QED
    BY <1>4, <1>5, <1>8, <1>10, <2>1, <2>2, <2>3, SettledMeaning
<1>16. SameMeaning(program, after)
  <2>1. \A k \in 1 .. Len(program) : after[k] = replaced[k] \/ Scope(program, k) = d
    BY <1>8, <1>11, <1>14
  <2>2. QED
    BY <1>4, <1>10, <1>12, <1>14, <1>15, <2>1, OneScope
<1>17. FoldAll(program, accum, after, d)
  BY <1>4, <1>13, <1>14, FoldLess
<1>18. ASSUME Len(accum) > 0, accum[1].kind = "rotation", after[accum[1].id] # Kept
       PROVE  \E g : Guards(g, accum, it - 1)
  <2>1. 1 \in 1 .. Len(accum) /\ 1 # m
    BY <1>2, <1>6
  <2>2. accum[1].id # id /\ accum[1].id \in 1 .. Len(program)
    BY <1>2, <1>5, <1>6, <1>7, <1>18, <2>1
  <2>3. replaced[accum[1].id] # Kept
    BY <1>11, <1>14, <1>18, <2>2
  <2>4. PICK g : Guards(g, accum, it)
    BY <1>2, <1>18, <2>3 DEF FoldingInv
  <2>5. it - 1 \in Nat /\ it - 1 <= it
    BY <1>2
  <2>6. Guards(g, accum, it - 1)
    BY <1>2, <2>4, <2>5, GuardsLess
  <2>7. QED
    BY <2>6
<1>19. Scope(program', next') = d
  BY <1>1, <1>3
<1>20. QED
  BY <1>1, <1>4, <1>12, <1>14, <1>16, <1>17, <1>18, <1>19 DEF FoldingInv

-----------------------------------------------------------------------------
(* What a merge does to the angles: n and m are the statements of the      *)
(* rotation that is deleted and of the one that is moved.                  *)
MergeTurns(after, n, m, theta, c) ==
  /\ after = [k \in 1 .. Len(program) |-> after[k]]
  /\ after[n] = 0
  /\ after[m] = c \/ (after[m] = Kept /\ c = theta)
  /\ \A k \in 1 .. Len(program) : k \notin {n, m} => after[k] = replaced[k]

LEMMA MergeReplaces ==
  ASSUME Inv, Merge, accum[forward].id \in 1 .. Len(program), moving.id \in 1 .. Len(program),
         accum[forward].id # moving.id
  PROVE  MergeTurns(replaced', accum[forward].id, moving.id, accum[it].theta,
                    MergedAngle(moving, accum[forward]))
<1>1. moving # Nothing
  <2>1. moving = Nothing => forward = 0
    BY DEF Inv, TypeInv
  <2>2. QED
    BY <2>1 DEF Merge, Meets
<1>2. IsRotation(moving) /\ replaced[moving.id] = Kept
  BY <1>1, InHand
<1>3. PICK P : P = accum[forward]
  OBVIOUS
<1>4. PICK c : c = MergedAngle(moving, P)
  OBVIOUS
<1>5. PICK R : /\ R = [moving EXCEPT !.theta = c]
               /\ replaced' = Settle(R, [replaced EXCEPT ![P.id] = 0])
  BY <1>3, <1>4 DEF Merge
<1>6. R.id = moving.id /\ R.theta = c
  BY <1>2, <1>5 DEF IsRotation, Rotation
<1>7. PICK list : list = [replaced EXCEPT ![P.id] = 0]
  OBVIOUS
<1>8. replaced = [k \in 1 .. Len(program) |-> replaced[k]]
  BY DEF Inv, TypeInv
<1>9. /\ list = [k \in 1 .. Len(program) |-> list[k]] /\ list[P.id] = 0
      /\ \A k \in 1 .. Len(program) : k # P.id => list[k] = replaced[k]
  BY <1>3, <1>7, <1>8
<1>10. CASE R = accum[it]
  <2>1. replaced' = list
    BY <1>5, <1>7, <1>10 DEF Settle
  <2>2. replaced'[moving.id] = Kept /\ c = accum[it].theta
    BY <1>2, <1>3, <1>6, <1>9, <1>10, <2>1
  <2>3. QED
    BY <1>3, <1>4, <1>9, <2>1, <2>2 DEF MergeTurns
<1>11. CASE R # accum[it]
  <2>1. replaced' = [list EXCEPT ![moving.id] = c]
    BY <1>5, <1>6, <1>7, <1>11 DEF Settle
  <2>2. /\ replaced' = [k \in 1 .. Len(program) |-> replaced'[k]] /\ replaced'[moving.id] = c
        /\ \A k \in 1 .. Len(program) : k # moving.id => replaced'[k] = list[k]
    BY <1>9, <2>1
  <2>3. QED
    BY <1>3, <1>4, <1>9, <2>2 DEF MergeTurns
<1>12. QED
  BY <1>10, <1>11

(* try_merge adds the angle of P, or takes it away.                        *)
LEMMA AngleOfMerge ==
  ASSUME NEW M, NEW P, M.theta \in 0 .. 3, P.theta \in 0 .. 3, CanMerge(M, P)
  PROVE  \E b \in 0 .. 3 : /\ MergedBy(M.pauli, P.pauli, P.theta, b)
                           /\ MergedAngle(M, P) = (M.theta + b) % 4 /\ (M.theta + b) % 4 \in 0 .. 3
<1>1. PICK r \in 0 .. 3 : r = M.theta
  OBVIOUS
<1>2. PICK a \in 0 .. 3 : a = P.theta
  OBVIOUS
<1>3. CASE M.pauli = P.pauli
  <2>1. MergedAngle(M, P) = (r + a) % 4 /\ (r + a) % 4 \in 0 .. 3
    BY <1>1, <1>2, <1>3 DEF MergedAngle
  <2>2. QED
    BY <1>1, <1>2, <1>3, <2>1 DEF MergedBy
<1>4. CASE M.pauli # P.pauli
  <2>1. M.pauli = Minus(P.pauli)
    BY <1>4 DEF CanMerge
  <2>2. \A x, y \in 0 .. 3 : /\ (x - y) % 4 = (x + ((4 - y) % 4)) % 4
                             /\ (4 - y) % 4 \in 0 .. 3 /\ (x + ((4 - y) % 4)) % 4 \in 0 .. 3
    OBVIOUS
  <2>3. PICK b \in 0 .. 3 : b = (4 - a) % 4 /\ (r - a) % 4 = (r + b) % 4 /\ (r + b) % 4 \in 0 .. 3
    BY <2>2
  <2>4. MergedAngle(M, P) = (r + b) % 4
    BY <1>1, <1>2, <1>4, <2>3 DEF MergedAngle
  <2>5. QED
    BY <1>1, <1>2, <2>1, <2>3, <2>4 DEF MergedBy
<1>5. QED
  BY <1>3, <1>4

LEMMA WayOfMoved ==
  ASSUME NEW list, NEW N \in Nat, Elements(list, N), NEW m \in 1 .. N, list[m].kind = "rotation",
         NEW n \in 1 .. m - 1, \A k \in n + 1 .. m - 1 : Clear(list[k], Moved(list, m, k)),
         NEW h, h = [k \in 0 .. m - 1 |-> Moved(list, m, k)]
  PROVE  WayTo(list, n, m, h) /\ h[m - 1] = list[m].pauli /\ h[n] = Moved(list, m, n)
<1>1. \A k \in 0 .. m - 1 : Moved(list, m, k) \in Pauli
  BY MovedTypes
<1>2. \A k \in n .. m - 1 : h[k] \in Pauli
  BY <1>1
<1>3. ASSUME NEW k \in n + 1 .. m - 1
      PROVE  h[k - 1] = Past(list[k], h[k]) /\ Passes(list[k], h[k])
  <2>1. k \in 1 .. m - 1 /\ k \in 0 .. m - 1 /\ k - 1 \in 0 .. m - 1
    OBVIOUS
  <2>2. Moved(list, m, k - 1) = Past(list[k], Moved(list, m, k))
    BY <2>1, MovedGoesOn
  <2>3. QED
    BY <2>1, <2>2 DEF Clear
<1>4. h[m - 1] = list[m].pauli
  <2>1. m - 1 \in 0 .. m - 1
    OBVIOUS
  <2>2. QED
    BY <2>1, MovedStarts
<1>5. h[n] = Moved(list, m, n)
  <2>1. n \in 0 .. m - 1
    OBVIOUS
  <2>2. QED
    BY <2>1
<1>6. WayTo(list, n, m, h)
  BY <1>2, <1>3 DEF WayTo
<1>7. QED
  BY <1>4, <1>5, <1>6

(* What is in the way of a rotation guards the first element, once it is   *)
(* merged with that.                                                       *)
LEMMA MovedGuards ==
  ASSUME NEW list, NEW N \in Nat, Elements(list, N), NEW m \in 2 .. N, list[m].kind = "rotation",
         \A k \in 2 .. m - 1 : Clear(list[k], Moved(list, m, k)),
         UpToSign(Moved(list, m, 1), list[1].pauli)
  PROVE  \E g : Guards(g, list, m - 1)
<1> DEFINE g == [k \in 1 .. m - 1 |-> Moved(list, m, k)]
<1>1. \A k \in 0 .. m - 1 : Moved(list, m, k) \in Pauli
  BY MovedTypes
<1>2. \A k \in 1 .. m - 1 : g[k] \in Pauli
  BY <1>1
<1>3. UpToSign(g[1], list[1].pauli)
  <2>1. 1 \in 1 .. m - 1
    OBVIOUS
  <2>2. QED
    BY <2>1
<1>4. ASSUME NEW k \in 2 .. m - 1
      PROVE  /\ g[k - 1] = Past(list[k], g[k])
             /\ list[k].kind = "rotation" => ~UpToSign(g[k], list[k].pauli)
  <2>1. k \in 1 .. m - 1 /\ k - 1 \in 1 .. m - 1
    OBVIOUS
  <2>2. Moved(list, m, k - 1) = Past(list[k], Moved(list, m, k))
    BY <2>1, MovedGoesOn
  <2>3. QED
    BY <2>1, <2>2 DEF Clear
<1> HIDE DEF g
<1>5. Guards(g, list, m - 1)
  BY <1>2, <1>3, <1>4 DEF Guards
<1>6. QED
  BY <1>5

-----------------------------------------------------------------------------
(* What a merge of m into n finds and leaves                               *)
MergeAt(n, m, d, after) ==
  /\ n \in 1 .. m - 1 /\ m \in 2 .. Len(accum) /\ d = Scope(program, next)
  /\ accum[n].kind = "rotation" /\ accum[m].kind = "rotation"
  /\ accum[n].id \in 1 .. Len(program) /\ accum[m].id \in 1 .. Len(program)
  /\ accum[n].id # accum[m].id
  /\ \A k \in {accum[n].id, accum[m].id} :
       program[k].op = "rot" /\ ~program[k].cond /\ Scope(program, k) = d
  /\ UpToSign(Moved(accum, m, n), accum[n].pauli)
  /\ \A k \in n + 1 .. m - 1 : Clear(accum[k], Moved(accum, m, k))
  /\ replaced[accum[m].id] = Kept
  /\ \E b \in 0 .. 3 :
       /\ MergedBy(Moved(accum, m, n), accum[n].pauli, accum[n].theta, b)
       /\ (accum[m].theta + b) % 4 \in 0 .. 3
       /\ MergeTurns(after, accum[n].id, accum[m].id, accum[m].theta, (accum[m].theta + b) % 4)

LEMMA MergeFinds ==
  ASSUME Inv, ChannelInv, FoldingInv, Merge
  PROVE  /\ MergeAt(forward, it, Scope(program, next), replaced')
         /\ pc = "fold" /\ moving' = Nothing /\ UNCHANGED <<program, next, pc>>
         /\ accum' = ErasedFrom(forward) /\ it' = it - 1 - (Len(accum) - Len(accum'))
<1>1. /\ Meets("rotation") /\ CanMerge(moving, accum[forward])
      /\ moving' = Nothing /\ UNCHANGED <<program, next, pc>>
      /\ accum' = ErasedFrom(forward) /\ it' = it - 1 - (Len(accum) - Len(accum'))
  BY DEF Merge
<1>2. moving # Nothing
  BY <1>1 DEF Meets, Inv, TypeInv
<1>3. /\ pc = "fold" /\ it \in Nat /\ it > 1 /\ it <= Len(accum) /\ Len(accum) \in Nat
      /\ forward \in Nat /\ forward < it
      /\ accum[it].kind = "rotation" /\ moving.id = accum[it].id /\ replaced[moving.id] = Kept
  BY <1>2, InHand
<1>4. PICK d : d = Scope(program, next)
  OBVIOUS
<1>5. /\ forward \in 1 .. it - 1 /\ it \in 2 .. Len(accum) /\ accum[forward].kind = "rotation"
      /\ forward \in 1 .. Len(accum) /\ it \in 1 .. Len(accum) /\ forward # it
  BY <1>1, <1>3 DEF Meets
<1>6. /\ \A k \in 1 .. Len(accum) : accum[k].kind = "rotation" =>
           /\ accum[k].id \in 1 .. Len(program)
           /\ accum[k].theta \in 0 .. 3
           /\ program[accum[k].id].op = "rot" /\ ~program[accum[k].id].cond
           /\ Scope(program, accum[k].id) = d
      /\ \A j, k \in 1 .. Len(accum) :
           accum[j].kind = "rotation" /\ accum[k].kind = "rotation" /\ accum[j].id = accum[k].id => j = k
  BY <1>3, <1>4, RotationsOfList
<1>7. /\ accum[forward].id \in 1 .. Len(program) /\ accum[it].id \in 1 .. Len(program)
      /\ accum[forward].id # accum[it].id
      /\ \A k \in {accum[forward].id, accum[it].id} :
           program[k].op = "rot" /\ ~program[k].cond /\ Scope(program, k) = d
      /\ accum[forward].theta \in 0 .. 3 /\ accum[it].theta \in 0 .. 3
  BY <1>3, <1>5, <1>6
<1>8. /\ moving.pauli = Moved(accum, it, forward) /\ moving.theta = accum[it].theta
      /\ \A k \in forward + 1 .. it - 1 : Clear(accum[k], Moved(accum, it, k))
  BY <1>2, <1>3 DEF FoldingInv
<1>9. UpToSign(Moved(accum, it, forward), accum[forward].pauli)
  BY <1>1, <1>8 DEF CanMerge, UpToSign
<1>10. PICK b \in 0 .. 3 : /\ MergedBy(moving.pauli, accum[forward].pauli, accum[forward].theta, b)
                           /\ MergedAngle(moving, accum[forward]) = (moving.theta + b) % 4
                           /\ (moving.theta + b) % 4 \in 0 .. 3
  BY <1>1, <1>7, <1>8, AngleOfMerge
<1>11. MergeTurns(replaced', accum[forward].id, moving.id, accum[it].theta,
                  MergedAngle(moving, accum[forward]))
  BY <1>3, <1>7, MergeReplaces
<1>12. /\ MergedBy(Moved(accum, it, forward), accum[forward].pauli, accum[forward].theta, b)
       /\ (accum[it].theta + b) % 4 \in 0 .. 3
       /\ MergeTurns(replaced', accum[forward].id, accum[it].id, accum[it].theta, (accum[it].theta + b) % 4)
  BY <1>3, <1>8, <1>10, <1>11
<1>13. MergeAt(forward, it, d, replaced')
  BY <1>3, <1>4, <1>5, <1>7, <1>8, <1>9, <1>10, <1>12 DEF MergeAt
<1>14. QED
  BY <1>1, <1>3, <1>4, <1>13

(* The first element has not been merged before.                           *)
LEMMA MergesKept ==
  ASSUME Inv, FoldingInv, pc = "fold", NEW n, NEW d, NEW after, MergeAt(n, it, d, after)
  PROVE  replaced[accum[n].id] = Kept
<1>1. /\ n \in 1 .. it - 1 /\ it \in 2 .. Len(accum) /\ accum[n].kind = "rotation"
      /\ accum[it].kind = "rotation" /\ UpToSign(Moved(accum, it, n), accum[n].pauli)
  BY DEF MergeAt
<1>2. CASE n = 1
  <2>1. SUFFICES ASSUME replaced[accum[1].id] # Kept PROVE FALSE
    BY <1>2
  <2>2. PICK N \in Nat : N = Len(accum) /\ N > 0
    <3>1. IsList(accum)
      BY Program
    <3>2. Len(accum) \in Nat
      BY <3>1, RangeOfList
    <3>3. QED
      BY <1>1, <3>2
  <2>3. PICK g : Guards(g, accum, it)
    BY <1>1, <1>2, <2>1, <2>2 DEF FoldingInv
  <2>4. Elements(accum, N)
    BY <2>2 DEF FoldingInv
  <2>5. it \in 2 .. N /\ accum[1].kind = "rotation" /\ UpToSign(Moved(accum, it, 1), accum[1].pauli)
    BY <1>1, <1>2, <2>2
  <2>6. QED
    BY <1>1, <2>3, <2>4, <2>5, NeverToFirst
<1>3. CASE n # 1
  <2>1. n \in 2 .. it
    BY <1>1, <1>3
  <2>2. KeptIn(accum, 2, it)
    BY DEF Inv, FoldInv
  <2>3. QED
    BY <1>1, <2>1, <2>2 DEF KeptIn
<1>4. QED
  BY <1>2, <1>3

LEMMA MergeMeaning ==
  ASSUME Inv, ChannelInv, FoldingInv, Merge, NEW after, after = replaced'
  PROVE  after \in Angles(program) /\ SameMeaning(program, after)
<1>1. PICK d : d = Scope(program, next)
  OBVIOUS
<1>2. PICK n : n = forward
  OBVIOUS
<1>3. MergeAt(n, it, d, after) /\ pc = "fold"
  BY <1>1, <1>2, MergeFinds
<1>4. PICK m : m = it
  OBVIOUS
<1>5. PICK b \in 0 .. 3 :
        /\ MergedBy(Moved(accum, m, n), accum[n].pauli, accum[n].theta, b)
        /\ (accum[m].theta + b) % 4 \in 0 .. 3
        /\ MergeTurns(after, accum[n].id, accum[m].id, accum[m].theta, (accum[m].theta + b) % 4)
  BY <1>3, <1>4 DEF MergeAt
<1>6. /\ n \in 1 .. m - 1 /\ m \in 2 .. Len(accum)
      /\ accum[n].kind = "rotation" /\ accum[m].kind = "rotation"
      /\ accum[n].id \in 1 .. Len(program) /\ accum[m].id \in 1 .. Len(program)
      /\ \A k \in {accum[n].id, accum[m].id} :
           program[k].op = "rot" /\ ~program[k].cond /\ Scope(program, k) = d
      /\ \A k \in n + 1 .. m - 1 : Clear(accum[k], Moved(accum, m, k))
      /\ replaced[accum[m].id] = Kept
  BY <1>3, <1>4 DEF MergeAt
<1>7. replaced[accum[n].id] = Kept
  BY <1>3, MergesKept
<1>8. PICK c \in 0 .. 3 : c = (accum[m].theta + b) % 4
  BY <1>5
<1>9. /\ after = [k \in 1 .. Len(program) |-> after[k]]
      /\ after[accum[n].id] = 0
      /\ after[accum[m].id] = c \/ (after[accum[m].id] = Kept /\ c = accum[m].theta)
      /\ \A k \in 1 .. Len(program) : k \notin {accum[n].id, accum[m].id} => after[k] = replaced[k]
  BY <1>5, <1>8 DEF MergeTurns
<1>10. replaced \in Angles(program) /\ SameMeaning(program, replaced)
  BY DEF FoldingInv
<1>11. after \in Angles(program)
  <2>1. \A k \in 1 .. Len(program) : \/ after[k] = replaced[k]
                                     \/ after[k] \in 0 .. 3 /\ program[k].op = "rot" /\ ~program[k].cond
    BY <1>6, <1>9
  <2>2. QED
    BY <1>9, <1>10, <2>1, NewAngles
<1>12. \A k \in 1 .. Len(program) : replaced[k] = 0 => after[k] = 0
  BY MergeInv
<1>13. /\ IsList(accum) /\ WellFormed(program) /\ Elements(accum, Len(accum))
       /\ InScope(program, accum, d) /\ FoldAll(program, accum, replaced, d)
  BY <1>1, <1>3, RotationsOfList
<1>14. \A j, k \in 1 .. Len(accum) :
         accum[j].kind = "rotation" /\ accum[k].kind = "rotation" /\ accum[j].id = accum[k].id => j = k
  BY <1>1, <1>3, RotationsOfList
<1>15. PICK h : h = [k \in 0 .. m - 1 |-> Moved(accum, m, k)]
  OBVIOUS
<1>16. WayTo(accum, n, m, h) /\ h[m - 1] = accum[m].pauli /\ h[n] = Moved(accum, m, n)
  <2>1. PICK N \in Nat : N = Len(accum)
    BY <1>13, RangeOfList
  <2>2. Elements(accum, N) /\ m \in 1 .. N
    BY <1>6, <1>13, <2>1
  <2>3. QED
    BY <1>6, <1>15, <2>1, <2>2, WayOfMoved
<1>17. MergesInto(accum, n, m, h, b, replaced, after)
  <2>1. n \in 1 .. Len(accum) /\ m \in n + 1 .. Len(accum)
    <3>1. Len(accum) \in Nat
      BY <1>13, RangeOfList
    <3>2. QED
      BY <1>6, <3>1
  <2>2. (IF after[accum[m].id] = Kept THEN accum[m].theta ELSE after[accum[m].id]) = (accum[m].theta + b) % 4
    <3>1. c # Kept
      BY DEF Kept
    <3>2. QED
      BY <1>8, <1>9, <3>1
  <2>3. MergedBy(h[n], accum[n].pauli, accum[n].theta, b)
    BY <1>5, <1>16
  <2>4. QED
    BY <1>5, <1>6, <1>7, <1>9, <1>16, <2>1, <2>2, <2>3 DEF MergesInto
<1>18. Meaning(Rewritten(program, after), d, Len(program)) = Meaning(Rewritten(program, replaced), d, Len(program))
  BY <1>9, <1>10, <1>11, <1>12, <1>13, <1>14, <1>17, MergedMeaning
<1>19. \A k \in 1 .. Len(program) : after[k] = replaced[k] \/ Scope(program, k) = d
  BY <1>6, <1>9
<1>20. QED
  BY <1>10, <1>11, <1>13, <1>18, <1>19, OneScope

-----------------------------------------------------------------------------
(* The list after a merge, and the first element of it                     *)
LEMMA MergeList ==
  ASSUME Inv, ChannelInv, FoldingInv, Merge, NEW d, d = Scope(program, next),
         NEW after, after = replaced', NEW list, list = accum'
  PROVE  /\ Elements(list, Len(list)) /\ FoldAll(program, list, after, d)
         /\ list[1].kind = "rotation" /\ after[list[1].id] # Kept =>
              \E g : Guards(g, list, it')
<1>1. PICK n : n = forward
  OBVIOUS
<1>2. PICK m : m = it
  OBVIOUS
<1>3. /\ MergeAt(n, m, d, after) /\ pc = "fold"
      /\ list = ErasedFrom(n) /\ it' = m - 1 - (Len(accum) - Len(list))
  BY <1>1, <1>2, MergeFinds
<1>4. PICK theta, c : MergeTurns(after, accum[n].id, accum[m].id, theta, c)
  BY <1>3 DEF MergeAt
<1>5. /\ n \in 1 .. m - 1 /\ m \in 2 .. Len(accum)
      /\ accum[n].kind = "rotation" /\ accum[m].kind = "rotation"
      /\ UpToSign(Moved(accum, m, n), accum[n].pauli)
      /\ \A k \in n + 1 .. m - 1 : Clear(accum[k], Moved(accum, m, k))
  BY <1>3 DEF MergeAt
<1>6. /\ IsList(accum) /\ Elements(accum, Len(accum))
      /\ InScope(program, accum, d) /\ FoldAll(program, accum, replaced, d)
  BY <1>3, RotationsOfList
<1>7. PICK N \in Nat : N = Len(accum)
  BY <1>6, RangeOfList
<1>8. m \in 2 .. N /\ n \in 1 .. N /\ m \in 1 .. N /\ m - 1 \in Nat /\ n \in Nat /\ m \in Nat
  BY <1>5, <1>7
<1>9. \A k \in 1 .. Len(program) : replaced[k] = 0 => after[k] = 0
  BY MergeInv
<1>10. after[accum[n].id] = 0
  BY <1>4 DEF MergeTurns
<1>11. CASE n = 1
  <2>1. list = accum /\ it' = m - 1
    <3>1. list = accum
      BY <1>3, <1>11 DEF ErasedFrom
    <3>2. it' = m - 1 - (N - N)
      BY <1>3, <1>7, <3>1
    <3>3. QED
      BY <1>8, <3>1, <3>2
  <2>2. FoldAll(program, accum, after, d)
    BY <1>6, <1>9, FoldLess
  <2>3. \E g : Guards(g, accum, m - 1)
    <3>1. UpToSign(Moved(accum, m, 1), accum[1].pauli) /\ \A k \in 2 .. m - 1 : Clear(accum[k], Moved(accum, m, k))
      BY <1>5, <1>11
    <3>2. Elements(accum, N)
      BY <1>6, <1>7
    <3>3. QED
      BY <1>5, <1>8, <3>1, <3>2, MovedGuards
  <2>4. QED
    BY <1>6, <2>1, <2>2, <2>3
<1>12. CASE n # 1
  <2>1. list = RemoveAt(accum, n)
    BY <1>3, <1>12 DEF ErasedFrom
  <2>2. Len(list) = N - 1 /\ \A k \in 1 .. N - 1 : list[k] = IF k < n THEN accum[k] ELSE accum[k + 1]
    BY <1>6, <1>7, <1>8, <2>1, RemoveAtList
  <2>3. Elements(list, Len(list)) /\ FoldAll(program, list, after, d)
    BY <1>5, <1>6, <1>7, <1>8, <1>9, <1>10, <2>1, FoldErased
  <2>4. it' = m - 2 /\ m - 2 \in Nat
    <3>1. it' = m - 1 - (N - (N - 1))
      BY <1>3, <1>7, <2>2
    <3>2. QED
      BY <1>8, <3>1
  <2>5. ASSUME list[1].kind = "rotation", after[list[1].id] # Kept
        PROVE  \E g : Guards(g, list, it')
    <3>1. list[1] = accum[1]
      <4>1. 1 \in 1 .. N - 1 /\ 1 < n
        BY <1>5, <1>8, <1>12
      <4>2. QED
        BY <2>2, <4>1
    <3>2. 1 \in 1 .. N /\ 1 # n /\ 1 # m /\ N > 0
      BY <1>8, <1>12
    <3>3. accum[1].id \notin {accum[n].id, accum[m].id} /\ accum[1].id \in 1 .. Len(program)
      BY <1>3, <1>5, <1>7, <1>8, <2>5, <3>1, <3>2, RotationsOfList
    <3>4. after[accum[1].id] = replaced[accum[1].id]
      BY <1>4, <3>3 DEF MergeTurns
    <3>5. PICK g : Guards(g, accum, m)
      BY <1>2, <1>3, <1>7, <2>5, <3>1, <3>2, <3>4 DEF FoldingInv
    <3>6. IsWithout(list, accum, n, N)
      BY <2>2 DEF IsWithout
    <3>7. n \in 2 .. m /\ m <= N
      BY <1>5, <1>8, <1>12
    <3>8. PICK h : Guards(h, list, m - 1)
      BY <1>5, <1>8, <3>5, <3>6, <3>7, GuardsErased
    <3>9. m - 2 <= m - 1
      BY <1>8
    <3>10. Guards(h, list, m - 2)
      BY <1>8, <2>4, <3>8, <3>9, GuardsLess
    <3>11. QED
      BY <2>4, <3>10
  <2>6. QED
    BY <2>3, <2>5
<1>13. QED
  BY <1>11, <1>12

LEMMA MergeFolding ==
  ASSUME Inv, ChannelInv, FoldingInv, Merge
  PROVE  FoldingInv'
<1>1. PICK d : d = Scope(program, next)
  OBVIOUS
<1>2. pc = "fold" /\ moving' = Nothing /\ UNCHANGED <<program, next, pc>>
  BY MergeFinds
<1>3. PICK after : after = replaced'
  OBVIOUS
<1>4. PICK list : list = accum'
  OBVIOUS
<1>5. /\ Elements(list, Len(list)) /\ FoldAll(program, list, after, d)
      /\ list[1].kind = "rotation" /\ after[list[1].id] # Kept => \E g : Guards(g, list, it')
  BY <1>1, <1>3, <1>4, MergeList
<1>6. after \in Angles(program) /\ SameMeaning(program, after)
  BY <1>3, MergeMeaning
<1>7. Scope(program', next') = d
  BY <1>1, <1>2
<1>8. QED
  BY <1>2, <1>3, <1>4, <1>5, <1>6, <1>7 DEF FoldingInv

LEMMA NextFolding == Inv /\ ChannelInv /\ FoldingInv /\ [Next]_vars => FoldingInv'
<1> SUFFICES ASSUME Inv, ChannelInv, FoldingInv, [Next]_vars PROVE FoldingInv'
  OBVIOUS
<1>1. it \in Nat /\ (pc # "fold" => moving = Nothing)
  BY DEF Inv, TypeInv
<1>2. CASE Visit
  <2>1. pc' # "fold" /\ UNCHANGED <<program, replaced>>
    BY <1>2 DEF Visit
  <2>2. QED
    BY <2>1, QuietFolding
<1>3. CASE StartFold
  BY <1>3, StartFoldFolding
<1>4. CASE SkipElement
  <2>1. /\ pc = "fold" /\ UNCHANGED <<program, replaced, next, accum>> /\ moving' = Nothing
        /\ it' = it - 1 /\ it > 0
    BY <1>4 DEF SkipElement, Folding
  <2>2. it' \in Nat /\ it' <= it
    BY <1>1, <2>1
  <2>3. QED
    BY <2>1, <2>2, QuietFolding
<1>5. CASE TakeRotation
  BY <1>5, TakeRotationFolding
<1>6. CASE EndFold
  <2>1. pc' # "fold" /\ UNCHANGED <<program, replaced>>
    BY <1>6 DEF EndFold
  <2>2. QED
    BY <2>1, QuietFolding
<1>7. CASE Merge
  BY <1>7, MergeFolding
<1>8. CASE Pass
  BY <1>8, PassFolding
<1>9. CASE Stop
  BY <1>9, StopFolding
<1>10. CASE UNCHANGED vars
  <2>1. UNCHANGED <<program, next, pc, accum, it, forward, moving, replaced>>
    BY <1>10 DEF vars
  <2>2. Scope(program', next') = Scope(program, next)
    BY <2>1
  <2>3. QED
    BY <2>1, <2>2 DEF FoldingInv
<1>11. QED
  BY <1>2, <1>3, <1>4, <1>5, <1>6, <1>7, <1>8, <1>9, <1>10 DEF Next

(* The optimizer keeps the meaning of the main program and of every gate   *)
(* body, whatever the program, and however many rotations it has merged.   *)
THEOREM FoldingPreserves == Spec => []MeaningPreserved
<1>1. FoldingInv => MeaningPreserved
  BY DEF FoldingInv, SameMeaning, MeaningPreserved
<1>2. Inv /\ ChannelInv /\ [Next]_vars /\ FoldingInv => FoldingInv'
  BY NextFolding
<1>3. QED
  BY <1>1, <1>2, InitInv, NextInv, InitChannel, NextChannel, InitFolding, NextFolding, PTL DEF Spec

=============================================================================
