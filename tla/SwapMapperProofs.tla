-------------------------- MODULE SwapMapperProofs --------------------------
(***************************************************************************)
(* Proofs about SwapMapper, for every number of qubits, every set of       *)
(* devices whose shortest_path answers as IsAnswer says, and every set of  *)
(* programs.                                                               *)
(***************************************************************************)
EXTENDS SwapMapper, SequenceTheorems, WellFoundedInduction, TLAPS

(* The part of cnot_chain that is left: a walk over couplings that starts  *)
(* where the control is, or next to it, and repeats no qubit.              *)
ChainInv ==
  chain # <<>> =>
    /\ todo # <<>> /\ Head(todo).op = "cx"
    /\ cur # tgt
    /\ \/ Head(chain) = cur
       \/ Linked(device, cur, Head(chain))
    /\ \A n \in 1 .. Len(chain) - 1 : Linked(device, chain[n], chain[n + 1])

SafetyInv == TypeOK /\ PermutationIsBijection /\ RespectsCouplings /\ ChainInv

(* A coupling joins two different qubits. *)
LEMMA LinkedQubits ==
  ASSUME NEW d, IsDevice(d), NEW i \in Qubits, NEW j \in Qubits, Linked(d, i, j)
  PROVE  /\ i # j
         /\ <<i, j>> \notin d.couplings => <<j, i>> \in d.couplings
BY DEF IsDevice, Linked

(* Rewriting a frame gives a frame. *)
LEMMA PlusType ==
  ASSUME NEW Q, NEW A \in Operators(Q), NEW B \in Operators(Q)
  PROVE  Plus(A, B) \in Operators(Q)
BY DEF Plus, Operators

LEMMA CXType ==
  ASSUME NEW Q, NEW f \in Frames(Q), NEW c \in Q, NEW t \in Q
  PROVE  CX(f, c, t) \in Frames(Q)
<1>1. /\ Plus(f[c].x, f[t].x) \in Operators(Q)
      /\ Plus(f[t].z, f[c].z) \in Operators(Q)
  BY PlusType DEF Frames
<1>2. QED
  BY <1>1 DEF CX, Frames

LEMMA HadType ==
  ASSUME NEW Q, NEW f \in Frames(Q), NEW h \in Q
  PROVE  Had(f, h) \in Frames(Q)
BY DEF Had, Frames

(* Gate lists whose CNOTs are all on couplings, and in their direction. *)
OnCouplings(s) ==
  \A n \in DOMAIN s :
    s[n].op = "cx" => <<s[n].args[1], s[n].args[2]>> \in device.couplings

LEMMA OnCouplingsConcat ==
  ASSUME NEW s \in Seq(Gates), NEW t \in Seq(Gates), OnCouplings(s), OnCouplings(t)
  PROVE  s \o t \in Seq(Gates) /\ OnCouplings(s \o t)
<1>1. s \o t \in Seq(Gates)
  OBVIOUS
<1>2. ASSUME NEW n \in DOMAIN (s \o t)
      PROVE  (s \o t)[n].op = "cx" =>
               <<(s \o t)[n].args[1], (s \o t)[n].args[2]>> \in device.couplings
  <2>1. CASE n \in DOMAIN s
    <3>1. (s \o t)[n] = s[n]
      BY <2>1
    <3>2. QED
      BY <2>1, <3>1 DEF OnCouplings
  <2>2. CASE n \notin DOMAIN s
    <3>1. (s \o t)[n] = t[n - Len(s)] /\ n - Len(s) \in DOMAIN t
      BY <2>2
    <3>2. QED
      BY <3>1 DEF OnCouplings
  <2>3. QED
    BY <2>1, <2>2
<1>3. QED
  BY <1>1, <1>2 DEF OnCouplings

(* The gates of one CNOT, and of one swap, between two linked qubits. *)
LEMMA OneCNOTOK ==
  ASSUME IsDevice(device), NEW p \in device.couplings, Head(todo) \in Gates
  PROVE  /\ NewGate("cx", <<p[1], p[2]>>) \in Gates
         /\ <<NewGate("cx", <<p[1], p[2]>>)>> \in Seq(Gates)
         /\ OnCouplings(<<NewGate("cx", <<p[1], p[2]>>)>>)
<1> DEFINE g == NewGate("cx", <<p[1], p[2]>>)
<1>1. /\ p[1] \in Qubits /\ p[2] \in Qubits /\ p[1] # p[2] /\ p = <<p[1], p[2]>>
      /\ Head(todo).cond \in BOOLEAN
  BY DEF IsDevice, Gates
<1>2. /\ <<p[1], p[2]>> \in Seq(Qubits) /\ Len(<<p[1], p[2]>>) = 2
      /\ g.op = "cx" /\ g.args = <<p[1], p[2]>> /\ g.cond = Head(todo).cond
  BY <1>1 DEF NewGate, Gate
<1>3. g \in [op : Names \cup {"cx", "h"}, args : Seq(Qubits), cond : BOOLEAN]
  BY <1>1, <1>2 DEF NewGate, Gate
<1>4. g \in Gates
  BY <1>1, <1>2, <1>3 DEF Gates
<1>5. OnCouplings(<<g>>)
  <2>1. \A n \in DOMAIN <<g>> : <<g>>[n] = g
    OBVIOUS
  <2>2. QED
    BY <1>1, <1>2, <2>1 DEF OnCouplings
<1>6. QED
  BY <1>4, <1>5

LEMMA OneHadamardOK ==
  ASSUME NEW i \in Qubits, Head(todo) \in Gates
  PROVE  NewGate("h", <<i>>) \in Gates /\ NewGate("h", <<i>>).op # "cx"
<1>1. Head(todo).cond \in BOOLEAN
  BY DEF Gates
<1>2. NewGate("h", <<i>>) \in [op : Names \cup {"cx", "h"}, args : Seq(Qubits), cond : BOOLEAN]
  BY <1>1 DEF NewGate, Gate
<1>3. NewGate("h", <<i>>).op = "h" /\ "h" # "cx"
  BY DEF NewGate, Gate
<1>4. QED
  BY <1>2, <1>3 DEF Gates

LEMMA CNOTGatesOK ==
  ASSUME IsDevice(device), NEW i \in Qubits, NEW j \in Qubits, Linked(device, i, j),
         Head(todo) \in Gates
  PROVE  CNOTGates(i, j) \in Seq(Gates) /\ OnCouplings(CNOTGates(i, j))
<1>1. CASE Coupled(i, j)
  <2>1. /\ <<NewGate("cx", <<i, j>>)>> \in Seq(Gates)
        /\ OnCouplings(<<NewGate("cx", <<i, j>>)>>)
    BY <1>1, OneCNOTOK DEF Coupled
  <2>2. QED
    BY <1>1, <2>1 DEF CNOTGates
<1>2. CASE ~Coupled(i, j)
  <2> DEFINE hi == NewGate("h", <<i>>)
             hj == NewGate("h", <<j>>)
             hh == <<hi, hj>>
             cx == <<NewGate("cx", <<j, i>>)>>
  <2>1. <<j, i>> \in device.couplings
    BY <1>2, LinkedQubits DEF Coupled
  <2>2. cx \in Seq(Gates) /\ OnCouplings(cx)
    BY <2>1, OneCNOTOK
  <2>3. hi \in Gates /\ hi.op # "cx" /\ hj \in Gates /\ hj.op # "cx"
    BY OneHadamardOK
  <2>4. hh \in Seq(Gates) /\ OnCouplings(hh)
    <3> HIDE DEF hi, hj
    <3>1. DOMAIN hh = {1, 2} /\ hh[1] = hi /\ hh[2] = hj
      OBVIOUS
    <3>2. hh \in Seq(Gates)
      BY <2>3
    <3>3. QED
      BY <2>3, <3>1, <3>2 DEF OnCouplings
  <2>5. (hh \o cx) \o hh \in Seq(Gates) /\ OnCouplings((hh \o cx) \o hh)
    <3> HIDE DEF hh, cx
    <3>1. hh \o cx \in Seq(Gates) /\ OnCouplings(hh \o cx)
      BY <2>2, <2>4, OnCouplingsConcat
    <3>2. QED
      BY <2>4, <3>1, OnCouplingsConcat
  <2>6. CNOTGates(i, j) = (hh \o cx) \o hh
    BY <1>2 DEF CNOTGates
  <2>7. QED
    BY <2>5, <2>6
<1>3. QED
  BY <1>1, <1>2

LEMMA SwapGatesOK ==
  ASSUME IsDevice(device), NEW i \in Qubits, NEW j \in Qubits, Linked(device, i, j),
         Head(todo) \in Gates
  PROVE  SwapGates(i, j) \in Seq(Gates) /\ OnCouplings(SwapGates(i, j))
<1> DEFINE a == IF Coupled(i, j) THEN i ELSE j
           b == IF Coupled(i, j) THEN j ELSE i
           outer == <<NewGate("cx", <<a, b>>)>>
<1>1. a \in Qubits /\ b \in Qubits /\ a # b
  BY LinkedQubits
<1>2. <<a, b>> \in device.couplings /\ Linked(device, b, a)
  BY LinkedQubits DEF Coupled, Linked
<1>3. outer \in Seq(Gates) /\ OnCouplings(outer)
  BY <1>2, OneCNOTOK
<1>4. CNOTGates(b, a) \in Seq(Gates) /\ OnCouplings(CNOTGates(b, a))
  BY <1>1, <1>2, CNOTGatesOK
<1>5. outer \o CNOTGates(b, a) \in Seq(Gates) /\ OnCouplings(outer \o CNOTGates(b, a))
  BY <1>3, <1>4, OnCouplingsConcat
<1>6. (outer \o CNOTGates(b, a)) \o outer \in Seq(Gates)
      /\ OnCouplings((outer \o CNOTGates(b, a)) \o outer)
  BY <1>3, <1>5, OnCouplingsConcat
<1>7. QED
  BY <1>6 DEF SwapGates

(* The frames of one CNOT and of one swap. *)
LEMMA CNOTFrameType ==
  ASSUME NEW f \in Frames(Qubits), NEW i \in Qubits, NEW j \in Qubits
  PROVE  CNOTFrame(f, i, j) \in Frames(Qubits)
<1>1. Had(Had(f, i), j) \in Frames(Qubits)
  BY HadType
<1>2. CX(Had(Had(f, i), j), j, i) \in Frames(Qubits)
  BY <1>1, CXType
<1>3. Had(Had(CX(Had(Had(f, i), j), j, i), i), j) \in Frames(Qubits)
  BY <1>2, HadType
<1>4. QED
  BY <1>3, CXType DEF CNOTFrame

LEMMA SwapFrameType ==
  ASSUME NEW f \in Frames(Qubits), NEW i \in Qubits, NEW j \in Qubits
  PROVE  SwapFrame(f, i, j) \in Frames(Qubits)
<1> DEFINE a == IF Coupled(i, j) THEN i ELSE j
           b == IF Coupled(i, j) THEN j ELSE i
<1>1. CX(f, a, b) \in Frames(Qubits)
  BY CXType
<1>2. CNOTFrame(CX(f, a, b), b, a) \in Frames(Qubits)
  BY <1>1, CNOTFrameType
<1>3. CX(CNOTFrame(CX(f, a, b), b, a), a, b) \in Frames(Qubits)
  BY <1>2, CXType
<1>4. QED
  BY <1>3 DEF SwapFrame

-----------------------------------------------------------------------------
(* Every state has the safety invariant: the permutation is a bijection    *)
(* and every CNOT emitted is on a coupling, whatever the devices and the   *)
(* programs are.                                                           *)

LEMMA InitSafe == Init => SafetyInv
<1> SUFFICES ASSUME Init PROVE SafetyInv
  OBVIOUS
<1>1. IdentityFrame(Qubits) \in Frames(Qubits)
  BY DEF IdentityFrame, Frames, Operators, Generators
<1>2. TypeOK
  BY <1>1, SizeAssumption, DeviceAssumption, ProgramAssumption DEF Init, TypeOK, Qubits
<1>3. PermutationIsBijection /\ RespectsCouplings /\ ChainInv
  BY DEF Init, PermutationIsBijection, RespectsCouplings, ChainInv
<1>4. QED
  BY <1>2, <1>3 DEF SafetyInv

(* What the head of a nonempty chain is. *)
LEMMA ChainHead ==
  ASSUME TypeOK, ChainInv, chain # <<>>
  PROVE  /\ Head(chain) \in Qubits /\ Tail(chain) \in Seq(Qubits)
         /\ todo # <<>> /\ Head(todo) \in Gates /\ Tail(todo) \in Seq(Gates)
BY DEF TypeOK, ChainInv

(* The rest of a chain is a chain again, for the control that has moved.   *)
LEMMA AdvanceSafe ==
  ASSUME TypeOK, ChainInv, chain # <<>>, Head(chain) # tgt, Advance,
         UNCHANGED <<device, tgt>>
  PROVE  /\ ChainInv'
         /\ chain' \in Seq(Qubits) /\ cur' \in Qubits /\ todo' \in Seq(Gates)
<1>1. chain' \in Seq(Qubits) /\ cur' \in Qubits /\ todo' \in Seq(Gates)
  BY ChainHead DEF Advance, TypeOK
<1>2. ASSUME chain' # <<>> PROVE ChainInv'
  <2>1. /\ chain \in Seq(Qubits) /\ chain' = Tail(chain) /\ cur' = chain[1] /\ todo' = todo
        /\ Len(chain) > 1 /\ Head(chain') = chain[2] /\ Len(chain') = Len(chain) - 1
    BY <1>2 DEF Advance, TypeOK
  <2>2. \A n \in 1 .. Len(chain) - 1 : Linked(device, chain[n], chain[n + 1])
    BY DEF ChainInv
  <2>3. Linked(device', cur', Head(chain'))
    <3>1. Linked(device, chain[1], chain[1 + 1])
      BY <2>1, <2>2
    <3>2. QED
      BY <2>1, <3>1
  <2>4. ASSUME NEW n \in 1 .. Len(chain') - 1
        PROVE  Linked(device', chain'[n], chain'[n + 1])
    <3>1. chain'[n] = chain[n + 1] /\ chain'[n + 1] = chain[(n + 1) + 1]
      BY <2>1
    <3>2. QED
      BY <2>1, <2>2, <3>1
  <2>5. QED
    BY <2>1, <2>3, <2>4 DEF ChainInv, Advance
<1>3. QED
  BY <1>1, <1>2 DEF ChainInv

LEMMA NextSafe == SafetyInv /\ [Next]_vars => SafetyInv'
<1> SUFFICES ASSUME SafetyInv, [Next]_vars PROVE SafetyInv'
  OBVIOUS
<1> USE DEF SafetyInv
<1>1. CASE VisitOther
  <2> DEFINE h == Head(todo)
             g == [h EXCEPT !.args = [n \in DOMAIN @ |-> permutation[@[n]]]]
  <2>1. h \in Gates /\ h.op # "cx" /\ Tail(todo) \in Seq(Gates)
    BY <1>1 DEF VisitOther, TypeOK
  <2>2. g \in Gates /\ g.op # "cx"
    <3>1. /\ Len(h.args) \in Nat /\ DOMAIN h.args = 1 .. Len(h.args)
          /\ \A n \in 1 .. Len(h.args) : permutation[h.args[n]] \in Qubits
      BY <2>1 DEF TypeOK, Gates
    <3>2. [n \in 1 .. Len(h.args) |-> permutation[h.args[n]]] \in Seq(Qubits)
      BY <3>1
    <3>3. QED
      BY <2>1, <3>1, <3>2 DEF Gates
  <2>3. out' = Append(out, g) /\ todo' = Tail(todo)
    BY <1>1 DEF VisitOther
  <2>4. TypeOK'
    BY <1>1, <2>1, <2>2, <2>3 DEF VisitOther, TypeOK, IsDevice, loop
  <2>5. RespectsCouplings'
    <3> HIDE DEF g
    <3>1. \A n \in DOMAIN out' : out'[n] = g \/ (n \in DOMAIN out /\ out'[n] = out[n])
      BY <2>2, <2>3 DEF TypeOK
    <3>2. device' = device
      BY <1>1 DEF VisitOther
    <3>3. QED
      BY <2>2, <3>1, <3>2 DEF RespectsCouplings
  <2>6. PermutationIsBijection' /\ ChainInv'
    BY <1>1 DEF VisitOther, PermutationIsBijection, ChainInv, loop
  <2>7. QED
    BY <2>4, <2>5, <2>6
<1>2. CASE VisitCNOT
  <2> DEFINE a == Head(todo).args
  <2>1. Head(todo) \in Gates /\ a[1] \in Qubits /\ a[2] \in Qubits /\ a[1] # a[2]
    BY <1>2 DEF VisitCNOT, TypeOK, Gates
  <2>2. cur' \in Qubits /\ tgt' \in Qubits /\ cur' # tgt'
    BY <1>2, <2>1 DEF VisitCNOT, TypeOK, PermutationIsBijection
  <2>3. IsAnswer(device, chain', cur', tgt')
    BY <1>2, <2>2 DEF VisitCNOT, TypeOK, IsDevice
  <2>4. /\ chain' \in Seq(Qubits) /\ chain' # <<>> /\ Head(chain') = cur'
        /\ \A n \in 1 .. Len(chain') - 1 : Linked(device, chain'[n], chain'[n + 1])
    <3>1. CASE chain' = <<cur'>>
      BY <2>2, <3>1
    <3>2. CASE chain' # <<cur'>>
      BY <2>2, <2>3, <3>2 DEF IsAnswer
    <3>3. QED
      BY <3>1, <3>2
  <2>5. TypeOK'
    BY <1>2, <2>2, <2>4 DEF VisitCNOT, TypeOK, IsDevice
  <2>6. ChainInv'
    BY <1>2, <2>2, <2>4 DEF VisitCNOT, ChainInv
  <2>7. QED
    BY <1>2, <2>5, <2>6 DEF VisitCNOT, PermutationIsBijection, RespectsCouplings
<1>3. CASE SkipControl
  <2>1. /\ ChainInv'
        /\ chain' \in Seq(Qubits) /\ cur' \in Qubits /\ todo' \in Seq(Gates)
    BY <1>3, AdvanceSafe DEF SkipControl
  <2>2. QED
    BY <1>3, <2>1 DEF SkipControl, TypeOK, IsDevice, PermutationIsBijection, RespectsCouplings
<1>4. CASE SwapStep
  <2> DEFINE i == cur
             j == Head(chain)
  <2>1. /\ ChainInv'
        /\ chain' \in Seq(Qubits) /\ cur' \in Qubits /\ todo' \in Seq(Gates)
    BY <1>4, AdvanceSafe DEF SwapStep
  <2>2. i \in Qubits /\ j \in Qubits /\ Linked(device, i, j) /\ Head(todo) \in Gates
    BY <1>4, ChainHead DEF SwapStep, ChainInv, TypeOK
  <2>3. SwapGates(i, j) \in Seq(Gates) /\ OnCouplings(SwapGates(i, j))
    BY <2>2, SwapGatesOK DEF TypeOK
  <2>4. out' = out \o SwapGates(i, j) /\ device' = device
    BY <1>4 DEF SwapStep, Emit
  <2>5. out' \in Seq(Gates) /\ RespectsCouplings'
    BY <2>3, <2>4, OnCouplingsConcat DEF TypeOK, RespectsCouplings, OnCouplings
  <2>6. frame' \in Frames(Qubits)
    BY <1>4, <2>2, SwapFrameType DEF SwapStep, Emit, TypeOK
  <2>7. permutation' = [q \in Qubits |-> CASE permutation[q] = i -> j
                                           [] permutation[q] = j -> i
                                           [] OTHER -> permutation[q]]
    BY <1>4 DEF SwapStep
  <2>8. permutation' \in [Qubits -> Qubits] /\ PermutationIsBijection'
    BY <2>2, <2>7 DEF TypeOK, PermutationIsBijection
  <2>9. QED
    BY <1>4, <2>1, <2>5, <2>6, <2>8 DEF SwapStep, TypeOK, IsDevice
<1>5. CASE EmitCNOT
  <2>1. /\ cur \in Qubits /\ tgt \in Qubits /\ Linked(device, cur, tgt)
        /\ Head(todo) \in Gates /\ Tail(todo) \in Seq(Gates)
    BY <1>5, ChainHead DEF EmitCNOT, ChainInv, TypeOK
  <2>2. CNOTGates(cur, tgt) \in Seq(Gates) /\ OnCouplings(CNOTGates(cur, tgt))
    BY <2>1, CNOTGatesOK DEF TypeOK
  <2>3. out' = out \o CNOTGates(cur, tgt) /\ device' = device
    BY <1>5 DEF EmitCNOT, Emit
  <2>4. out' \in Seq(Gates) /\ RespectsCouplings'
    BY <2>2, <2>3, OnCouplingsConcat DEF TypeOK, RespectsCouplings, OnCouplings
  <2>5. frame' \in Frames(Qubits)
    BY <1>5, <2>1, CNOTFrameType DEF EmitCNOT, Emit, TypeOK
  <2>6. QED
    BY <1>5, <2>1, <2>4, <2>5
    DEF EmitCNOT, TypeOK, IsDevice, PermutationIsBijection, ChainInv
<1>6. CASE Done \/ UNCHANGED vars
  BY <1>6 DEF Done, vars, TypeOK, IsDevice, PermutationIsBijection, RespectsCouplings,
              ChainInv
<1>7. QED
  BY <1>1, <1>2, <1>3, <1>4, <1>5, <1>6 DEF Next

THEOREM Safety == Spec => []SafetyInv
BY InitSafe, NextSafe, PTL DEF Spec

(* The mapper's permutation is a bijection at every moment. *)
THEOREM PermutationBijective == Spec => []PermutationIsBijection
<1>1. SafetyInv => PermutationIsBijection
  BY DEF SafetyInv
<1>2. QED
  BY <1>1, Safety, PTL

(* Every CNOT emitted is one the device can execute. *)
THEOREM OutputRespectsCouplings == Spec => []RespectsCouplings
<1>1. SafetyInv => RespectsCouplings
  BY DEF SafetyInv
<1>2. QED
  BY <1>1, Safety, PTL

-----------------------------------------------------------------------------
(* The gates emitted do what frame says: executing one list after another  *)
(* is executing the second from where the first has led.                   *)

LEMMA LeastElement ==
  ASSUME NEW U \in SUBSET Nat, U # {}
  PROVE  \E n \in U : \A m \in U : ~(m < n)
<1>1. IsWellFoundedOn(OpToRel(<, Nat), Nat)
  BY NatLessThanWellFounded
<1>2. \E n \in U : \A m \in U : ~(<<m, n>> \in OpToRel(<, Nat))
  BY <1>1, WFMin
<1>3. QED
  BY <1>2 DEF OpToRel

(* Induction up to N, for a set in place of a predicate. *)
LEMMA Induction ==
  ASSUME NEW N \in Nat, NEW S, 0 \in S, \A n \in 0 .. N - 1 : n \in S => n + 1 \in S
  PROVE  \A n \in 0 .. N : n \in S
<1> DEFINE Missing == {n \in 0 .. N : n \notin S}
<1>1. SUFFICES ASSUME Missing # {} PROVE FALSE
  OBVIOUS
<1>2. PICK n \in Missing : \A m \in Missing : ~(m < n)
  <2>1. Missing \in SUBSET Nat
    OBVIOUS
  <2>2. QED
    BY <2>1, <1>1, LeastElement
<1>3. n - 1 \in 0 .. N - 1 /\ n - 1 \in S
  BY <1>2
<1>4. n - 1 + 1 = n
  BY <1>2
<1>5. QED
  BY <1>2, <1>3, <1>4

(* The frames after the first gates of s, up to the N-th. *)
FrameAfter(f, s, holds, n) ==
  IF n = 0 THEN IdentityFrame(Qubits) ELSE Execute(f[n - 1], s[n], holds)

IsRunTo(f, s, holds, N) == f = [n \in 0 .. N |-> FrameAfter(f, s, holds, n)]

LEMMA RunExists ==
  ASSUME NEW s, NEW holds, NEW N \in Nat
  PROVE  \E f : IsRunTo(f, s, holds, N)
<1> DEFINE reached == {n \in 0 .. N : \E f : IsRunTo(f, s, holds, n)}
<1>1. 0 \in reached
  <2> DEFINE f == [n \in 0 .. 0 |-> IdentityFrame(Qubits)]
  <2>1. f = [n \in 0 .. 0 |-> FrameAfter(f, s, holds, n)]
    <3>1. \A n \in 0 .. 0 : FrameAfter(f, s, holds, n) = IdentityFrame(Qubits)
      BY DEF FrameAfter
    <3>2. QED
      BY <3>1
  <2>2. IsRunTo(f, s, holds, 0)
    BY <2>1 DEF IsRunTo
  <2>3. QED
    BY <2>2
<1>2. \A n \in 0 .. N - 1 : n \in reached => n + 1 \in reached
  <2> SUFFICES ASSUME NEW n \in 0 .. N - 1, n \in reached PROVE n + 1 \in reached
    OBVIOUS
  <2>1. PICK f : IsRunTo(f, s, holds, n)
    OBVIOUS
  <2> DEFINE next == Execute(f[n], s[n + 1], holds)
             g == [m \in 0 .. n + 1 |-> IF m <= n THEN f[m] ELSE next]
  <2>2. ASSUME NEW m \in 0 .. n + 1 PROVE g[m] = FrameAfter(g, s, holds, m)
    <3>1. CASE m <= n
      <4>1. m \in 0 .. n /\ (m # 0 => m - 1 \in 0 .. n + 1 /\ m - 1 <= n)
        BY <3>1
      <4>2. f[m] = FrameAfter(f, s, holds, m)
        BY <2>1, <4>1 DEF IsRunTo
      <4>3. g[m] = f[m] /\ (m # 0 => g[m - 1] = f[m - 1])
        BY <3>1, <4>1
      <4>4. QED
        BY <4>2, <4>3 DEF FrameAfter
    <3>2. CASE ~(m <= n)
      <4>1. m = n + 1 /\ m - 1 = n /\ n \in 0 .. n + 1 /\ m # 0
        BY <3>2
      <4>2. g[m] = next /\ g[n] = f[n]
        BY <3>2, <4>1
      <4>3. QED
        BY <4>1, <4>2 DEF FrameAfter
    <3>3. QED
      BY <3>1, <3>2
  <2>3. g = [m \in 0 .. n + 1 |-> g[m]]
    OBVIOUS
  <2> HIDE DEF g
  <2>4. g = [m \in 0 .. n + 1 |-> FrameAfter(g, s, holds, m)]
    BY <2>2, <2>3
  <2>5. IsRunTo(g, s, holds, n + 1)
    BY <2>4 DEF IsRunTo
  <2>6. QED
    BY <2>5
<1> HIDE DEF reached
<1>3. \A n \in 0 .. N : n \in reached
  BY <1>1, <1>2, Induction
<1>4. QED
  BY <1>3 DEF reached

LEMMA ExecutedIsRun ==
  ASSUME NEW s, NEW holds, Len(s) \in Nat
  PROVE  \E f : IsRunTo(f, s, holds, Len(s)) /\ Executed(s, holds) = f[Len(s)]
<1> DEFINE after == CHOOSE after : after = [n \in 0 .. Len(s) |->
                      IF n = 0 THEN IdentityFrame(Qubits) ELSE Execute(after[n - 1], s[n], holds)]
<1>1. Executed(s, holds) = after[Len(s)]
  BY DEF Executed
<1>2. \E f : IsRunTo(f, s, holds, Len(s))
  BY RunExists
<1>3. IsRunTo(after, s, holds, Len(s))
  BY <1>2 DEF IsRunTo, FrameAfter
<1>4. QED
  BY <1>1, <1>3

(* Execution goes on from the end of s through t. *)
IsContinuation(r, s, t, holds) ==
  /\ r[0] = Executed(s, holds)
  /\ \A k \in 1 .. Len(t) : r[k] = Execute(r[k - 1], t[k], holds)
  /\ r[Len(t)] = Executed(s \o t, holds)

LEMMA ExecutedConcat ==
  ASSUME NEW s \in Seq(Gates), NEW t \in Seq(Gates), NEW holds
  PROVE  \E r : IsContinuation(r, s, t, holds)
<1>1. PICK whole : whole = s \o t
  OBVIOUS
<1>2. PICK M \in Nat : M = Len(s)
  OBVIOUS
<1>3. PICK N \in Nat : N = Len(t)
  OBVIOUS
<1>4. /\ Len(whole) = M + N /\ M + N \in Nat
      /\ \A n \in 1 .. M : whole[n] = s[n]
      /\ \A n \in 1 .. N : whole[M + n] = t[n]
  BY <1>1, <1>2, <1>3
<1>5. PICK f : IsRunTo(f, whole, holds, M + N) /\ Executed(whole, holds) = f[M + N]
  BY <1>4, ExecutedIsRun
<1>6. PICK g : IsRunTo(g, s, holds, M) /\ Executed(s, holds) = g[M]
  BY <1>2, ExecutedIsRun
<1>7. \A n \in 0 .. M + N : f[n] = FrameAfter(f, whole, holds, n)
  BY <1>5 DEF IsRunTo
<1>8. \A n \in 0 .. M : g[n] = FrameAfter(g, s, holds, n)
  BY <1>6 DEF IsRunTo
<1>9. f[M] = g[M]
  <2> DEFINE same == {n \in 0 .. M : f[n] = g[n]}
  <2>1. 0 \in same
    <3>1. 0 \in 0 .. M /\ 0 \in 0 .. M + N
      OBVIOUS
    <3>2. QED
      BY <1>7, <1>8, <3>1 DEF FrameAfter
  <2>2. \A n \in 0 .. M - 1 : n \in same => n + 1 \in same
    <3> SUFFICES ASSUME NEW n \in 0 .. M - 1, n \in same PROVE n + 1 \in same
      OBVIOUS
    <3>1. n + 1 \in 0 .. M /\ n + 1 \in 0 .. M + N /\ n + 1 \in 1 .. M /\ n + 1 - 1 = n /\ n + 1 # 0
      OBVIOUS
    <3>2. f[n + 1] = Execute(f[n], whole[n + 1], holds) /\ g[n + 1] = Execute(g[n], s[n + 1], holds)
      BY <1>7, <1>8, <3>1 DEF FrameAfter
    <3>3. whole[n + 1] = s[n + 1]
      BY <1>4, <3>1
    <3>4. QED
      BY <3>1, <3>2, <3>3
  <2> HIDE DEF same
  <2>3. \A n \in 0 .. M : n \in same
    BY <2>1, <2>2, Induction
  <2>4. M \in 0 .. M
    OBVIOUS
  <2>5. QED
    BY <2>3, <2>4 DEF same
<1>10. PICK r : r = [k \in 0 .. N |-> f[M + k]]
  OBVIOUS
<1>11. ASSUME NEW k \in 1 .. N PROVE r[k] = Execute(r[k - 1], t[k], holds)
  <2>1. M + k \in 0 .. M + N /\ M + k # 0 /\ M + k - 1 = M + (k - 1)
        /\ k - 1 \in 0 .. N /\ k \in 0 .. N
    OBVIOUS
  <2>2. f[M + k] = Execute(f[M + (k - 1)], whole[M + k], holds)
    BY <1>7, <2>1 DEF FrameAfter
  <2>3. r[k] = f[M + k] /\ r[k - 1] = f[M + (k - 1)] /\ whole[M + k] = t[k]
    BY <1>4, <1>10, <2>1
  <2>4. QED
    BY <2>2, <2>3
<1>12. r[0] = f[M] /\ r[N] = f[M + N]
  BY <1>10
<1>13. IsContinuation(r, s, t, holds)
  BY <1>1, <1>3, <1>5, <1>6, <1>9, <1>11, <1>12 DEF IsContinuation
<1>14. QED
  BY <1>13

LEMMA ExecutedOne ==
  ASSUME NEW s \in Seq(Gates), NEW g \in Gates, NEW holds
  PROVE  Executed(s \o <<g>>, holds) = Execute(Executed(s, holds), g, holds)
<1>1. <<g>> \in Seq(Gates) /\ Len(<<g>>) = 1 /\ <<g>>[1] = g
  OBVIOUS
<1>2. PICK r : IsContinuation(r, s, <<g>>, holds)
  BY <1>1, ExecutedConcat
<1>3. /\ r[0] = Executed(s, holds) /\ r[1] = Executed(s \o <<g>>, holds)
      /\ \A k \in 1 .. 1 : r[k] = Execute(r[k - 1], g, holds)
  BY <1>1, <1>2 DEF IsContinuation
<1>4. QED
  BY <1>3

(* The gates for one CNOT and for one swap, executed. *)
LEMMA CNOTGatesDo ==
  ASSUME NEW s \in Seq(Gates), NEW i \in Qubits, NEW j \in Qubits, CNOTGates(i, j) \in Seq(Gates)
  PROVE  Executed(s \o CNOTGates(i, j), bit) =
           IF Runs(Head(todo)) THEN CNOTFrame(Executed(s, bit), i, j) ELSE Executed(s, bit)
<1>1. PICK t : t = CNOTGates(i, j)
  OBVIOUS
<1>2. PICK r : IsContinuation(r, s, t, bit)
  BY <1>1, ExecutedConcat
<1>3. PICK start : start = Executed(s, bit)
  OBVIOUS
<1>4. /\ r[0] = start /\ \A k \in 1 .. Len(t) : r[k] = Execute(r[k - 1], t[k], bit)
      /\ r[Len(t)] = Executed(s \o t, bit)
  BY <1>2, <1>3 DEF IsContinuation
<1>5. Head(todo).cond /\ ~bit <=> ~Runs(Head(todo))
  BY DEF Runs
<1>6. CASE Coupled(i, j)
  <2>1. t = <<NewGate("cx", <<i, j>>)>>
    BY <1>1, <1>6 DEF CNOTGates
  <2>2. Len(t) = 1 /\ t[1] = NewGate("cx", <<i, j>>)
    BY <2>1
  <2>3. r[1] = Execute(r[0], t[1], bit)
    BY <1>4, <2>2
  <2>4. r[1] = IF Runs(Head(todo)) THEN CX(start, i, j) ELSE start
    BY <1>4, <1>5, <2>2, <2>3 DEF Execute, NewGate, Gate
  <2>5. QED
    BY <1>1, <1>3, <1>4, <1>6, <2>2, <2>4 DEF CNOTFrame
<1>7. CASE ~Coupled(i, j)
  <2>1. t = <<NewGate("h", <<i>>), NewGate("h", <<j>>), NewGate("cx", <<j, i>>),
              NewGate("h", <<i>>), NewGate("h", <<j>>)>>
    BY <1>1, <1>7 DEF CNOTGates
  <2>2. /\ Len(t) = 5 /\ t[1] = NewGate("h", <<i>>) /\ t[2] = NewGate("h", <<j>>)
        /\ t[3] = NewGate("cx", <<j, i>>) /\ t[4] = NewGate("h", <<i>>) /\ t[5] = NewGate("h", <<j>>)
    BY <2>1
  <2>3. /\ r[1] = Execute(r[0], t[1], bit) /\ r[2] = Execute(r[1], t[2], bit)
        /\ r[3] = Execute(r[2], t[3], bit) /\ r[4] = Execute(r[3], t[4], bit)
        /\ r[5] = Execute(r[4], t[5], bit)
    BY <1>4, <2>2
  <2>4. \A f, a : Execute(f, NewGate("h", <<a>>), bit) = IF Runs(Head(todo)) THEN Had(f, a) ELSE f
    BY <1>5 DEF Execute, NewGate, Gate
  <2>5. \A f, a, b : Execute(f, NewGate("cx", <<a, b>>), bit) = IF Runs(Head(todo)) THEN CX(f, a, b) ELSE f
    BY <1>5 DEF Execute, NewGate, Gate
  <2>6. r[5] = IF Runs(Head(todo)) THEN Had(Had(CX(Had(Had(start, i), j), j, i), i), j) ELSE start
    BY <1>4, <2>2, <2>3, <2>4, <2>5
  <2>7. QED
    BY <1>1, <1>3, <1>4, <1>7, <2>2, <2>6 DEF CNOTFrame
<1>8. QED
  BY <1>6, <1>7

LEMMA SwapGatesDo ==
  ASSUME IsDevice(device), NEW s \in Seq(Gates), NEW i \in Qubits, NEW j \in Qubits,
         Linked(device, i, j), Head(todo) \in Gates
  PROVE  Executed(s \o SwapGates(i, j), bit) =
           IF Runs(Head(todo)) THEN SwapFrame(Executed(s, bit), i, j) ELSE Executed(s, bit)
<1> DEFINE a == IF Coupled(i, j) THEN i ELSE j
           b == IF Coupled(i, j) THEN j ELSE i
           g == NewGate("cx", <<a, b>>)
           mid == CNOTGates(b, a)
<1>1. a \in Qubits /\ b \in Qubits /\ a # b /\ <<a, b>> \in device.couplings
      /\ Linked(device, b, a)
  BY LinkedQubits DEF Coupled, Linked
<1>2. g \in Gates /\ <<g>> \in Seq(Gates)
  BY <1>1, OneCNOTOK
<1>3. mid \in Seq(Gates)
  BY <1>1, CNOTGatesOK
<1>4. s \o <<g>> \in Seq(Gates) /\ (s \o <<g>>) \o mid \in Seq(Gates) /\ <<g>> \o mid \in Seq(Gates)
  BY <1>2, <1>3
<1>5. s \o SwapGates(i, j) = ((s \o <<g>>) \o mid) \o <<g>>
  <2>1. SwapGates(i, j) = (<<g>> \o mid) \o <<g>>
    BY DEF SwapGates
  <2> HIDE DEF g, mid
  <2>2. s \o ((<<g>> \o mid) \o <<g>>) = (s \o (<<g>> \o mid)) \o <<g>>
    BY <1>2, <1>4, ConcatAssociative
  <2>3. s \o (<<g>> \o mid) = (s \o <<g>>) \o mid
    BY <1>2, <1>3, ConcatAssociative
  <2>4. QED
    BY <2>1, <2>2, <2>3
<1>6. \A f : Execute(f, g, bit) = IF Runs(Head(todo)) THEN CX(f, a, b) ELSE f
  BY DEF Execute, NewGate, Gate, Runs
<1>7. Executed(s \o <<g>>, bit) = Execute(Executed(s, bit), g, bit)
  BY <1>2, ExecutedOne
<1>8. Executed((s \o <<g>>) \o mid, bit) =
        IF Runs(Head(todo)) THEN CNOTFrame(Executed(s \o <<g>>, bit), b, a) ELSE Executed(s \o <<g>>, bit)
  BY <1>1, <1>3, <1>4, CNOTGatesDo
<1>9. Executed(((s \o <<g>>) \o mid) \o <<g>>, bit) = Execute(Executed((s \o <<g>>) \o mid, bit), g, bit)
  BY <1>2, <1>4, ExecutedOne
<1> HIDE DEF g, mid
<1>10. QED
  BY <1>5, <1>6, <1>7, <1>8, <1>9 DEF SwapFrame

(* No gate left to visit is a Hadamard of the mapper's own. *)
OnlyProgramGates == \A n \in DOMAIN todo : todo[n].op # "h"

LEMMA TailOnlyProgramGates ==
  ASSUME TypeOK, OnlyProgramGates, todo # <<>>
  PROVE  /\ Head(todo).op # "h"
         /\ \A n \in DOMAIN Tail(todo) : Tail(todo)[n].op # "h"
<1>1. /\ \A n \in DOMAIN Tail(todo) : Tail(todo)[n] = todo[n + 1] /\ n + 1 \in DOMAIN todo
      /\ Head(todo) = todo[1] /\ 1 \in DOMAIN todo
  BY DEF TypeOK
<1>2. QED
  BY <1>1 DEF OnlyProgramGates

ExecutionInv == OnlyProgramGates /\ OutputDoesFrame

LEMMA InitExecuted == Init => ExecutionInv
<1> SUFFICES ASSUME Init PROVE ExecutionInv
  OBVIOUS
<1>1. OnlyProgramGates
  BY HadamardAssumption DEF Init, OnlyProgramGates
<1>2. Len(<<>>) = 0 /\ 0 \in 0 .. 0
  OBVIOUS
<1>3. PICK f : IsRunTo(f, <<>>, bit, 0) /\ Executed(<<>>, bit) = f[0]
  BY <1>2, ExecutedIsRun
<1>4. f[0] = IdentityFrame(Qubits)
  BY <1>2, <1>3 DEF IsRunTo, FrameAfter
<1>5. QED
  BY <1>1, <1>3, <1>4 DEF Init, ExecutionInv, OutputDoesFrame

LEMMA NextExecuted == SafetyInv /\ ExecutionInv /\ [Next]_vars => ExecutionInv'
<1> SUFFICES ASSUME SafetyInv, ExecutionInv, [Next]_vars PROVE ExecutionInv'
  OBVIOUS
<1> USE DEF SafetyInv, ExecutionInv
<1>1. CASE VisitOther
  <2> DEFINE h == Head(todo)
             g == [h EXCEPT !.args = [n \in DOMAIN @ |-> permutation[@[n]]]]
  <2>1. /\ todo # <<>> /\ todo' = Tail(todo) /\ h.op # "cx" /\ h \in Gates
        /\ out' = Append(out, g) /\ frame' = frame /\ bit' = bit
    BY <1>1 DEF VisitOther, TypeOK
  <2>2. out \in Seq(Gates) /\ out' \in Seq(Gates)
    BY <1>1, NextSafe DEF Next, TypeOK
  <2>3. g.op = h.op /\ h.op # "h"
    BY <2>1, TailOnlyProgramGates DEF Gates
  <2> HIDE DEF g
  <2>4. g \in Gates /\ out' = out \o <<g>>
    <3>1. PICK N \in Nat : N = Len(out)
      BY <2>2
    <3>2. Len(out') = N + 1 /\ out'[N + 1] = g
      BY <2>1, <2>2, <3>1
    <3>3. g \in Gates
      BY <2>2, <3>2
    <3>4. QED
      BY <2>1, <2>2, <3>3
  <2>5. Executed(out', bit) = Execute(Executed(out, bit), g, bit)
    BY <2>2, <2>4, ExecutedOne
  <2>6. Execute(Executed(out, bit), g, bit) = Executed(out, bit)
    BY <2>1, <2>3 DEF Execute
  <2>7. OnlyProgramGates'
    BY <2>1, TailOnlyProgramGates DEF OnlyProgramGates
  <2>8. QED
    BY <2>1, <2>5, <2>6, <2>7 DEF OutputDoesFrame
<1>2. CASE VisitCNOT
  BY <1>2 DEF VisitCNOT, OutputDoesFrame, OnlyProgramGates
<1>3. CASE SkipControl
  <2>1. chain # <<>> /\ todo # <<>> /\ todo' \in {todo, Tail(todo)}
    BY <1>3 DEF SkipControl, Advance, ChainInv
  <2>2. OnlyProgramGates'
    BY <2>1, TailOnlyProgramGates DEF OnlyProgramGates
  <2>3. QED
    BY <1>3, <2>2 DEF SkipControl, OutputDoesFrame
<1>4. CASE SwapStep
  <2> DEFINE i == cur
             j == Head(chain)
  <2>1. i \in Qubits /\ j \in Qubits /\ Linked(device, i, j) /\ Head(todo) \in Gates
        /\ todo # <<>> /\ todo' \in {todo, Tail(todo)} /\ bit' = bit
    BY <1>4, ChainHead DEF SwapStep, ChainInv, TypeOK, Advance
  <2>2. OnlyProgramGates'
    BY <2>1, TailOnlyProgramGates DEF OnlyProgramGates
  <2>3. out' = out \o SwapGates(i, j)
        /\ frame' = IF Runs(Head(todo)) THEN SwapFrame(frame, i, j) ELSE frame
    BY <1>4 DEF SwapStep, Emit
  <2>4. Executed(out \o SwapGates(i, j), bit) =
          IF Runs(Head(todo)) THEN SwapFrame(Executed(out, bit), i, j) ELSE Executed(out, bit)
    BY <2>1, SwapGatesDo DEF TypeOK
  <2>5. QED
    BY <2>1, <2>2, <2>3, <2>4 DEF OutputDoesFrame
<1>5. CASE EmitCNOT
  <2>1. /\ cur \in Qubits /\ tgt \in Qubits /\ Linked(device, cur, tgt)
        /\ Head(todo) \in Gates /\ todo # <<>> /\ todo' = Tail(todo) /\ bit' = bit
    BY <1>5, ChainHead DEF EmitCNOT, ChainInv, TypeOK
  <2>2. OnlyProgramGates'
    BY <2>1, TailOnlyProgramGates DEF OnlyProgramGates
  <2>3. out' = out \o CNOTGates(cur, tgt)
        /\ frame' = IF Runs(Head(todo)) THEN CNOTFrame(frame, cur, tgt) ELSE frame
    BY <1>5 DEF EmitCNOT, Emit
  <2>4. CNOTGates(cur, tgt) \in Seq(Gates)
    BY <2>1, CNOTGatesOK DEF TypeOK
  <2>5. Executed(out \o CNOTGates(cur, tgt), bit) =
          IF Runs(Head(todo)) THEN CNOTFrame(Executed(out, bit), cur, tgt) ELSE Executed(out, bit)
    BY <2>1, <2>4, CNOTGatesDo DEF TypeOK
  <2>6. QED
    BY <2>1, <2>2, <2>3, <2>5 DEF OutputDoesFrame
<1>6. CASE Done \/ UNCHANGED vars
  BY <1>6 DEF Done, vars, OutputDoesFrame, OnlyProgramGates
<1>7. QED
  BY <1>1, <1>2, <1>3, <1>4, <1>5, <1>6 DEF Next

(* Executing the gates emitted gives frame, at every moment: a swap or a   *)
(* CNOT in the list is what the permutation and Refinement take it for.    *)
THEOREM OutputIsFrame == Spec => []OutputDoesFrame
<1>1. ExecutionInv => OutputDoesFrame
  BY DEF ExecutionInv
<1>2. QED
  BY <1>1, Safety, InitExecuted, NextExecuted, PTL DEF Spec

-----------------------------------------------------------------------------
(* The mapped circuit does what the program does, when the device is       *)
(* connected and no CNOT stands in an if statement: a swap leaves every    *)
(* qubit of the program with the frame it had.                             *)

(* Two Hadamards on each side turn a CNOT around. *)
LEMMA ReversedCNOT ==
  ASSUME NEW f \in Frames(Qubits), NEW i \in Qubits, NEW j \in Qubits, i # j
  PROVE  CNOTFrame(f, i, j) = CX(f, i, j)
<1> DEFINE f1 == Had(Had(f, i), j)
           f2 == CX(f1, j, i)
           f3 == Had(Had(f2, i), j)
<1>1. /\ f1 \in Frames(Qubits)
      /\ f1[i] = [x |-> f[i].z, z |-> f[i].x] /\ f1[j] = [x |-> f[j].z, z |-> f[j].x]
      /\ \A q \in Qubits \ {i, j} : f1[q] = f[q]
  BY HadType DEF Had, Frames
<1>2. /\ f2 \in Frames(Qubits)
      /\ f2[j] = [x |-> Plus(f[j].z, f[i].z), z |-> f[j].x]
      /\ f2[i] = [x |-> f[i].z, z |-> Plus(f[i].x, f[j].x)]
      /\ \A q \in Qubits \ {i, j} : f2[q] = f[q]
  <2> HIDE DEF f1
  <2>1. f2 \in Frames(Qubits)
    BY <1>1, CXType
  <2>2. QED
    BY <1>1, <2>1 DEF CX, Frames
<1>3. /\ f3 \in Frames(Qubits)
      /\ f3[i] = [x |-> Plus(f[i].x, f[j].x), z |-> f[i].z]
      /\ f3[j] = [x |-> f[j].x, z |-> Plus(f[j].z, f[i].z)]
      /\ \A q \in Qubits \ {i, j} : f3[q] = f[q]
  <2> HIDE DEF f2
  <2>1. f3 \in Frames(Qubits)
    BY <1>2, HadType
  <2>2. QED
    BY <1>2, <2>1 DEF Had, Frames
<1>4. /\ CX(f, i, j) \in Frames(Qubits)
      /\ CX(f, i, j)[i] = [x |-> Plus(f[i].x, f[j].x), z |-> f[i].z]
      /\ CX(f, i, j)[j] = [x |-> f[j].x, z |-> Plus(f[j].z, f[i].z)]
      /\ \A q \in Qubits \ {i, j} : CX(f, i, j)[q] = f[q]
  BY CXType DEF CX, Frames
<1>5. f3 = CX(f, i, j)
  <2> HIDE DEF f3
  <2>1. \A q \in Qubits : f3[q] = CX(f, i, j)[q]
    BY <1>3, <1>4
  <2>2. DOMAIN f3 = Qubits /\ DOMAIN CX(f, i, j) = Qubits
    BY <1>3, <1>4 DEF Frames
  <2>3. f3 = [q \in Qubits |-> f3[q]] /\ CX(f, i, j) = [q \in Qubits |-> CX(f, i, j)[q]]
    BY <1>3, <1>4 DEF Frames
  <2>4. QED
    BY <2>1, <2>3
<1>6. QED
  BY <1>5 DEF CNOTFrame

LEMMA PlusCancels ==
  ASSUME NEW A, NEW B
  PROVE  Plus(B, Plus(A, B)) = A /\ Plus(Plus(A, B), A) = B
BY DEF Plus

(* Three CNOTs, in alternating directions, exchange two qubits. *)
LEMMA ThreeCNOTs ==
  ASSUME NEW f \in Frames(Qubits), NEW a \in Qubits, NEW b \in Qubits, a # b
  PROVE  CX(CX(CX(f, a, b), b, a), a, b) = [f EXCEPT ![a] = f[b], ![b] = f[a]]
<1> DEFINE f1 == CX(f, a, b)
           f2 == CX(f1, b, a)
           f3 == CX(f2, a, b)
<1>1. /\ f1 \in Frames(Qubits)
      /\ f1[a] = [x |-> Plus(f[a].x, f[b].x), z |-> f[a].z]
      /\ f1[b] = [x |-> f[b].x, z |-> Plus(f[b].z, f[a].z)]
      /\ \A q \in Qubits \ {a, b} : f1[q] = f[q]
  BY CXType DEF CX, Frames
<1>2. /\ f2 \in Frames(Qubits)
      /\ f2[a] = [x |-> Plus(f[a].x, f[b].x), z |-> f[b].z]
      /\ f2[b] = [x |-> f[a].x, z |-> Plus(f[b].z, f[a].z)]
      /\ \A q \in Qubits \ {a, b} : f2[q] = f[q]
  <2> HIDE DEF f1
  <2>1. f2 \in Frames(Qubits)
    BY <1>1, CXType
  <2>2. /\ f2[b] = [x |-> Plus(f1[b].x, f1[a].x), z |-> f1[b].z]
        /\ f2[a] = [x |-> f1[a].x, z |-> Plus(f1[a].z, f1[b].z)]
        /\ \A q \in Qubits \ {a, b} : f2[q] = f1[q]
    BY <1>1 DEF CX, Frames
  <2>3. QED
    BY <1>1, <2>1, <2>2, PlusCancels
<1>3. /\ f3 \in Frames(Qubits)
      /\ f3[a] = f[b] /\ f3[b] = f[a]
      /\ \A q \in Qubits \ {a, b} : f3[q] = f[q]
  <2> HIDE DEF f2
  <2>1. f3 \in Frames(Qubits)
    BY <1>2, CXType
  <2>2. /\ f3[a] = [x |-> Plus(f2[a].x, f2[b].x), z |-> f2[a].z]
        /\ f3[b] = [x |-> f2[b].x, z |-> Plus(f2[b].z, f2[a].z)]
        /\ \A q \in Qubits \ {a, b} : f3[q] = f2[q]
    BY <1>2 DEF CX, Frames
  <2>3. /\ f[a] = [x |-> f[a].x, z |-> f[a].z] /\ f[b] = [x |-> f[b].x, z |-> f[b].z]
    BY DEF Frames
  <2>4. /\ Plus(f2[a].x, f2[b].x) = f[b].x /\ f2[a].z = f[b].z
        /\ f2[b].x = f[a].x /\ Plus(f2[b].z, f2[a].z) = f[a].z
    BY <1>2, PlusCancels
  <2>5. QED
    BY <1>2, <2>1, <2>2, <2>3, <2>4
<1>4. QED
  <2> HIDE DEF f3
  <2>1. f3 = [q \in Qubits |-> f3[q]] /\ DOMAIN f = Qubits
    BY <1>3 DEF Frames
  <2>2. f3 = [f EXCEPT ![a] = f[b], ![b] = f[a]]
    BY <1>3, <2>1
  <2>3. QED
    BY <2>2 DEF f3

LEMMA SwapExchanges ==
  ASSUME NEW f \in Frames(Qubits), NEW i \in Qubits, NEW j \in Qubits, i # j
  PROVE  SwapFrame(f, i, j) = [f EXCEPT ![i] = f[j], ![j] = f[i]]
<1> DEFINE a == IF Coupled(i, j) THEN i ELSE j
           b == IF Coupled(i, j) THEN j ELSE i
<1>1. SwapFrame(f, i, j) = CX(CX(CX(f, a, b), b, a), a, b)
  BY CXType, ReversedCNOT DEF SwapFrame
<1>2. CX(CX(CX(f, a, b), b, a), a, b) = [f EXCEPT ![a] = f[b], ![b] = f[a]]
  BY ThreeCNOTs
<1>3. [f EXCEPT ![a] = f[b], ![b] = f[a]] = [f EXCEPT ![i] = f[j], ![j] = f[i]]
  BY DEF Frames
<1>4. QED
  BY <1>1, <1>2, <1>3

(* Between any two qubits of a device shortest_path finds a path. *)
Connected ==
  \A d \in Devices : \A i, j \in Qubits :
    i # j => d.path[<<i, j>>][Len(d.path[<<i, j>>])] = j

CNOTsOutsideIf ==
  \A p \in Programs : \A n \in DOMAIN p : p[n].op = "cx" => p[n].cond = FALSE

(* The chain leads to where the target is, and the two qubits of the CNOT  *)
(* being replaced are where the loop believes them to be.                  *)
RouteInv ==
  /\ device \in Devices
  /\ \A n \in DOMAIN todo : todo[n].op = "cx" => todo[n].cond = FALSE
  /\ chain # <<>> =>
       /\ chain[Len(chain)] = tgt
       /\ permutation[Head(todo).args[1]] = cur
       /\ permutation[Head(todo).args[2]] = tgt

(* The gates left to do are gates of the program. *)
LEMMA TailUnconditional ==
  ASSUME TypeOK, RouteInv, todo # <<>>
  PROVE  \A n \in DOMAIN Tail(todo) : Tail(todo)[n].op = "cx" => Tail(todo)[n].cond = FALSE
<1>1. \A n \in DOMAIN Tail(todo) : Tail(todo)[n] = todo[n + 1] /\ n + 1 \in DOMAIN todo
  BY DEF TypeOK
<1>2. QED
  BY <1>1 DEF RouteInv

(* A chain that has not come to the target has more than its head. *)
LEMMA ChainGoesOn ==
  ASSUME TypeOK, RouteInv, chain # <<>>, Head(chain) # tgt, Advance
  PROVE  /\ todo' = todo /\ chain' # <<>>
         /\ chain'[Len(chain')] = tgt
         /\ cur' = Head(chain)
<1>1. chain \in Seq(Qubits) /\ Len(chain) \in Nat /\ Len(chain) > 0 /\ Head(chain) = chain[1]
  BY DEF TypeOK
<1>2. chain[Len(chain)] = tgt
  BY DEF RouteInv
<1>3. Len(chain) > 1
  BY <1>1, <1>2
<1>4. Tail(chain) # <<>> /\ Tail(chain)[Len(Tail(chain))] = chain[Len(chain)]
  <2>1. Len(Tail(chain)) = Len(chain) - 1
    BY <1>1
  <2>2. Tail(chain)[Len(chain) - 1] = chain[Len(chain)]
    BY <1>1, <1>3
  <2>3. QED
    BY <1>1, <1>3, <2>1, <2>2
<1>5. QED
  BY <1>2, <1>4 DEF Advance

LEMMA NextRoute ==
  ASSUME Connected, SafetyInv, RouteInv, [Next]_vars
  PROVE  RouteInv'
<1> USE DEF SafetyInv
<1>1. CASE VisitOther
  <2>1. todo' = Tail(todo) /\ todo # <<>> /\ chain' = <<>> /\ device' = device
    BY <1>1 DEF VisitOther, loop
  <2>2. QED
    BY <2>1, TailUnconditional DEF RouteInv
<1>2. CASE VisitCNOT
  <2> DEFINE a == Head(todo).args
  <2>1. a[1] \in Qubits /\ a[2] \in Qubits /\ a[1] # a[2]
    BY <1>2 DEF VisitCNOT, TypeOK, Gates
  <2>2. cur' \in Qubits /\ tgt' \in Qubits /\ cur' # tgt'
    BY <1>2, <2>1 DEF VisitCNOT, TypeOK, PermutationIsBijection
  <2>3. chain'[Len(chain')] = tgt'
    BY <1>2, <2>2 DEF VisitCNOT, Connected, RouteInv
  <2>4. QED
    BY <1>2, <2>3 DEF VisitCNOT, RouteInv
<1>3. CASE SkipControl
  <2>1. /\ todo' = todo /\ permutation' = permutation /\ device' = device /\ tgt' = tgt
        /\ chain # <<>> /\ chain'[Len(chain')] = tgt /\ cur' = cur
    BY <1>3, ChainGoesOn DEF SkipControl
  <2>2. QED
    BY <2>1 DEF RouteInv
<1>4. CASE SwapStep
  <2>1. /\ todo' = todo /\ device' = device /\ tgt' = tgt
        /\ chain # <<>> /\ chain'[Len(chain')] = tgt /\ cur' = Head(chain)
        /\ Head(chain) # tgt /\ cur # tgt
    BY <1>4, ChainGoesOn DEF SwapStep, ChainInv
  <2>2. Head(todo).args[1] \in Qubits /\ Head(todo).args[2] \in Qubits
    BY <2>1, ChainHead DEF ChainInv, Gates
  <2>3. /\ permutation'[Head(todo).args[1]] = Head(chain)
        /\ permutation'[Head(todo).args[2]] = tgt
    BY <1>4, <2>1, <2>2 DEF SwapStep, RouteInv
  <2>4. QED
    BY <2>1, <2>3 DEF RouteInv
<1>5. CASE EmitCNOT
  <2>1. todo' = Tail(todo) /\ todo # <<>> /\ chain' = <<>> /\ device' = device
    BY <1>5 DEF EmitCNOT, ChainInv
  <2>2. QED
    BY <2>1, TailUnconditional DEF RouteInv
<1>6. CASE Done \/ UNCHANGED vars
  BY <1>6 DEF Done, vars, RouteInv
<1>7. QED
  BY <1>1, <1>2, <1>3, <1>4, <1>5, <1>6 DEF Next

(* What the qubits of the program hold. *)
Held == [q \in Qubits |-> frame[permutation[q]]]

LEMMA NextRefines ==
  ASSUME SafetyInv, RouteInv, [Next]_vars
  PROVE  [Ideal!Next]_(Ideal!vars)
<1> USE DEF SafetyInv
<1>1. CASE VisitOther
  <2> DEFINE h == Head(todo)
             g == [h EXCEPT !.args = [n \in DOMAIN @ |-> permutation[@[n]]]]
  <2>1. h \in Gates /\ h.op # "cx" /\ todo # <<>> /\ todo' = Tail(todo)
        /\ UNCHANGED <<bit, frame, permutation>>
    BY <1>1 DEF VisitOther, TypeOK
  <2>2. /\ g.op = h.op /\ g.cond = h.cond
        /\ g.args = [n \in DOMAIN h.args |-> permutation[h.args[n]]]
    BY <2>1 DEF Gates
  <2>3. /\ \A n \in DOMAIN h.args : h.args[n] \in Qubits
        /\ DOMAIN g.args = DOMAIN h.args
    BY <2>1, <2>2 DEF Gates
  <2>4. Event(g, frame) = Event(h, Held)
    <3>1. \A n \in DOMAIN h.args : Held[h.args[n]] = frame[g.args[n]]
      BY <2>2, <2>3 DEF Held
    <3>2. [n \in DOMAIN g.args |-> frame[g.args[n]]] = [n \in DOMAIN h.args |-> Held[h.args[n]]]
      BY <2>3, <3>1
    <3>3. QED
      BY <2>2, <3>2 DEF Event
  <2>5. events' = IF Runs(g) THEN Append(events, Event(g, frame)) ELSE events
    BY <1>1 DEF VisitOther
  <2>6. Runs(g) <=> Ideal!Runs(h)
    BY <2>2 DEF Runs, Ideal!Runs
  <2>7. CASE Runs(g)
    <3>1. events' = Append(events, Event(h, Held))
      BY <2>4, <2>5, <2>7
    <3>2. Ideal!ApplyOther
      BY <2>1, <2>6, <2>7, <3>1 DEF Ideal!ApplyOther, Held, Ideal!Event, Event
    <3>3. QED
      BY <3>2 DEF Ideal!Next
  <2>8. CASE ~Runs(g)
    <3>1. Ideal!Skip
      BY <2>1, <2>5, <2>6, <2>8 DEF Ideal!Skip
    <3>2. QED
      BY <3>1 DEF Ideal!Next
  <2>9. QED
    BY <2>7, <2>8
<1>2. CASE VisitCNOT
  BY <1>2 DEF VisitCNOT, Ideal!vars
<1>3. CASE SkipControl
  <2>1. todo' = todo
    BY <1>3, ChainGoesOn DEF SkipControl
  <2>2. QED
    BY <1>3, <2>1 DEF SkipControl, Ideal!vars
<1>4. CASE SwapStep
  <2> DEFINE i == cur
             j == Head(chain)
  <2>1. /\ i \in Qubits /\ j \in Qubits /\ i # j
        /\ Head(todo).op = "cx" /\ Head(todo).cond = FALSE /\ todo' = todo
    <3>1. todo \in Seq(Gates) /\ todo # <<>> /\ Head(todo) = todo[1] /\ 1 \in DOMAIN todo
      BY <1>4, ChainHead DEF SwapStep, TypeOK
    <3>2. QED
      BY <1>4, <3>1, ChainHead, ChainGoesOn DEF SwapStep, ChainInv, RouteInv, TypeOK
  <2>2. frame' = [frame EXCEPT ![i] = frame[j], ![j] = frame[i]]
    BY <1>4, <2>1, SwapExchanges DEF SwapStep, Emit, Runs, TypeOK
  <2>3. permutation' = [q \in Qubits |-> CASE permutation[q] = i -> j
                                           [] permutation[q] = j -> i
                                           [] OTHER -> permutation[q]]
    BY <1>4 DEF SwapStep
  <2>4. \A q \in Qubits : frame'[permutation'[q]] = frame[permutation[q]]
    BY <2>1, <2>2, <2>3 DEF TypeOK, Frames
  <2>5. [q \in Qubits |-> frame'[permutation'[q]]] = [q \in Qubits |-> frame[permutation[q]]]
    BY <2>4
  <2>6. bit' = bit /\ events' = events
    BY <1>4 DEF SwapStep
  <2>7. QED
    BY <2>1, <2>5, <2>6 DEF Ideal!vars
<1>5. CASE EmitCNOT
  <2> DEFINE c == Head(todo).args[1]
             t == Head(todo).args[2]
  <2>1. /\ todo # <<>> /\ Head(todo).op = "cx" /\ Head(todo).cond = FALSE
        /\ c \in Qubits /\ t \in Qubits /\ c # t
        /\ permutation[c] = cur /\ permutation[t] = tgt
        /\ cur # tgt /\ cur \in Qubits /\ tgt \in Qubits
    <3>1. todo \in Seq(Gates) /\ todo # <<>> /\ Head(todo) = todo[1] /\ 1 \in DOMAIN todo
      BY <1>5, ChainHead DEF EmitCNOT, TypeOK
    <3>2. QED
      BY <1>5, <3>1, ChainHead DEF EmitCNOT, ChainInv, RouteInv, TypeOK, Gates
  <2>2. frame' = CX(frame, cur, tgt)
    BY <1>5, <2>1, ReversedCNOT DEF EmitCNOT, Emit, Runs, TypeOK
  <2>3. permutation' = permutation /\ bit' = bit /\ events' = events /\ todo' = Tail(todo)
    BY <1>5 DEF EmitCNOT
  <2>4. \A q \in Qubits : frame'[permutation[q]] = CX(Held, c, t)[q]
    BY <2>1, <2>2 DEF CX, Held, TypeOK, Frames, PermutationIsBijection
  <2>5. [q \in Qubits |-> frame'[permutation'[q]]] = CX(Held, c, t)
    BY <2>3, <2>4 DEF CX, Held
  <2>6. Ideal!Runs(Head(todo))
    BY <2>1 DEF Ideal!Runs
  <2>7. Ideal!ApplyCNOT
    BY <2>1, <2>3, <2>5, <2>6 DEF Ideal!ApplyCNOT, Held, Ideal!CX, CX, Ideal!Plus, Plus
  <2>8. QED
    BY <2>7 DEF Ideal!Next
<1>6. CASE Done \/ UNCHANGED vars
  BY <1>6 DEF Done, vars, Ideal!vars
<1>7. QED
  BY <1>1, <1>2, <1>3, <1>4, <1>5, <1>6 DEF Next

LEMMA InitRefines == Init => Ideal!Init
<1> SUFFICES ASSUME Init PROVE Ideal!Init
  OBVIOUS
<1>1. [q \in Qubits |-> frame[permutation[q]]] = IdentityFrame(Qubits)
  BY DEF Init, IdentityFrame
<1>2. QED
  BY <1>1 DEF Init, Ideal!Init, Ideal!IdentityFrame, IdentityFrame

LEMMA InitRoute ==
  ASSUME CNOTsOutsideIf, Init
  PROVE  RouteInv
BY DEF Init, RouteInv, CNOTsOutsideIf

(* On connected devices, and for programs without a conditional CNOT, the  *)
(* mapped circuit does what the program does, up to permutation_.          *)
THEOREM Refinement ==
  ASSUME Connected, CNOTsOutsideIf
  PROVE  Spec => ImplementsProgram
<1>1. Init => RouteInv
  BY InitRoute
<1>2. SafetyInv /\ RouteInv /\ [Next]_vars => RouteInv'
  BY NextRoute
<1>3. SafetyInv /\ RouteInv /\ [Next]_vars => [Ideal!Next]_(Ideal!vars)
  BY NextRefines
<1>4. QED
  BY <1>1, <1>2, <1>3, Safety, InitRefines, PTL DEF Spec, ImplementsProgram, Ideal!Spec

=============================================================================
