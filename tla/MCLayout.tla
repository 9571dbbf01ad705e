------------------------------ MODULE MCLayout ------------------------------
(* Instance of Layout for TLC: programs with two registers, declared in    *)
(* either order, that fit on three qubits or do not, and the couplings of  *)
(* a few digraphs in every order of fidelity.                              *)
EXTENDS Layout, SequencesExt, FiniteSetsExt

CONSTANT MaxCNOTs   \* bound on the CNOTs of a program

SomeNames == {1, 2} \X {0, 1}

Qreg(r, n) == [op |-> "qreg", register |-> r, size |-> n]
CNOTs(qs)  == {[op |-> "CX", ctrl |-> c, tgt |-> t] :
                 <<c, t>> \in {p \in qs \X qs : p[1] # p[2]}}

ThreeQubits == {<<1, 0>>, <<1, 1>>, <<2, 0>>}

SomePrograms ==
  {<<Qreg(1, 2), Qreg(2, 1)>> \o w : w \in SeqOf(CNOTs(ThreeQubits), MaxCNOTs)}
    \cup {<<Qreg(2, 1), Qreg(1, 2)>> \o w : w \in SeqOf(CNOTs(ThreeQubits), 1)}
    \cup {<<Qreg(1, 2), Qreg(2, 2)>> \o w : w \in SeqOf(CNOTs(SomeNames), 1)}

SomeOrders ==
  UNION {SetToSeqs(edges) : edges \in kSubset(3, {<<0, 1>>, <<1, 2>>, <<2, 0>>, <<1, 0>>})
                                         \cup {{}, {<<0, 1>>, <<2, 1>>}}}

(* As if the device were a one-way ring: a CNOT against it costs more.     *)
RingCount(p, l) ==
  MapThenSumSet(LAMBDA n : IF p[n].op # "CX" THEN 0 ELSE ((l[p[n].tgt] - l[p[n].ctrl]) % 3) ^ 2,
                DOMAIN p)
=============================================================================
