------------------------------ MODULE Circuit ------------------------------
(***************************************************************************)
(* What a gate list does, for every circuit of CNOT gates, Hadamard gates  *)
(* and gates that nothing needs to be known about.                         *)
(*                                                                         *)
(* A frame gives for each qubit the two Pauli operators X and Z of that    *)
(* qubit as seen from the start of the circuit: the set of generators      *)
(* <<qubit, "X">>, <<qubit, "Z">> whose product (up to a sign) they have   *)
(* become.  CNOT and Hadamard only rewrite the frame.  Any other gate,     *)
(* measurement, reset or barrier is a function of the X and Z of the       *)
(* qubits it acts on, so it is recorded as an event: its name with the     *)
(* frames of its arguments.  Two circuits with the same events and the     *)
(* same final frame do the same thing.                                     *)
(***************************************************************************)
EXTENDS Integers, Sequences

Plus(A, B) == (A \ B) \cup (B \ A)   \* product of two Paulis, signs dropped

Generators(Q) == Q \X {"X", "Z"}
Operators(Q)  == SUBSET Generators(Q)
Frames(Q)     == [Q -> [x : Operators(Q), z : Operators(Q)]]

IdentityFrame(Q) == [q \in Q |-> [x |-> {<<q, "X">>}, z |-> {<<q, "Z">>}]]

(* CNOT with control c and target t # c *)
CX(f, c, t) ==
  [f EXCEPT ![c] = [x |-> Plus(f[c].x, f[t].x), z |-> f[c].z],
            ![t] = [x |-> f[t].x, z |-> Plus(f[t].z, f[c].z)]]

(* Hadamard on the qubit h *)
Had(f, h) == [f EXCEPT ![h] = [x |-> f[h].z, z |-> f[h].x]]

(* A gate of a program: its name, its qubit arguments, and whether it      *)
(* stands in an if statement.                                              *)
Gate(op, args, cond) == [op |-> op, args |-> args, cond |-> cond]

Event(g, f) == <<g.op, [n \in DOMAIN g.args |-> f[g.args[n]]]>>

=============================================================================
