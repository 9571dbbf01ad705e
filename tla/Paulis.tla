------------------------------- MODULE Paulis -------------------------------
(***************************************************************************)
(* The Pauli and Clifford operators of gates::ChannelRepr                  *)
(* (gates/channel.hpp).                                                    *)
(*                                                                         *)
(* A Pauli operator has one of I, X, Y, Z on every qubit (those the hash   *)
(* map does not have are I) and a power of i.  A Clifford operator C is    *)
(* the map from the Paulis on one qubit to what C P C^-1 is; what the map  *)
(* of the code does not have is left alone.                                *)
(***************************************************************************)
EXTENDS Integers, FiniteSets

CONSTANT NQ   \* the number of qubits

ASSUME SizeAssumption == NQ \in Nat

Names == 1 .. NQ   \* the qubits, in the order in which a hash map has them

Axis    == {"X", "Y", "Z"}
PauliOp == Axis \cup {"I"}
Pauli   == [op : [Names -> PauliOp], phase : 0 .. 3]

Times(p, q) ==
  CASE p = "I" -> q
    [] q = "I" -> p
    [] p = q   -> "I"
    [] OTHER   -> CHOOSE r \in Axis : r \notin {p, q}

(* XY = iZ, YZ = iX and ZX = iY, and the opposite sign the other way round *)
Cyclic == {<<"X", "Y">>, <<"Y", "Z">>, <<"Z", "X">>}

(* the qubits up to the n-th on which the product has a factor i, or -i    *)
Turns(P, Q, n)     == {q \in 1 .. n : <<P.op[q], Q.op[q]>> \in Cyclic}
TurnsBack(P, Q, n) == Turns(Q, P, n)

Product(P, Q) ==
  [op    |-> [q \in Names |-> Times(P.op[q], Q.op[q])],
   phase |-> (P.phase + Q.phase
                + Cardinality(Turns(P, Q, NQ)) + 3 * Cardinality(TurnsBack(P, Q, NQ))) % 4]

Commute(P, Q) ==
  Cardinality({q \in Names : "I" \notin {P.op[q], Q.op[q]} /\ P.op[q] # Q.op[q]}) % 2 = 0

TrivialOn(P, qubits) == \A q \in qubits : P.op[q] = "I"

Phased(P, phase) == [P EXCEPT !.phase = (@ + phase) % 4]
Minus(P)         == Phased(P, 2)

One      == [op |-> [q \in Names |-> "I"], phase |-> 0]
On(q, p) == [One EXCEPT !.op[q] = p]

(* conjugate: the images of the operator's factors, multiplied *)
Conjugate(C, P) ==
  LET upTo[n \in 0 .. NQ] ==
        IF n = 0 THEN Phased(One, P.phase)
        ELSE IF P.op[n] = "I" THEN upTo[n - 1]
        ELSE Product(upTo[n - 1], C[<<n, P.op[n]>>])
  IN  upTo[NQ]

Unit == [g \in Names \X Axis |-> On(g[1], g[2])]

(* operator*: D first, then C *)
Compose(C, D) == [g \in Names \X Axis |-> Conjugate(C, D[g])]

(* The Clifford of a gate that maps X, Y, Z of the qubit q to x, y, z *)
OneQubit(q, x, y, z) ==
  [g \in Names \X Axis |->
     IF g[1] # q THEN On(g[1], g[2])
     ELSE CASE g[2] = "X" -> x [] g[2] = "Y" -> y [] g[2] = "Z" -> z]

(* The inverses of the gates: they are what the optimizer multiplies.      *)
Dagger(gate, args) ==
  LET q == args[1]
      X == On(q, "X")  Y == On(q, "Y")  Z == On(q, "Z")
  IN  CASE gate = "h"   -> OneQubit(q, Z, Minus(Y), X)
        [] gate = "x"   -> OneQubit(q, X, Minus(Y), Minus(Z))
        [] gate = "y"   -> OneQubit(q, Minus(X), Y, Minus(Z))
        [] gate = "z"   -> OneQubit(q, Minus(X), Minus(Y), Z)
        [] gate = "s"   -> OneQubit(q, Minus(Y), X, Z)
        [] gate = "sdg" -> OneQubit(q, Y, Minus(X), Z)
        [] gate = "cx"  ->
             LET t == args[2]
             IN  [g \in Names \X Axis |->
                    CASE g = <<q, "X">> -> Product(X, On(t, "X"))
                      [] g = <<q, "Y">> -> Product(Y, On(t, "X"))
                      [] g = <<t, "Y">> -> Product(Z, On(t, "Y"))
                      [] g = <<t, "Z">> -> Product(Z, On(t, "Z"))
                      [] OTHER -> On(g[1], g[2])]

=============================================================================
