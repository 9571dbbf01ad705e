-------------------------- MODULE HeisenbergFrame --------------------------
(***************************************************************************)
(* What a circuit of Clifford gates, rotations by multiples of pi/2 and    *)
(* unknown gates does, up to a global phase: for every qubit, what its X   *)
(* and Z at the end are in terms of those at the start.  An unknown gate   *)
(* sees the operators on its qubits, and leaves new ones; what the gates   *)
(* before and after it do to other qubits may be exchanged with it, and    *)
(* gives the same frame and the same events.                               *)
(*                                                                         *)
(* A word is i^phase times a product of X's and a product of Z's.  This is *)
(* written from the definition of the gates, and shares nothing with the   *)
(* tables of Paulis.                                                       *)
(***************************************************************************)
EXTENDS Integers, FiniteSets, Sequences

CONSTANT Names

XorOf(A, B) == (A \ B) \cup (B \ A)

Word(x, z) == [x |-> x, z |-> z, phase |-> 0]

WordProduct(v, w) ==
  [x |-> XorOf(v.x, w.x), z |-> XorOf(v.z, w.z),
   phase |-> (v.phase + w.phase + 2 * Cardinality(v.z \cap w.x)) % 4]

TimesI(w, n) == [w EXCEPT !.phase = (@ + n) % 4]

AntiCommute(v, w) == (Cardinality(v.z \cap w.x) + Cardinality(v.x \cap w.z)) % 2 = 1

(* The operators of the qubits at the start, or after an unknown gate *)
FreshQubit(q, id) == [x |-> Word({<<q, id>>}, {}), z |-> Word({}, {<<q, id>>})]

StartFrame == [frame |-> [q \in Names |-> FreshQubit(q, 0)], events |-> <<>>]

(* The operator that an axis of a qubit is: Y = iXZ *)
WordOf(frame, q, axis) ==
  CASE axis = "X" -> frame[q].x
    [] axis = "Z" -> frame[q].z
    [] axis = "Y" -> TimesI(WordProduct(frame[q].x, frame[q].z), 1)

(* A rotation about an operator: W becomes i^n Q^n W if W anticommutes     *)
(* with Q.                                                                 *)
Rotated(Q, n, w) ==
  IF ~AntiCommute(Q, w) THEN w
  ELSE CASE n = 0 -> w
         [] n = 1 -> TimesI(WordProduct(Q, w), 1)
         [] n = 2 -> TimesI(w, 2)
         [] n = 3 -> TimesI(WordProduct(Q, w), 3)

Rotate(m, Q, n) ==
  [m EXCEPT !.frame =
     [q \in Names |-> [x |-> Rotated(Q, n, @[q].x), z |-> Rotated(Q, n, @[q].z)]]]

OtherGate(m, args, id) ==
  [frame  |-> [q \in Names |-> IF \E n \in DOMAIN args : args[n] = q
                               THEN FreshQubit(q, id) ELSE m.frame[q]],
   events |-> Append(m.events, <<id, [n \in DOMAIN args |-> m.frame[args[n]]]>>)]

(* The gates, as rotations up to a phase where they are *)
Gate(m, op, args) ==
  LET q == args[1]
      About(axis, n) == Rotate(m, WordOf(m.frame, q, axis), n)
  IN  CASE op = "x"   -> About("X", 2)
        [] op = "y"   -> About("Y", 2)
        [] op = "z"   -> About("Z", 2)
        [] op = "s"   -> About("Z", 1)
        [] op = "sdg" -> About("Z", 3)
        [] op = "h"   -> [m EXCEPT !.frame[q] = [x |-> @.z, z |-> @.x]]
        [] op = "cx"  ->
             LET t == args[2]
             IN  [m EXCEPT !.frame[q].x = WordProduct(@, m.frame[t].x),
                           !.frame[t].z = WordProduct(@, m.frame[q].z)]

=============================================================================
