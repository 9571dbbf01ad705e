------------------------------ MODULE Parities ------------------------------
(***************************************************************************)
(* What statements do to qubits whose values are parities.                 *)
(*                                                                         *)
(* A value is a set of variables: the exclusive or of them.  CNOT adds one *)
(* value to another, a phase (rz, t, s, z, ...) applies its angle at the   *)
(* value of its qubit.  Any other statement depends on the values of its   *)
(* arguments and on what has happened before it: it is recorded with both, *)
(* and leaves new variables in its arguments.  This is the path-sum view   *)
(* that the CNOT-dihedral passes rest on.                                  *)
(***************************************************************************)
EXTENDS Integers, Sequences, FiniteSets

CONSTANTS
  Names,   \* the qubits, as they are named in a program or in a gate body
  Scopes,  \* "main" and the names of gates
  Ids      \* the identities of statements

ASSUME NamesAssumption == IsFiniteSet(Names)
ASSUME ScopesAssumption == "main" \in Scopes

(* The variable of a qubit at the start, and after a statement other than  *)
(* CNOTs and phases.                                                       *)
Variables == Names \X (Ids \cup {0})
Values    == SUBSET Variables

Start == [q \in Names |-> {<<q, 0>>}]

Xor(A, B) == (A \ B) \cup (B \ A)

(* the exclusive or of the values that the qubits of a set have *)
Parity(value, S) ==
  {x \in UNION {value[q] : q \in S} : Cardinality({q \in S : x \in value[q]}) % 2 = 1}

(* A statement: its operation, its arguments, its identity, and whether it *)
(* stands under an if.  "CX" is the built-in gate and "cx" the gate of     *)
(* qelib1, "phase" stands for the rotations around the z axis, "other" for *)
(* other gates, barriers, measurements and resets.  "enter" and "leave"    *)
(* are the ends of the body of a gate declaration, whose argument names    *)
(* the gate, and "end" is the end of the program.                          *)
Statement ==
  {s \in [op : {"CX", "cx", "phase", "other", "enter", "leave", "end"},
          args : Seq(Names \cup Scopes), id : Ids, cond : BOOLEAN] :
     /\ s.op \in {"CX", "cx"} => /\ Len(s.args) = 2 /\ s.args[1] # s.args[2]
                               /\ s.args[1] \in Names /\ s.args[2] \in Names
     /\ s.op = "phase" => Len(s.args) = 1 /\ s.args[1] \in Names
     /\ s.op = "other" => \A n \in DOMAIN s.args : s.args[n] \in Names
     /\ s.op = "enter" => Len(s.args) = 1 /\ s.args[1] \in Scopes \ {"main"}
     /\ s.op \in {"enter", "leave", "end"} => ~s.cond}

Runs(s, bit) == s.cond => bit

IsCNOT(s) == s.op \in {"CX", "cx"}

AfterCNOT(value, s) ==
  [value EXCEPT ![s.args[2]] = Xor(@, value[s.args[1]])]

AfterOther(value, s) ==
  [q \in Names |->
     IF \E n \in DOMAIN s.args : s.args[n] = q THEN {<<q, s.id>>} ELSE value[q]]

(* what a statement other than CNOTs and phases depends on *)
Event(s, value, phases) ==
  <<s.id, [n \in DOMAIN s.args |-> value[s.args[n]]], phases>>

=============================================================================
