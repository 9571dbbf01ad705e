---------------------------- MODULE MCSimplifier ----------------------------
(* Instances of Simplifier for TLC: every program of a few statements, and *)
(* the same around the declaration of a gate.                              *)
EXTENDS Simplifier

CONSTANTS
  Alphabet,   \* the statements, as <<op, args, cond>>
  MaxLength   \* bound on the length of a body

Bodies(letters, length, uid) ==
  {[n \in 1 .. Len(w) |-> [uid |-> uid + n, op |-> w[n][1], args |-> w[n][2], cond |-> w[n][3]]] :
     w \in SeqOf(letters, length)}

(* Desugared: every argument is a qubit. *)
TwoQubits == {"q0", "q1"}
Qubitwise == [a \in Arguments |-> {a}]

SomeGates ==
  {<<"h", <<"q0">>, FALSE>>, <<"s", <<"q0">>, FALSE>>, <<"sdg", <<"q0">>, FALSE>>,
   <<"cx", <<"q0", "q1">>, FALSE>>, <<"cx", <<"q1", "q0">>, FALSE>>,
   <<"barrier", <<"q0", "q1">>, FALSE>>, <<"zero", <<"q1">>, FALSE>>,
   <<"z", <<"q1">>, TRUE>>}

(* a gate declared in the middle, whose parameters have names of the main body *)
Declaration == [uid |-> 100, op |-> "decl", args |-> <<"g">>, cond |-> FALSE]

WithGate ==
  {("main" :> (before \o <<Declaration>> \o after)) @@ ("g" :> body) :
     before \in Bodies(SomeGates, 1, 0), after \in Bodies(SomeGates, 1, 10),
     body \in Bodies(SomeGates, 2, 20)}

MainOnly == {"main" :> body : body \in Bodies(Alphabet, MaxLength, 0)}

SomePrograms == MainOnly \cup WithGate

(* SomePrograms are such as run() takes for granted. *)
ASSUME GrantedAssumption ==
  Alphabet = SomeGates => Desugared /\ \A p \in Programs : NoInverseUnderIf(p)

(* A gate under an if, and the same gate without. *)
ConditionalGates == {<<"h", <<"q0">>, FALSE>>, <<"h", <<"q0">>, TRUE>>, <<"x", <<"q1">>, FALSE>>}
=============================================================================
