------------------------- MODULE MCRotationFolding -------------------------
(* Instances of RotationFolding for TLC: every program of a few statements *)
(* on two qubits, and programs around a gate declaration.                  *)
EXTENDS RotationFolding

CONSTANTS MaxLength, MaxBody   \* bounds on the lengths of programs

Letter(op, args) == [op |-> op, args |-> args, axis |-> "Z", theta |-> 0, cond |-> FALSE]
Rot(axis, q, theta) == [Letter("rot", <<q>>) EXCEPT !.axis = axis, !.theta = theta]

Letters ==
  {Rot("Z", 1, 1), Rot("Z", 2, 3), Rot("X", 1, 1), Rot("Y", 2, 2),
   Letter("h", <<1>>), Letter("s", <<1>>), Letter("sdg", <<2>>), Letter("x", <<1>>),
   Letter("y", <<2>>), Letter("z", <<2>>),
   Letter("cx", <<1, 2>>), Letter("cx", <<2, 1>>),
   Letter("other", <<1>>), [Rot("Z", 2, 1) EXCEPT !.cond = TRUE]}

FewLetters ==
  {Rot("Z", 1, 1), Rot("Z", 2, 1), Letter("h", <<1>>), Letter("cx", <<1, 2>>),
   Letter("other", <<2>>)}

Bracket(op) == <<Letter(op, <<>>)>>

GateWords ==
  {before \o Bracket("enter") \o body \o Bracket("leave") \o after :
     before \in SeqOf(FewLetters, 1), body \in SeqOf(FewLetters, MaxBody),
     after \in SeqOf(FewLetters, 2)}
  \cup {Bracket("enter") \o body \o Bracket("leave") \o between
           \o Bracket("enter") \o body2 \o Bracket("leave") :
     body \in SeqOf(FewLetters, 1), between \in SeqOf(FewLetters, 1),
     body2 \in SeqOf(FewLetters, MaxBody)}

(* longer programs, over fewer gates *)
LongWords ==
  SeqOf({Rot("Z", 1, 1), Rot("Z", 2, 1), Letter("h", <<1>>), Letter("cx", <<1, 2>>),
         Letter("other", <<2>>)}, MaxLength + 2)

Program(word) ==
  [n \in DOMAIN word |->
     [id |-> n, op |-> word[n].op, args |-> word[n].args, axis |-> word[n].axis,
      theta |-> word[n].theta, cond |-> word[n].cond]]

SomePrograms == {Program(w) : w \in SeqOf(Letters, MaxLength) \cup LongWords \cup GateWords}
=============================================================================
