--------------------------- MODULE MCResynthesis ---------------------------
(* Instances of Resynthesis for TLC: every program of a few statements on  *)
(* three qubits, and programs around a gate declaration.                   *)
EXTENDS Resynthesis, SequencesExt

CONSTANT MaxLength   \* bound on the length of a program

Letter(op, args) == [op |-> op, args |-> args, cond |-> FALSE]

Letters ==
  {Letter("phase", <<q>>) : q \in Names}
    \cup {Letter("CX", <<"a", "b">>), Letter("CX", <<"b", "c">>), Letter("CX", <<"c", "a">>)}
    \cup {Letter("cx", <<"b", "a">>), Letter("other", <<"b">>), Letter("other", <<"a", "c">>)}

FewLetters ==
  {Letter("phase", <<"a">>), Letter("phase", <<"b">>), Letter("CX", <<"a", "b">>),
   Letter("cx", <<"b", "a">>), Letter("other", <<"b">>)}

Enter1 == Letter("enter", <<"g">>)
Leave1 == Letter("leave", <<"g">>)
End1   == Letter("end", <<>>)

(* Every statement of a program has an identity. *)
Program(word) ==
  [n \in DOMAIN word |->
     [op |-> word[n].op, args |-> word[n].args, cond |-> word[n].cond, id |-> n]]

(* A statement under an if is right only where nothing has been collected: *)
(* what is flushed at it is put under the if as well.                      *)
UnderIf(q) == [Letter("other", <<q>>) EXCEPT !.cond = TRUE]

IfWords ==
  {before \o <<Letter("other", <<q>>), UnderIf("b")>> \o after :
     before \in SeqOf(FewLetters, 2), q \in Names, after \in SeqOf(FewLetters, 1)}

GateWords ==
  {before \o <<Enter1>> \o body \o <<Leave1>> \o after :
     before \in SeqOf(FewLetters, 1), body \in SeqOf(FewLetters, 3),
     after \in SeqOf(FewLetters, 1)}

SomePrograms ==
  {Program(w \o <<End1>>) : w \in SeqOf(Letters, MaxLength) \cup IfWords \cup GateWords}

SomeIds == 1 .. 9
=============================================================================
