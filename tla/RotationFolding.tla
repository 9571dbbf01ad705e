-------------------------- MODULE RotationFolding --------------------------
(***************************************************************************)
(* optimization::RotationOptimizer (optimization/rotation_folding.hpp):    *)
(* rotations are merged across the Clifford gates between them.            *)
(*                                                                         *)
(* The visit turns a program, and every gate body on its own, into a list  *)
(* of rotations about Paulis, Clifford operators and uninterpreted gates.  *)
(* fold then takes the rotations from the last to the first and moves each *)
(* one towards the front, until it meets one about the same Pauli, which   *)
(* is deleted, or something that it does not commute with.                 *)
(*                                                                         *)
(* Angles are multiples of pi/2, so that what a program does to Paulis is  *)
(* Paulis again; nothing in the code depends on the angle but the test for *)
(* 0.  Global phases, which fold corrects by gates that are the identity   *)
(* up to a phase, are left out.                                            *)
(***************************************************************************)
EXTENDS Paulis, Sequences, SequencesExt

INSTANCE HeisenbergFrame

CONSTANTS
  Programs   \* the programs considered: sequences of statements

(* A statement: one of the Clifford gates; "rot", for t, tdg, rz, rx, ry,  *)
(* with its axis and angle; "other", for all that has no rule; and the     *)
(* ends of the body of a gate.                                             *)
CliffordGates == {"h", "x", "y", "z", "s", "sdg", "cx"}

Statement ==
  [id : Nat, op : CliffordGates \cup {"rot", "other", "enter", "leave"},
   args : Seq(Names), axis : Axis, theta : 0 .. 3, cond : BOOLEAN]

(* The n-th statement stands in the body of a gate. *)
Inside(p, n) ==
  \E m \in 1 .. n - 1 :
    /\ p[m].op = "enter"
    /\ \A k \in m + 1 .. n - 1 : p[k].op # "leave"

(* The parser makes a uid per statement, and gates with a body each; the   *)
(* semantic checker has seen that no gate is given a qubit twice.          *)
WellFormed(p) ==
  /\ p \in Seq(Statement)
  /\ \A n \in DOMAIN p :
       /\ p[n].id = n
       /\ p[n].op \in CliffordGates \cup {"rot"} => p[n].args # <<>>
       /\ p[n].op = "cx" => Len(p[n].args) = 2 /\ p[n].args[1] # p[n].args[2]
       /\ p[n].op = "enter" => ~Inside(p, n)
       /\ p[n].op = "leave" => Inside(p, n)
  /\ ~Inside(p, Len(p) + 1)

ASSUME ProgramAssumption == \A p \in Programs : WellFormed(p)

VARIABLES
  program,     \* the program
  next,        \* the statement to be visited next
  pc,          \* "visit", or "fold", or "done"
  accum,       \* accum_
  clifford,    \* current_clifford_
  outer,       \* both of them of the main program, while in a gate body
  it,          \* the element that fold is at, from the end
  forward,     \* the element that fold_forward is at; 0 outside
  moving,      \* R of fold_forward
  replaced     \* replacement_list_: the new angle, 0 for no gate, or Kept

vars == <<program, next, pc, accum, clifford, outer, it, forward, moving, replaced>>

Kept == -1

Nothing == [kind |-> "none", id |-> 0, theta |-> 0, pauli |-> One]

Init ==
  /\ program \in Programs
  /\ next = 1
  /\ pc = "visit"
  /\ accum = <<>>
  /\ clifford = Unit
  /\ outer = <<>>
  /\ it = 0 /\ forward = 0 /\ moving = Nothing
  /\ replaced = [n \in DOMAIN program |-> Kept]

Rotation(id, theta, pauli) ==
  [kind |-> "rotation", id |-> id, theta |-> theta, pauli |-> pauli]
CliffordOp(C)    == [kind |-> "clifford", map |-> C]
Uninterp(s)      == [kind |-> "uninterp", qubits |-> s.args, id |-> s.id]

-----------------------------------------------------------------------------
(* The visit.  Under an if every gate is uninterpreted.                    *)
VisitClifford(s) ==
  /\ s.op \in CliffordGates /\ ~s.cond
  /\ clifford' = Compose(clifford, Dagger(s.op, s.args))
  /\ UNCHANGED <<accum, outer>>

VisitRotation(s) ==
  /\ s.op = "rot" /\ ~s.cond
  /\ accum' = Append(accum,
       Rotation(s.id, s.theta, Conjugate(clifford, On(s.args[1], s.axis))))
  /\ UNCHANGED <<clifford, outer>>

(* Mutant: the current Clifford goes on. *)
PushUninterpKeeps(s) ==
  /\ accum' = accum \o <<CliffordOp(clifford), Uninterp(s)>>
  /\ UNCHANGED clifford

PushUninterp(s) ==
  /\ accum' = accum \o <<CliffordOp(clifford), Uninterp(s)>>
  /\ clifford' = Unit

VisitOther(s) ==
  /\ s.op = "other" \/ (s.cond /\ s.op \in CliffordGates \cup {"rot"})
  /\ PushUninterp(s)
  /\ UNCHANGED outer

(* visit(GateDecl): a new local state *)
EnterGate(s) ==
  /\ s.op = "enter"
  /\ outer' = <<accum, clifford>>
  /\ accum' = <<>>
  /\ clifford' = Unit

Visit ==
  /\ pc = "visit" /\ next <= Len(program)
  /\ LET s == program[next]
     IN  VisitClifford(s) \/ VisitRotation(s) \/ VisitOther(s) \/ EnterGate(s)
  /\ next' = next + 1
  /\ UNCHANGED <<program, pc, it, forward, moving, replaced>>

(* The end of a gate body, and of the program *)
AtEnd == next <= Len(program) => program[next].op = "leave"

StartFold ==
  /\ pc = "visit" /\ AtEnd
  /\ pc' = "fold"
  /\ accum' = Append(accum, CliffordOp(clifford))
  /\ it' = Len(accum')
  /\ UNCHANGED <<program, next, clifford, outer, forward, moving, replaced>>

-----------------------------------------------------------------------------
(* fold                                                                    *)
Folding == pc = "fold" /\ moving = Nothing

SkipElement ==
  /\ Folding /\ it > 0 /\ accum[it].kind # "rotation"
  /\ it' = it - 1
  /\ UNCHANGED <<program, next, pc, accum, clifford, outer, forward, moving, replaced>>

TakeRotation ==
  /\ Folding /\ it > 1 /\ accum[it].kind = "rotation"
  /\ moving' = accum[it]
  /\ forward' = it - 1
  /\ UNCHANGED <<program, next, pc, accum, clifford, outer, it, replaced>>

(* The loop ends, or it is at a rotation that is the first element. *)
EndFold ==
  /\ Folding
  /\ it = 0 \/ (it = 1 /\ accum[1].kind = "rotation")
  /\ it' = 0
  /\ IF next > Len(program)
     THEN pc' = "done" /\ UNCHANGED <<next, accum, clifford, outer>>
     ELSE /\ pc' = "visit"
          /\ next' = next + 1
          /\ accum' = outer[1] /\ clifford' = outer[2]
          /\ outer' = <<>>
  /\ UNCHANGED <<program, forward, moving, replaced>>

-----------------------------------------------------------------------------
(* fold_forward                                                            *)
Meets(kind) == forward > 0 /\ accum[forward].kind = kind

(* Mutant: the sign of the Pauli does not matter. *)
MergedAngleUnsigned(R, P) == (R.theta + P.theta) % 4

(* try_merge, when the Paulis are equal up to the sign *)
MergedAngle(R, P) ==
  IF R.pauli = P.pauli THEN (R.theta + P.theta) % 4 ELSE (R.theta - P.theta) % 4

CanMerge(R, P) == R.pauli \in {P.pauli, Minus(P.pauli)}

(* The rotation that was taken is replaced, if it has changed at all.      *)
Settle(R, list) ==
  IF R = accum[it] THEN list ELSE [list EXCEPT ![R.id] = R.theta]

(* Mutant: the other rotation stays in the list. *)
ErasedFromNone(n) == accum

(* The list without its n-th element; the first one is never erased.       *)
ErasedFrom(n) == IF n = 1 THEN accum ELSE RemoveAt(accum, n)

Merge ==
  /\ Meets("rotation") /\ CanMerge(moving, accum[forward])
  /\ LET P == accum[forward]
         R == [moving EXCEPT !.theta = MergedAngle(moving, P)]
     IN  replaced' = Settle(R, [replaced EXCEPT ![P.id] = 0])
  /\ accum' = ErasedFrom(forward)
  /\ it' = it - 1 - (Len(accum) - Len(accum'))
  /\ moving' = Nothing
  /\ forward' = 0
  /\ UNCHANGED <<program, next, pc, clifford, outer>>

(* Mutant: a Clifford operator is passed as if it were not there. *)
PassUnchanged ==
  /\ \/ Meets("rotation") /\ ~CanMerge(moving, accum[forward])
          /\ Commute(moving.pauli, accum[forward].pauli)
     \/ Meets("uninterp") /\ TrivialOn(moving.pauli, Range(accum[forward].qubits))
     \/ Meets("clifford")
  /\ forward' = forward - 1
  /\ UNCHANGED <<program, next, pc, accum, clifford, outer, it, moving, replaced>>

Pass ==
  /\ \/ /\ Meets("rotation") /\ ~CanMerge(moving, accum[forward])
        /\ Commute(moving.pauli, accum[forward].pauli)
        /\ UNCHANGED moving
     \/ /\ Meets("uninterp") /\ TrivialOn(moving.pauli, Range(accum[forward].qubits))
        /\ UNCHANGED moving
     \/ /\ Meets("clifford")
        /\ moving' = [moving EXCEPT !.pauli = Conjugate(accum[forward].map, @)]
  /\ forward' = forward - 1
  /\ UNCHANGED <<program, next, pc, accum, clifford, outer, it, replaced>>

Stop ==
  /\ moving # Nothing
  /\ \/ forward = 0
     \/ /\ Meets("rotation") /\ ~CanMerge(moving, accum[forward])
        /\ ~Commute(moving.pauli, accum[forward].pauli)
     \/ Meets("uninterp") /\ ~TrivialOn(moving.pauli, Range(accum[forward].qubits))
  /\ replaced' = Settle(moving, replaced)
  /\ it' = it - 1
  /\ moving' = Nothing
  /\ forward' = 0
  /\ UNCHANGED <<program, next, pc, accum, clifford, outer>>

Next ==
  \/ Visit \/ StartFold
  \/ SkipElement \/ TakeRotation \/ EndFold
  \/ Merge \/ Pass \/ Stop

Spec == Init /\ [][Next]_vars

-----------------------------------------------------------------------------
(* The main program and the gate bodies, each with its own meaning: the    *)
(* declaration that the n-th statement stands under, 0 in the main program *)
Scope(p, n) ==
  IF Inside(p, n)
  THEN CHOOSE m \in 1 .. n - 1 : p[m].op = "enter" /\ \A k \in m + 1 .. n - 1 : p[k].op # "leave"
  ELSE 0

AfterStatement(m, s) ==
  CASE s.op = "rot" /\ ~s.cond -> Rotate(m, WordOf(m.frame, s.args[1], s.axis), s.theta)
    [] s.op \in CliffordGates /\ ~s.cond -> Gate(m, s.op, s.args)
    [] OTHER -> OtherGate(m, s.args, s.id)

(* The first statements of p, up to the last one, that are in the scope d  *)
Meaning(p, d, last) ==
  LET upTo[n \in 0 .. last] ==
        IF n = 0 THEN StartFrame
        ELSE IF Scope(p, n) # d \/ p[n].op \in {"enter", "leave", "deleted"} THEN upTo[n - 1]
        ELSE AfterStatement(upTo[n - 1], p[n])
  IN  upTo[last]

(* The program p, replaced as the list says *)
Rewritten(p, list) ==
  [n \in DOMAIN p |->
     CASE list[n] = Kept -> p[n]
       [] list[n] = 0    -> [p[n] EXCEPT !.op = "deleted"]
       [] OTHER          -> [p[n] EXCEPT !.theta = list[n]]]

(* Between any two rotations that fold has done with, the program with     *)
(* the replacements so far does what the program does, up to a global      *)
(* phase and whatever the gates without a rule are.                        *)
MeaningPreserved ==
  Folding \/ pc = "done" =>
    \A d \in {Scope(program, n) : n \in DOMAIN program} :
      Meaning(Rewritten(program, replaced), d, Len(program)) = Meaning(program, d, Len(program))

WordOfPauli(frame, P) ==
  LET upTo[n \in 0 .. NQ] ==
        IF n = 0 THEN TimesI(Word({}, {}), P.phase)
        ELSE IF P.op[n] = "I" THEN upTo[n - 1]
        ELSE WordProduct(upTo[n - 1], WordOf(frame, n, P.op[n]))
  IN  upTo[NQ]

AfterElement(m, e) ==
  CASE e.kind = "rotation" -> Rotate(m, WordOfPauli(m.frame, e.pauli), e.theta)
    [] e.kind = "clifford" ->
         [m EXCEPT !.frame = [q \in Names |->
            [x |-> WordOfPauli(m.frame, e.map[<<q, "X">>]),
             z |-> WordOfPauli(m.frame, e.map[<<q, "Z">>])]]]
    [] e.kind = "uninterp" -> OtherGate(m, e.qubits, e.id)

(* The elements of a list, the first n of them *)
ListMeaning(list, n) ==
  LET upTo[k \in 0 .. n] ==
        IF k = 0 THEN StartFrame ELSE AfterElement(upTo[k - 1], list[k])
  IN  upTo[n]

(* The list that the visit has built, with the current Clifford at its     *)
(* end, does what the statements visited do: the rotations have been moved *)
(* in front of the Clifford gates before them, which are kept as inverses. *)
ChannelMatches ==
  pc = "visit" =>
    AfterElement(ListMeaning(accum, Len(accum)), CliffordOp(clifford))
      = Meaning(program, Scope(program, next), next - 1)

(* A gate that was deleted because it was merged into a later one never    *)
(* comes back, although it may still be in the list that is iterated over. *)
DeletedStaysDeleted ==
  [][\A n \in DOMAIN replaced : replaced[n] = 0 => replaced'[n] = 0]_vars

(* What a Pauli is once it is in front of the element e *)
Past(e, P) == IF e.kind = "clifford" THEN Conjugate(e.map, P) ELSE P

(* The Pauli of the rotation m of a list, once it has come to n           *)
Moved(list, m, n) ==
  LET past[k \in 0 .. m - 1 - n] ==   \* past the k elements in front of m
        IF k = 0 THEN list[m].pauli ELSE Past(list[m - k], past[k - 1])
  IN  past[m - 1 - n]

(* Nothing between n and m stops the rotation m, which has the Pauli of n  *)
(* when it is there.                                                       *)
Mergeable(list, m, n) ==
  /\ list[m].kind = "rotation" /\ list[n].kind = "rotation"
  /\ Moved(list, m, n) \in {list[n].pauli, Minus(list[n].pauli)}
  /\ \A k \in n + 1 .. m - 1 :
       /\ list[k].kind = "rotation" => Commute(Moved(list, m, k), list[k].pauli)
       /\ list[k].kind = "uninterp" => TrivialOn(Moved(list, m, k), Range(list[k].qubits))

(* If nothing has been deleted, there was nothing to merge.                *)
NothingOverlooked ==
  pc = "done" /\ (\A n \in DOMAIN replaced : replaced[n] # 0) =>
    \A m \in DOMAIN accum : \A n \in 1 .. m - 1 : ~Mergeable(accum, m, n)

=============================================================================
