---------------------------- MODULE Resynthesis ----------------------------
(***************************************************************************)
(* The passes over CNOT-dihedral synthesis: optimization::CNOTOptimizer    *)
(* (optimization/cnot_resynthesis.hpp) and mapping::SteinerMapper          *)
(* (mapping/mapping/steiner.hpp).                                          *)
(*                                                                         *)
(* Both delete the CNOTs and phases of the program and collect them: the   *)
(* CNOTs as a linear operator, a phase at the row that its qubit has at    *)
(* that time.  At any other statement, and at the end of the program or of *)
(* a gate body, a circuit is synthesized for what was collected and put    *)
(* there, before the statement.                                            *)
(*                                                                         *)
(* A row of permutation_ is the set of its ones; a qubit without an index  *)
(* yet is one whose row is itself.  The circuit emitted is represented by  *)
(* what it does to value, phases and events, and that of gray_synth and    *)
(* gray_steiner by what GraySynth shows of them: every phase once, at its  *)
(* parity, and the operator.                                               *)
(***************************************************************************)
EXTENDS Parities

CONSTANT Programs   \* the programs considered

ASSUME ProgramAssumption == Programs \subseteq Seq(Statement)

VARIABLES
  pass,          \* which of the two it is
  todo,          \* the statements still to be visited
  bit,           \* whether the condition of the program's if statements holds
  scope,         \* the main body or gate body being visited
  permutation,   \* permutation_
  pending,       \* phases_
  outer,         \* both of them of the main body, while a gate is visited
  value,         \* the value of every qubit after the circuit emitted,
  phases,        \* the phases applied by it
  events         \* and what its other statements see

collected == <<permutation, pending>>
output    == <<value, phases, events>>
vars      == <<pass, todo, bit, scope, collected, outer, output>>

Identity == [q \in Names |-> {q}]

Init ==
  /\ pass \in {"optimizer", "steiner"}
  /\ todo \in Programs
  /\ pass = "steiner" => \A n \in DOMAIN todo : todo[n].op # "enter"
  /\ bit \in BOOLEAN
  /\ scope = "main"
  /\ permutation = Identity
  /\ pending = {}
  /\ outer = <<Identity, {}>>
  /\ value = [sc \in Scopes |-> Start]
  /\ phases = {}
  /\ events = <<>>

-----------------------------------------------------------------------------
(* SteinerMapper has no rule for the gate cx of qelib1: it is inlined.     *)
Collects(s) == s.op = "CX" \/ (s.op = "cx" /\ pass = "optimizer")

(* Mutant: the row is overwritten. *)
CollectCNOTCopies(s) ==
  /\ Collects(s)
  /\ permutation' = [permutation EXCEPT ![s.args[2]] = permutation[s.args[1]]]
  /\ UNCHANGED <<scope, pending, outer, output>>

(* replace(CNOTGate): the gate is deleted. *)
CollectCNOT(s) ==
  /\ Collects(s)
  /\ permutation' = [permutation EXCEPT ![s.args[2]] = Xor(@, permutation[s.args[1]])]
  /\ UNCHANGED <<scope, pending, outer, output>>

(* Mutant: every phase is a term of its own. *)
AddPhaseUnmerged(terms, parity, id) ==
  terms \cup {[vec |-> parity, angle |-> {id}]}

(* add_phase: angles at the same parity are added up.  An angle is the set *)
(* of the statements it is the sum of.                                     *)
AddPhase(terms, parity, id) ==
  LET same == {t \in terms : t.vec = parity}
  IN  (terms \ same) \cup {[vec |-> parity, angle |-> {id} \cup UNION {t.angle : t \in same}]}

(* replace(UGate) and replace(DeclaredGate) for rotations around z *)
CollectPhase(s) ==
  /\ s.op = "phase"
  /\ pending' = AddPhase(pending, permutation[s.args[1]], s.id)
  /\ UNCHANGED <<scope, permutation, outer, output>>

(* What the circuit synthesized from rows and terms does where the qubits  *)
(* have the values v.                                                      *)
AfterCircuit(v, rows) == [q \in Names |-> Parity(v, rows[q])]

PhasesOf(sc, v, terms) ==
  UNION {{<<sc, Parity(v, t.vec), id>> : id \in t.angle} : t \in terms}

(* Mutant: phases_ is not cleared. *)
ResetRowsOnly == permutation' = Identity /\ UNCHANGED pending

Reset == permutation' = Identity /\ pending' = {}

(* flush, and the statement itself.  When it stands under an if, so does   *)
(* the whole replacement (Replacer::visit(IfStmt)).                        *)
Flush(s) ==
  /\ s.op = "other" \/ (IsCNOT(s) /\ ~Collects(s))
  /\ Reset
  /\ LET now  == AfterCircuit(value[scope], permutation)
         done == phases \cup PhasesOf(scope, value[scope], pending)
     IN  \/ /\ ~Runs(s, bit)
            /\ UNCHANGED output
         \/ /\ Runs(s, bit) /\ IsCNOT(s)
            /\ value' = [value EXCEPT ![scope] = AfterCNOT(now, s)]
            /\ phases' = done
            /\ UNCHANGED events
         \/ /\ Runs(s, bit) /\ ~IsCNOT(s)
            /\ value' = [value EXCEPT ![scope] = AfterOther(now, s)]
            /\ phases' = done
            /\ events' = Append(events, Event(s, now, {p \in done : p[1] = scope}))
  /\ UNCHANGED <<scope, outer>>

(* CNOTOptimizer::visit(GateDecl): a new local state.  SteinerMapper does  *)
(* not visit gate bodies; they have been inlined and removed before it.    *)
Enter(s) ==
  /\ s.op = "enter" /\ scope = "main" /\ pass = "optimizer"
  /\ scope' = s.args[1]
  /\ outer' = collected
  /\ Reset
  /\ UNCHANGED output

(* The body is flushed, and the state of the main body is swapped back.    *)
Leave(s) ==
  /\ s.op = "leave" /\ scope # "main"
  /\ scope' = "main"
  /\ permutation' = outer[1] /\ pending' = outer[2]
  /\ outer' = <<Identity, {}>>
  /\ value' = [value EXCEPT ![scope] = AfterCircuit(value[scope], permutation)]
  /\ phases' = phases \cup PhasesOf(scope, value[scope], pending)
  /\ UNCHANGED events

(* visit(Program): the last leg.  (SteinerMapper does not reset after it,  *)
(* and is not used again.)                                                 *)
End(s) ==
  /\ s.op = "end"
  /\ value' = [value EXCEPT ![scope] = AfterCircuit(value[scope], permutation)]
  /\ phases' = phases \cup PhasesOf(scope, value[scope], pending)
  /\ Reset
  /\ UNCHANGED <<scope, outer, events>>

Next ==
  /\ todo # <<>>
  /\ LET s == Head(todo)
     IN  CollectCNOT(s) \/ CollectPhase(s) \/ Flush(s) \/ Enter(s) \/ Leave(s) \/ End(s)
  /\ todo' = Tail(todo)
  /\ UNCHANGED <<pass, bit>>

Spec == Init /\ [][Next]_vars

-----------------------------------------------------------------------------
(* What was collected and not yet flushed in a scope *)
Rows(sc) ==
  CASE sc = scope -> permutation
    [] sc # scope /\ sc = "main" -> outer[1]
    [] OTHER -> Identity

Terms(sc) ==
  CASE sc = scope -> pending
    [] sc # scope /\ sc = "main" -> outer[2]
    [] OTHER -> {}

(* What the program has done so far: the circuit emitted, and in every     *)
(* scope the circuit that would be emitted for what is collected there.    *)
ValueOfProgram  == [sc \in Scopes |-> AfterCircuit(value[sc], Rows(sc))]
PhasesOfProgram == phases \cup UNION {PhasesOf(sc, value[sc], Terms(sc)) : sc \in Scopes}

Ideal == INSTANCE PathSum WITH value <- ValueOfProgram, phases <- PhasesOfProgram

(* The circuit emitted does what the program does, in order: every phase   *)
(* meets the value it met in the program, no phase moves over a statement  *)
(* that is kept, and a gate body and the main body do not mix.             *)
ImplementsProgram == Ideal!Spec

Term == [vec : SUBSET Names, angle : SUBSET Ids]

TypeOK ==
  /\ scope \in Scopes
  /\ permutation \in [Names -> SUBSET Names]
  /\ pending \subseteq Term
  /\ outer \in [Names -> SUBSET Names] \X SUBSET Term
  /\ value \in [Scopes -> [Names -> Values]]
  /\ phases \subseteq Scopes \X Values \X Ids

(* What the synthesis takes for granted: parities that differ and are not  *)
(* zero.  gray_synth cannot split a partition into equal vectors, and      *)
(* would throw.                                                            *)
TermsSplittable ==
  /\ {} \notin {t.vec : t \in pending}
  /\ \A t, u \in pending : t.vec = u.vec => t = u

(* The operator can be inverted: no set of rows adds up to zero.  Gaussian *)
(* elimination finds its pivots for this reason only.                      *)
OperatorInvertible ==
  \A S \in (SUBSET Names) \ {{}} : Parity(permutation, S) # {}

=============================================================================
