------------------------------ MODULE Inlining ------------------------------
(***************************************************************************)
(* Inliner (transformations/inline.hpp), after Desugaring as in main.cpp:  *)
(* a call is replaced by the body of its gate, and the ancillas a gate     *)
(* declares become qubits of one new register, or qubits of the program    *)
(* that the call does not use.                                             *)
(***************************************************************************)
EXTENDS Desugaring

CONSTANT Overrides   \* the sets of gates that are not to be inlined

VARIABLES
  overrides,   \* config_.overrides
  gates,       \* gate_decls_
  current,     \* current_ancillas: those of the body being visited
  registers,   \* registers_: the quantum registers declared so far
  max          \* max_ancilla_

inliner == <<gates, current, registers, max>>
ivars   == <<vars, overrides, inliner>>

AncillaName == "anc"

InlineInit ==
  /\ Init
  /\ overrides \in Overrides
  /\ gates = <<>>
  /\ current = <<>>
  /\ registers = <<>>
  /\ max = 0

-----------------------------------------------------------------------------
(* Ancillas of a gate, qubit by qubit *)
Units(ancillas) ==
  FlattenSeq([n \in DOMAIN ancillas |->
    [i \in 1 .. ancillas[n].size |->
       [qubit |-> Access(ancillas[n].name, i - 1), dirty |-> ancillas[n].dirty]]])

QubitsDeclared ==
  FlattenSeq([n \in DOMAIN registers |->
    [i \in 1 .. registers[n].size |-> Access(registers[n].name, i - 1)]])

(* Mutant: the arguments of the call are taken too. *)
UnusedAnyway(s) == QubitsDeclared

(* the qubits that may be lent to the call *)
Unused(s) == SelectSeq(QubitsDeclared, LAMBDA a : a \notin Range(s.args))

(* A dirty ancilla is the next qubit that is not used; when there is none, *)
(* it is a clean one.                                                      *)
Borrows(s, units, n) ==
  units[n].dirty /\ Cardinality({m \in 1 .. n : units[m].dirty}) <= Len(Unused(s))

(* anc_offset: clean ancillas are numbered from 0 in every call. *)
Allocated(s, units, n) == Cardinality({m \in 1 .. n : ~Borrows(s, units, m)})

Ancilla(s, units, n) ==
  IF Borrows(s, units, n)
  THEN Unused(s)[Cardinality({m \in 1 .. n : units[m].dirty})]
  ELSE Access(AncillaName, Allocated(s, units, n) - 1)

(* q_subst *)
Substitution(s) ==
  LET gate  == gates[s.op]
      units == Units(gate.ancillas)
      Number(a) == CHOOSE n \in DOMAIN units : units[n].qubit = a
  IN  [a \in {Access(gate.params[k], Whole) : k \in DOMAIN gate.params} |->
         s.args[CHOOSE k \in DOMAIN gate.params : Access(gate.params[k], Whole) = a]]
      @@ [a \in {units[n].qubit : n \in DOMAIN units} |-> Ancilla(s, units, Number(a))]

(* SubstAP::replace: first the very access, then its variable with the two *)
(* offsets added up.                                                       *)
Substituted(a, subst) ==
  LET root == Access(a.var, Whole)
  IN  IF a \in DOMAIN subst THEN subst[a]
      ELSE IF root \notin DOMAIN subst THEN a
      ELSE Access(subst[root].var,
                  IF subst[root].off = Whole THEN a.off ELSE a.off + subst[root].off)

(* The copy of the body; each statement is under the if that the call is   *)
(* under.                                                                  *)
Copy(s) ==
  LET body  == gates[s.op].body
      subst == Substitution(s)
  IN  [n \in DOMAIN body |->
         [body[n] EXCEPT !.args = [k \in DOMAIN @ |-> Substituted(@[k], subst)],
                         !.cond = s.cond]]

Inlines(s) == s.op \in DOMAIN gates \ overrides

(* Mutant: the last call decides how many ancillas there are. *)
InlineCallLast ==
  /\ Inlines(Here)
  /\ Splice(Copy(Here))
  /\ LET units == Units(gates[Here.op].ancillas)
     IN  max' = Allocated(Here, units, Len(units))
  /\ UNCHANGED <<gates, current, registers>>

(* replace(DeclaredGate) *)
InlineCall ==
  /\ Inlines(Here)
  /\ Splice(Copy(Here))
  /\ LET units == Units(gates[Here.op].ancillas)
     IN  max' = Max({max, Allocated(Here, units, Len(units))})
  /\ UNCHANGED <<gates, current, registers>>

(* replace(RegisterDecl), replace(AncillaDecl), and what is not replaced *)
InlineOther ==
  /\ ~Inlines(Here) /\ Here.op # "gate"
  /\ at' = StepOver(1)
  /\ registers' = IF Here.op = "qreg" THEN Append(registers, Here) ELSE registers
  /\ current' = IF Here.op = "ancilla" THEN Append(current, Here) ELSE current
  /\ UNCHANGED <<program, gates, max>>

InlineEnter ==
  /\ Here.op = "gate"
  /\ at' = <<at[1], 1>>
  /\ UNCHANGED <<program, inliner>>

(* replace(GateDecl): calls in its body are already inlined. *)
InlineLeave ==
  /\ AtLeave
  /\ LET decl == program[at[1]]
     IN  gates' = (decl.name :> [params |-> decl.params, body |-> decl.body,
                                 ancillas |-> current]) @@ gates
  /\ current' = <<>>
  /\ at' = <<at[1] + 1, 0>>
  /\ UNCHANGED <<program, registers, max>>

(* Cleaner: declarations are dropped, of gates that were inlined and of    *)
(* ancillas outside a body.                                                *)
Kept(s) == s.op # "ancilla" /\ (s.op = "gate" => s.name \in overrides)

AncillaRegister ==
  IF max > 0
  THEN <<[op |-> "qreg", args |-> <<>>, cond |-> FALSE, name |-> AncillaName, size |-> max]>>
  ELSE <<>>

(* the end of visit(Program) *)
InlineEnd ==
  /\ AtEnd
  /\ program' = SelectSeq(AncillaRegister \o program, Kept)
  /\ pass' = "done"
  /\ UNCHANGED <<at, inliner>>

Inline ==
  /\ pass = "inline"
  /\ \/ AtStatement /\ (InlineCall \/ InlineOther \/ InlineEnter) /\ UNCHANGED pass
     \/ InlineLeave /\ UNCHANGED pass
     \/ InlineEnd
  /\ UNCHANGED <<scopes, uids, args, plan>>

(* main.cpp, with registers expanded and inlining asked for *)
Next ==
  /\ \/ (Desugar \/ MergeBarriers) /\ UNCHANGED inliner
     \/ Inline
  /\ UNCHANGED overrides

Spec == InlineInit /\ [][Next]_ivars

=============================================================================
