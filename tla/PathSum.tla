------------------------------ MODULE PathSum ------------------------------
(***************************************************************************)
(* What the CNOT-dihedral passes promise: a program and its gate bodies do *)
(* what their statements do, one by one and in order.  Nothing is          *)
(* collected, and nothing moves.                                           *)
(***************************************************************************)
EXTENDS Parities

VARIABLES
  todo,    \* the statements still to be executed
  bit,     \* whether the condition of the program's if statements holds
  scope,   \* the main body or gate body being executed
  value,   \* the value of every qubit, in every scope
  phases,  \* the phases applied, with their scope and value
  events   \* what the other statements have seen

vars == <<todo, bit, scope, value, phases, events>>

Init ==
  /\ todo \in Seq(Statement)
  /\ bit \in BOOLEAN
  /\ scope = "main"
  /\ value = [sc \in Scopes |-> Start]
  /\ phases = {}
  /\ events = <<>>

Skip(s) ==
  /\ s.op = "end" \/ ~Runs(s, bit)
  /\ UNCHANGED <<scope, value, phases, events>>

CNOT(s) ==
  /\ IsCNOT(s) /\ Runs(s, bit)
  /\ value' = [value EXCEPT ![scope] = AfterCNOT(@, s)]
  /\ UNCHANGED <<scope, phases, events>>

Phase(s) ==
  /\ s.op = "phase" /\ Runs(s, bit)
  /\ phases' = phases \cup {<<scope, value[scope][s.args[1]], s.id>>}
  /\ UNCHANGED <<scope, value, events>>

Other(s) ==
  /\ s.op = "other" /\ Runs(s, bit)
  /\ events' = Append(events, Event(s, value[scope], {p \in phases : p[1] = scope}))
  /\ value' = [value EXCEPT ![scope] = AfterOther(@, s)]
  /\ UNCHANGED <<scope, phases>>

Enter(s) ==
  /\ s.op = "enter" /\ scope = "main"
  /\ scope' = s.args[1]
  /\ UNCHANGED <<value, phases, events>>

Leave(s) ==
  /\ s.op = "leave" /\ scope # "main"
  /\ scope' = "main"
  /\ UNCHANGED <<value, phases, events>>

Next ==
  /\ todo # <<>>
  /\ LET s == Head(todo)
     IN  Skip(s) \/ CNOT(s) \/ Phase(s) \/ Other(s) \/ Enter(s) \/ Leave(s)
  /\ todo' = Tail(todo)
  /\ UNCHANGED bit

Spec == Init /\ [][Next]_vars

=============================================================================
