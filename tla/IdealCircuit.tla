---------------------------- MODULE IdealCircuit ----------------------------
(***************************************************************************)
(* What a mapper promises: the gates of the program act, one by one and in *)
(* program order, on the qubits the program names.  No device, no swaps.   *)
(***************************************************************************)
EXTENDS Circuit

CONSTANTS
  Qubits,    \* the qubits the program names
  Programs   \* the programs considered: sequences of gates

VARIABLES
  todo,      \* the gates still to be applied
  bit,       \* whether the condition of the program's if statements holds
  frame,     \* what the qubits hold
  events     \* what the other gates have done

vars == <<todo, bit, frame, events>>

Init ==
  /\ todo \in Programs
  /\ bit \in BOOLEAN
  /\ frame = IdentityFrame(Qubits)
  /\ events = <<>>

Runs(g) == g.cond => bit

Skip ==
  /\ todo # <<>> /\ ~Runs(Head(todo))
  /\ todo' = Tail(todo)
  /\ UNCHANGED <<bit, frame, events>>

ApplyCNOT ==
  /\ todo # <<>> /\ Runs(Head(todo)) /\ Head(todo).op = "cx"
  /\ frame' = CX(frame, Head(todo).args[1], Head(todo).args[2])
  /\ todo' = Tail(todo)
  /\ UNCHANGED <<bit, events>>

ApplyOther ==
  /\ todo # <<>> /\ Runs(Head(todo)) /\ Head(todo).op # "cx"
  /\ events' = Append(events, Event(Head(todo), frame))
  /\ todo' = Tail(todo)
  /\ UNCHANGED <<bit, frame>>

Next == Skip \/ ApplyCNOT \/ ApplyOther

Spec == Init /\ [][Next]_vars

=============================================================================
