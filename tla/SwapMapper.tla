----------------------------- MODULE SwapMapper -----------------------------
(***************************************************************************)
(* staq::mapping::SwapMapper (mapping/mapping/swap.hpp): a pass over the   *)
(* program that moves the control of every CNOT next to its target along   *)
(* a shortest path of the device, by swaps, and keeps the permutation the  *)
(* swaps have made instead of undoing them.                                *)
(*                                                                         *)
(* The pass rewrites a gate list, so the state is the part of the program  *)
(* still to visit, the gates emitted, and the mapper's own permutation_.   *)
(* frame and events are what the emitted gates do on the device (Circuit). *)
(***************************************************************************)
EXTENDS Circuit

CONSTANTS
  NQ,        \* device.qubits_
  Names,     \* names of the gates, measurements and barriers but CNOT
  Devices,   \* devices: couplings, and what shortest_path answers on them
  Programs   \* the programs mapped, after layout: gates on device qubits

Qubits == 0 .. NQ - 1

VARIABLES
  device,        \* device_
  permutation,   \* permutation_: where the qubit q of the program is now
  todo,          \* gates of the program that are not yet replaced
  out,           \* the gates emitted
  chain,         \* what is left of cnot_chain, <<>> between two gates
  cur,           \* loop variable i: where the control is
  tgt,           \* tgt
  bit,           \* whether the condition of if statements holds at run time
  frame, events  \* what the emitted gates do

loop == <<chain, cur, tgt>>
vars == <<device, permutation, todo, out, chain, cur, tgt, bit, frame, events>>

Linked(d, i, j) == <<i, j>> \in d.couplings \/ <<j, i>> \in d.couplings

(* What shortest_path answers: the qubit i alone when there is no path to  *)
(* j, and otherwise a path of coupled qubits from i to j that repeats none.*)
IsAnswer(d, path, i, j) ==
  \/ path = <<i>>
  \/ /\ path \in Seq(Qubits) /\ Len(path) > 1
     /\ path[1] = i /\ path[Len(path)] = j
     /\ \A n \in 1 .. Len(path) - 1 : Linked(d, path[n], path[n + 1])
     /\ \A m, n \in 1 .. Len(path) : path[m] = path[n] => m = n

ASSUME SizeAssumption == NQ \in Nat \ {0}

IsDevice(d) ==
  /\ d.couplings \subseteq {p \in Qubits \X Qubits : p[1] # p[2]}
  /\ \A i, j \in Qubits : IsAnswer(d, d.path[<<i, j>>], i, j)

ASSUME DeviceAssumption == \A d \in Devices : IsDevice(d)

(* Gates on the device's qubits; a CNOT has two different ones. *)
Gates ==
  {g \in [op : Names \cup {"cx", "h"}, args : Seq(Qubits), cond : BOOLEAN] :
     g.op = "cx" => Len(g.args) = 2 /\ g.args[1] # g.args[2]}

ASSUME ProgramAssumption == Programs \subseteq Seq(Gates)

(* "h" is the UGate that generate_hadamard makes; all that a program calls *)
(* its own, a UGate with these angles included, is in Names.               *)
ASSUME HadamardAssumption ==
  \A p \in Programs : \A n \in DOMAIN p : p[n].op # "h"

Coupled(i, j) == <<i, j>> \in device.couplings

Init ==
  /\ device \in Devices
  /\ permutation = [q \in Qubits |-> q]
  /\ todo \in Programs
  /\ out = <<>>
  /\ chain = <<>> /\ cur = 0 /\ tgt = 0
  /\ bit \in BOOLEAN
  /\ frame = IdentityFrame(Qubits)
  /\ events = <<>>

Runs(g) == g.cond => bit

(* An if statement around a gate is put around each gate that replaces it. *)
Emit(gates, newframe) ==
  /\ out' = out \o gates
  /\ frame' = IF Runs(Head(todo)) THEN newframe ELSE frame

NewGate(op, args) == Gate(op, args, Head(todo).cond)

(* Mutant: one of the two Hadamards after the turned CNOT is missing. *)
CNOTGatesOneHadamard(i, j) ==
  IF Coupled(i, j) THEN <<NewGate("cx", <<i, j>>)>>
  ELSE <<NewGate("h", <<i>>), NewGate("h", <<j>>), NewGate("cx", <<j, i>>),
         NewGate("h", <<i>>)>>

(* generate_cnot, or generate_swapped_cnot against the coupling *)
CNOTGates(i, j) ==
  IF Coupled(i, j) THEN <<NewGate("cx", <<i, j>>)>>
  ELSE <<NewGate("h", <<i>>), NewGate("h", <<j>>), NewGate("cx", <<j, i>>),
         NewGate("h", <<i>>), NewGate("h", <<j>>)>>

CNOTFrame(f, i, j) ==
  IF Coupled(i, j) THEN CX(f, i, j)
  ELSE Had(Had(CX(Had(Had(f, i), j), j, i), i), j)

(* Mutant: the qubits of the gate are left as the program names them. *)
VisitOtherUnmapped ==
  /\ chain = <<>> /\ todo # <<>> /\ Head(todo).op # "cx"
  /\ out' = Append(out, Head(todo))
  /\ events' = IF Runs(Head(todo)) THEN Append(events, Event(Head(todo), frame)) ELSE events
  /\ todo' = Tail(todo)
  /\ UNCHANGED <<device, permutation, loop, bit, frame>>

(* replace(VarAccess): any gate but a CNOT has its qubits renamed *)
VisitOther ==
  /\ chain = <<>> /\ todo # <<>> /\ Head(todo).op # "cx"
  /\ LET g == [Head(todo) EXCEPT !.args = [n \in DOMAIN @ |-> permutation[@[n]]]]
     IN  /\ out' = Append(out, g)
         /\ events' = IF Runs(g) THEN Append(events, Event(g, frame)) ELSE events
  /\ todo' = Tail(todo)
  /\ UNCHANGED <<device, permutation, loop, bit, frame>>

(* replace(CNOTGate), up to the loop over cnot_chain *)
VisitCNOT ==
  /\ chain = <<>> /\ todo # <<>> /\ Head(todo).op = "cx"
  /\ cur' = permutation[Head(todo).args[1]]
  /\ tgt' = permutation[Head(todo).args[2]]
  /\ chain' = device.path[<<cur', tgt'>>]
  /\ UNCHANGED <<device, permutation, todo, out, bit, frame, events>>

(* End of one iteration: the gate is done with when the chain is. *)
Advance ==
  /\ cur' = Head(chain)
  /\ chain' = Tail(chain)
  /\ todo' = IF Tail(chain) = <<>> THEN Tail(todo) ELSE todo

(* the first entry of the chain is the control itself *)
SkipControl ==
  /\ chain # <<>> /\ Head(chain) # tgt /\ Head(chain) = cur
  /\ Advance
  /\ UNCHANGED <<device, permutation, out, tgt, bit, frame, events>>

(* Mutant: the outer CNOTs go from i to j whatever the coupling.           *)
SwapGatesUndirected(i, j) ==
  <<NewGate("cx", <<i, j>>)>> \o CNOTGates(j, i) \o <<NewGate("cx", <<i, j>>)>>

(* three CNOTs, the outer two along the coupling *)
SwapGates(i, j) ==
  LET a == IF Coupled(i, j) THEN i ELSE j
      b == IF Coupled(i, j) THEN j ELSE i
  IN  <<NewGate("cx", <<a, b>>)>> \o CNOTGates(b, a) \o <<NewGate("cx", <<a, b>>)>>

SwapFrame(f, i, j) ==
  LET a == IF Coupled(i, j) THEN i ELSE j
      b == IF Coupled(i, j) THEN j ELSE i
  IN  CX(CNOTFrame(CX(f, a, b), b, a), a, b)

(* Mutant: the second test of the permutation's update is not an else. *)
SwapStepNoElse ==
  /\ chain # <<>> /\ Head(chain) # tgt /\ Head(chain) # cur
  /\ LET i == cur  j == Head(chain)
     IN  /\ Emit(SwapGates(i, j), SwapFrame(frame, i, j))
         /\ permutation' = [q \in Qubits |->
              IF permutation[q] \in {i, j} THEN i ELSE permutation[q]]
  /\ Advance
  /\ UNCHANGED <<device, tgt, bit, events>>

SwapStep ==
  /\ chain # <<>> /\ Head(chain) # tgt /\ Head(chain) # cur
  /\ LET i == cur  j == Head(chain)
     IN  /\ Emit(SwapGates(i, j), SwapFrame(frame, i, j))
         /\ permutation' = [q \in Qubits |->
              CASE permutation[q] = i -> j
                [] permutation[q] = j -> i
                [] OTHER -> permutation[q]]
  /\ Advance
  /\ UNCHANGED <<device, tgt, bit, events>>

(* the target is reached: the CNOT itself, and break *)
EmitCNOT ==
  /\ chain # <<>> /\ Head(chain) = tgt
  /\ Emit(CNOTGates(cur, tgt), CNOTFrame(frame, cur, tgt))
  /\ chain' = <<>>
  /\ todo' = Tail(todo)
  /\ UNCHANGED <<device, permutation, cur, tgt, bit, events>>

(* Only at the end of the program does the pass stop. *)
Done == todo = <<>> /\ UNCHANGED vars

Next == VisitOther \/ VisitCNOT \/ SkipControl \/ SwapStep \/ EmitCNOT \/ Done

Spec == Init /\ [][Next]_vars

-----------------------------------------------------------------------------
(* Type correctness. *)
TypeOK ==
  /\ IsDevice(device)
  /\ permutation \in [Qubits -> Qubits]
  /\ todo \in Seq(Gates)
  /\ out \in Seq(Gates)
  /\ chain \in Seq(Qubits) /\ cur \in Qubits /\ tgt \in Qubits
  /\ bit \in BOOLEAN
  /\ frame \in Frames(Qubits)

(* However many swaps have been made, in the middle of a chain included,   *)
(* no two qubits of the program share a device qubit, and none is lost:    *)
(* a measurement visited later reads the qubit it names.                   *)
PermutationIsBijection ==
  /\ \A q, r \in Qubits : permutation[q] = permutation[r] => q = r
  /\ \A p \in Qubits : \E q \in Qubits : permutation[q] = p

(* Every CNOT emitted, those of swaps and reversed CNOTs included, is on a *)
(* coupling of the device and in its direction.                            *)
RespectsCouplings ==
  \A n \in DOMAIN out :
    out[n].op = "cx" => <<out[n].args[1], out[n].args[2]>> \in device.couplings

(* Executing a list of gates one by one, with the condition of ifs as it   *)
(* is: Hadamards and CNOTs rewrite the frame.                              *)
Execute(f, g, holds) ==
  IF g.cond /\ ~holds THEN f
  ELSE CASE g.op = "cx" -> CX(f, g.args[1], g.args[2])
         [] g.op = "h"  -> Had(f, g.args[1])
         [] OTHER -> f

Executed(gates, holds) ==
  LET after[n \in 0 .. Len(gates)] ==
        IF n = 0 THEN IdentityFrame(Qubits) ELSE Execute(after[n - 1], gates[n], holds)
  IN  after[Len(gates)]

(* The gates emitted do what frame says they do: swaps and CNOTs, each     *)
(* turned or not, and under an if or not.                                  *)
OutputDoesFrame == frame = Executed(out, bit)

(* The mapped circuit does what the program does, with the qubit q of the  *)
(* program on the device qubit permutation[q]: each step is a gate of the  *)
(* program or, in a swap, nothing.                                         *)
Ideal == INSTANCE IdealCircuit
           WITH frame <- [q \in Qubits |-> frame[permutation[q]]]

ImplementsProgram == Ideal!Spec

=============================================================================
