---------------------------- MODULE MCSwapMapper ----------------------------
(* Instance of SwapMapper for TLC: four-qubit devices of several shapes,   *)
(* and every program of at most MaxGates gates out of a small set.         *)
EXTENDS SwapMapper, SequencesExt, FiniteSetsExt

CONSTANT MaxGates

Simple(G, i, j) ==
  {path \in UNION {[1 .. n -> Qubits] : n \in 1 .. NQ} :
     /\ path[1] = i /\ path[Len(path)] = j
     /\ Cardinality(ToSet(path)) = Len(path)
     /\ \A n \in 1 .. Len(path) - 1 :
          <<path[n], path[n + 1]>> \in G \/ <<path[n + 1], path[n]>> \in G}

(* A device on which shortest_path answers the path best of all simple     *)
(* ones: with fidelities it need not be the one of fewest hops.            *)
Answer(G, longest, i, j) ==
  LET paths == Simple(G, i, j)
      len   == IF longest THEN Max({Len(s) : s \in paths})
               ELSE Min({Len(s) : s \in paths})
  IN  IF paths = {} THEN <<i>> ELSE CHOOSE s \in paths : Len(s) = len

Device(G, longest) ==
  [couplings |-> G,
   path |-> [p \in Qubits \X Qubits |-> Answer(G, longest, p[1], p[2])]]

Line == {<<0, 1>>, <<2, 1>>, <<2, 3>>}
Star == {<<0, 1>>, <<0, 2>>, <<3, 0>>, <<2, 0>>}
Ring == {<<0, 1>>, <<1, 2>>, <<3, 2>>, <<0, 3>>, <<3, 0>>}
Islands == {<<0, 1>>, <<2, 3>>}

ConnectedDevices == {Device(Line, FALSE), Device(Star, FALSE), Device(Ring, TRUE)}
IslandDevices == {Device(Islands, FALSE)}

CNOTs == {Gate("cx", p, FALSE) : p \in {p \in Qubits \X Qubits : p[1] # p[2]}}

SomeGates ==
  CNOTs \cup {Gate("u", <<0>>, FALSE), Gate("measure", <<1>>, FALSE),
             Gate("u", <<2>>, TRUE), Gate("barrier", <<3, 0>>, FALSE)}

SomePrograms == BoundedSeq(SomeGates, MaxGates)
LoneCNOTs    == {<<g>> : g \in CNOTs}

(* For programs of a single CNOT: a CNOT the mapper has no connection for  *)
(* is reported and left alone ("could not find a connection between        *)
(* qubits", and return std::nullopt), so a CNOT is in the output in either *)
(* case.                                                                   *)
CNOTIsNotLost == todo = <<>> => \E n \in DOMAIN out : out[n].op = "cx"
=============================================================================
