--------------------------- MODULE ShortestPaths ---------------------------
(***************************************************************************)
(* The all-pairs table of staq::mapping::Device (mapping/device.hpp) and   *)
(* the walks shortest_path / distance / steiner make through it.           *)
(*                                                                         *)
(* A device is a coupling digraph with a fidelity per coupling.  The code  *)
(* works with -log(fidelity); here that cost is an integer, so that adding *)
(* costs is exact.  compute_shortest_paths fills dist and shortest_paths   *)
(* in place, one cell (k, i, j) at a time, and is cached; shortest_path    *)
(* then follows the next-hop matrix.                                       *)
(***************************************************************************)
EXTENDS Integers, Sequences

CONSTANTS
  NQ,         \* qubits_ of the device
  Infinite,   \* -log(0.0000000001), the "effectively infinite" cost
  Costs,      \* the costs -log(fidelity) a coupling may have
  Digraphs    \* the coupling digraphs a device may be built with

Qubits == 0 .. NQ - 1
Pairs  == Qubits \X Qubits

ASSUME SizeAssumption  == NQ \in Nat \ {0}
ASSUME CostAssumption  == Infinite \in Nat \ {0} /\ Costs \subseteq Nat
ASSUME GraphAssumption ==
  \A G \in Digraphs : G \subseteq {p \in Pairs : p[1] # p[2]}

VARIABLES
  couplings,       \* the coupling digraph, a set of <<control, target>>
  cost,            \* cost of each coupling, from coupling_fidelities_
  dist,            \* Floyd-Warshall distances
  shortest_paths,  \* next-hop matrix; NQ stands for "no path"
  at,              \* <<k, i, j>>, the loop indices of the triple loop
  walk,            \* the path shortest_path has built so far
  goal             \* its second argument

device == <<couplings, cost>>
table  == <<dist, shortest_paths, at>>
query  == <<walk, goal>>
vars   == <<couplings, cost, dist, shortest_paths, at, walk, goal>>

Linked(i, j) == <<i, j>> \in couplings \/ <<j, i>> \in couplings

(* Cost of the hop i -> j: the coupling's own, or that of the reverse one, *)
(* since a swap costs the same in either direction.                        *)
HopCost(i, j) ==
  IF <<i, j>> \in couplings THEN cost[<<i, j>>] ELSE cost[<<j, i>>]

InitialDist(p) ==
  IF p[1] = p[2] THEN 0
  ELSE IF Linked(p[1], p[2]) THEN HopCost(p[1], p[2])
  ELSE Infinite

(* Mutant: a pair without a coupling is given a next hop too. *)
InitialHopUnmarked(p) == p[2]

InitialHop(p) ==
  IF p[1] = p[2] \/ Linked(p[1], p[2]) THEN p[2] ELSE NQ

Computed == at[1] = NQ

Init ==
  /\ couplings \in Digraphs
  /\ cost \in [couplings -> Costs]
  /\ dist = [p \in Pairs |-> InitialDist(p)]
  /\ shortest_paths = [p \in Pairs |-> InitialHop(p)]
  /\ at = <<0, 0, 0>>
  /\ walk = <<>>
  /\ goal = 0

(* Mutants of the loop: the pivot k as the innermost of the three loops;   *)
(* the pivot never moves on.                                               *)
NextCellPivotInnermost ==
  IF at[1] + 1 < NQ THEN <<at[1] + 1, at[2], at[3]>>
  ELSE IF at[3] + 1 < NQ THEN <<0, at[2], at[3] + 1>>
  ELSE IF at[2] + 1 < NQ THEN <<0, at[2] + 1, 0>>
  ELSE <<NQ, 0, 0>>

NextCellSamePivot ==
  IF at[3] + 1 < NQ THEN <<at[1], at[2], at[3] + 1>>
  ELSE IF at[2] + 1 < NQ THEN <<at[1], at[2] + 1, 0>>
  ELSE <<at[1], 0, 0>>

(* j, then i, then k: the nesting of the three for loops *)
NextCell ==
  IF at[3] + 1 < NQ THEN <<at[1], at[2], at[3] + 1>>
  ELSE IF at[2] + 1 < NQ THEN <<at[1], at[2] + 1, 0>>
  ELSE <<at[1] + 1, 0, 0>>

(* Mutant: the pivot itself is stored as the next hop. *)
RelaxStoresPivot ==
  /\ ~Computed
  /\ LET k == at[1]  i == at[2]  j == at[3]
         through == dist[<<i, k>>] + dist[<<k, j>>]
     IN  IF dist[<<i, j>>] > through
         THEN /\ dist' = [dist EXCEPT ![<<i, j>>] = through]
              /\ shortest_paths' = [shortest_paths EXCEPT ![<<i, j>>] = k]
         ELSE UNCHANGED <<dist, shortest_paths>>
  /\ at' = NextCell
  /\ UNCHANGED <<couplings, cost, walk, goal>>

(* The body of the triple loop, in place, for the cell (i, j) of phase k *)
Relax ==
  /\ ~Computed
  /\ LET k == at[1]  i == at[2]  j == at[3]
         through == dist[<<i, k>>] + dist[<<k, j>>]
     IN  IF dist[<<i, j>>] > through
         THEN /\ dist' = [dist EXCEPT ![<<i, j>>] = through]
              /\ shortest_paths' =
                   [shortest_paths EXCEPT ![<<i, j>>] = shortest_paths[<<i, k>>]]
         ELSE UNCHANGED <<dist, shortest_paths>>
  /\ at' = NextCell
  /\ UNCHANGED <<couplings, cost, walk, goal>>

EndOf(path) == path[Len(path)]

(* shortest_path(i, j) is called: path ret{i} *)
StartPath(i, j) ==
  /\ Computed
  /\ walk = <<>>
  /\ walk' = <<i>>
  /\ goal' = j
  /\ UNCHANGED <<couplings, cost, dist, shortest_paths, at>>

(* the early return of shortest_path: the pair has no next hop *)
NoPath == shortest_paths[<<walk[1], goal>>] = NQ

Answered == walk # <<>> /\ (NoPath \/ EndOf(walk) = goal)

(* one iteration of while (i != j); reading the row of qubit NQ would be   *)
(* out of bounds, so the walk is stuck there.                              *)
Hop ==
  /\ walk # <<>>
  /\ ~Answered
  /\ EndOf(walk) \in Qubits
  /\ walk' = Append(walk, shortest_paths[<<EndOf(walk), goal>>])
  /\ UNCHANGED <<couplings, cost, dist, shortest_paths, at, goal>>

(* the caller takes the path and the next query can start *)
Return ==
  /\ Answered
  /\ walk' = <<>>
  /\ goal' = 0
  /\ UNCHANGED <<couplings, cost, dist, shortest_paths, at>>

Next ==
  \/ Relax
  \/ \E i, j \in Qubits : StartPath(i, j)
  \/ Hop
  \/ Return

Spec == Init /\ [][Next]_vars

(* The program is sequential: a computation that has begun runs on. *)
FairSpec == Spec /\ WF_vars(Relax) /\ WF_vars(Hop)

-----------------------------------------------------------------------------
(* Type correctness of the tables and of the path under construction. *)
TypeOK ==
  /\ couplings \subseteq {p \in Pairs : p[1] # p[2]}
  /\ cost \in [couplings -> Costs]
  /\ dist \in [Pairs -> Nat]
  /\ shortest_paths \in [Pairs -> 0 .. NQ]
  /\ at \in (0 .. NQ) \X Qubits \X Qubits
  /\ walk \in Seq(0 .. NQ)
  /\ goal \in Qubits

(* The cell (a, b) has already been relaxed in the current phase k. *)
Passed(a, b) == a < at[2] \/ (a = at[2] /\ b < at[3])

(* What dist[a, b] will be at most once phase k has passed (a, b). *)
Settled(a, b) ==
  IF Computed \/ Passed(a, b) \/ dist[<<a, b>>] <= dist[<<a, at[1]>>] + dist[<<at[1], b>>]
  THEN dist[<<a, b>>]
  ELSE dist[<<a, at[1]>>] + dist[<<at[1], b>>]

(* Next hops and distances agree in every intermediate state of the triple *)
(* loop: a next hop is a neighbour, and the distance pays for the hop and  *)
(* for what remains from there - where the remaining cell may be one that  *)
(* the current phase has not come to yet.  Without it the walks below      *)
(* would not be paths, and might not end.                                  *)
HopsAgree ==
  \A a, b \in Qubits : \A hop \in 0 .. NQ :
    shortest_paths[<<a, b>>] = hop =>
      IF a = b THEN dist[<<a, b>>] = 0 /\ hop = b
      ELSE IF hop = NQ THEN dist[<<a, b>>] = Infinite
      ELSE /\ dist[<<a, b>>] < Infinite
           /\ Linked(a, hop)
           /\ dist[<<a, b>>] >= HopCost(a, hop) + Settled(hop, b)

(* The path shortest_path builds never leaves the device, never visits a   *)
(* qubit twice, and moves only between coupled qubits.                     *)
WalkIsPath ==
  /\ \A n \in 1 .. Len(walk) : walk[n] \in Qubits
  /\ \A n \in 1 .. Len(walk) - 1 : Linked(walk[n], walk[n + 1])
  /\ \A m, n \in 1 .. Len(walk) : walk[m] = walk[n] => m = n

(* shortest_path returns "a shortest (or highest fidelity) path between    *)
(* qubits i and j": whatever the fidelities, every entry is a qubit of the *)
(* device.                                                                 *)
WalkStaysOnDevice == \A n \in 1 .. Len(walk) : walk[n] \in Qubits

-----------------------------------------------------------------------------
(* Reference: the simple paths of the coupling graph, either direction. *)
SimplePaths(i, j) ==
  {path \in UNION {[1 .. n -> Qubits] : n \in 1 .. NQ} :
     /\ path[1] = i /\ EndOf(path) = j
     /\ \A m, n \in DOMAIN path : path[m] = path[n] => m = n
     /\ \A n \in 1 .. Len(path) - 1 : Linked(path[n], path[n + 1])}

PathCost(path) ==
  LET upTo[n \in 0 .. Len(path)] ==
        IF n <= 1 THEN 0 ELSE upTo[n - 1] + HopCost(path[n - 1], path[n])
  IN  upTo[Len(path)]

CheapestCost(i, j) ==
  LET prices == {Infinite} \cup {PathCost(path) : path \in SimplePaths(i, j)}
  IN  CHOOSE least \in prices : \A price \in prices : least <= price

(* shortest_path answers with a cheapest path, of the cost the table has   *)
(* for the pair, and refuses only a pair without a path of a product of    *)
(* fidelities above 0.0000000001.                                          *)
AnswerIsCheapest ==
  Answered =>
    LET best == CheapestCost(walk[1], goal)
    IN  /\ dist[<<walk[1], goal>>] = best
        /\ NoPath <=> best = Infinite
        /\ ~NoPath => PathCost(walk) = best

=============================================================================
