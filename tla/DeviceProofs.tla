---------------------------- MODULE DeviceProofs ----------------------------
(***************************************************************************)
(* Proofs about ShortestPaths and SteinerTree for every size of device and *)
(* every coupling graph: the next-hop table is consistent after every step *)
(* of the triple loop, the walks through it are simple paths of the        *)
(* coupling graph, the cheapest there are; and what steiner builds with    *)
(* them is a tree in topological order, it spans the terminals, and its    *)
(* branches end in them.                                                   *)
(***************************************************************************)
EXTENDS SteinerTree, FiniteSetTheorems, SequenceTheorems, WellFoundedInduction, TLAPS

(* No coupling costs as much as the value that stands for "no path". *)
CostsBelowInfinite == \A c \in Costs : c < Infinite

(* A cell the phase has passed obeys the triangle inequality at its pivot. *)
Triangle ==
  ~Computed =>
    \A a, b \in Qubits :
      Passed(a, b) => dist[<<a, b>>] <= dist[<<a, at[1]>>] + dist[<<at[1], b>>]

(* Type correctness without the walk. *)
TableOK ==
  /\ couplings \subseteq {p \in Pairs : p[1] # p[2]}
  /\ cost \in [couplings -> Costs]
  /\ dist \in [Pairs -> Nat]
  /\ shortest_paths \in [Pairs -> 0 .. NQ]
  /\ at \in (0 .. NQ) \X Qubits \X Qubits

TableInv == TableOK /\ HopsAgree /\ Triangle

LEMMA HopCostType ==
  ASSUME TableOK, NEW a \in Qubits, NEW b \in Qubits, Linked(a, b)
  PROVE  HopCost(a, b) \in Costs /\ HopCost(a, b) \in Nat /\ a # b
BY CostAssumption DEF TableOK, Linked, HopCost

(* Settled is the smaller of two values while the cell is to be relaxed,   *)
(* and the distance itself otherwise.                                      *)
SettledIsMin ==
  \A a, b \in Qubits :
    /\ Settled(a, b) \in Nat /\ Settled(a, b) <= dist[<<a, b>>]
    /\ Computed \/ Passed(a, b) => Settled(a, b) = dist[<<a, b>>]
    /\ ~Computed /\ ~Passed(a, b) =>
         Settled(a, b) <= dist[<<a, at[1]>>] + dist[<<at[1], b>>]

LEMMA SettledFacts == TableOK => SettledIsMin
<1> SUFFICES ASSUME TableOK, NEW a \in Qubits, NEW b \in Qubits
             PROVE  /\ Settled(a, b) \in Nat /\ Settled(a, b) <= dist[<<a, b>>]
                    /\ Computed \/ Passed(a, b) => Settled(a, b) = dist[<<a, b>>]
                    /\ ~Computed /\ ~Passed(a, b) =>
                         Settled(a, b) <= dist[<<a, at[1]>>] + dist[<<at[1], b>>]
  BY DEF SettledIsMin
<1> DEFINE k == at[1]
<1>1. dist[<<a, b>>] \in Nat
  BY DEF TableOK, Pairs
<1>2. CASE Computed \/ Passed(a, b)
  BY <1>1, <1>2 DEF Settled
<1>3. CASE ~Computed /\ ~Passed(a, b)
  <2>1. k \in Qubits
    BY <1>3, SizeAssumption DEF TableOK, Computed, Qubits
  <2>2. dist[<<a, k>>] \in Nat /\ dist[<<k, b>>] \in Nat
    BY <2>1 DEF TableOK, Pairs
  <2>3. QED
    BY <1>1, <1>3, <2>2 DEF Settled
<1>4. QED
  BY <1>2, <1>3

LEMMA Diagonal ==
  ASSUME TableOK, HopsAgree, NEW b \in Qubits
  PROVE  dist[<<b, b>>] = 0 /\ shortest_paths[<<b, b>>] = b
<1>1. shortest_paths[<<b, b>>] \in 0 .. NQ
  BY DEF TableOK, Pairs
<1>2. QED
  BY <1>1 DEF HopsAgree

LEMMA InitTable ==
  ASSUME CostsBelowInfinite, Init
  PROVE  TableInv
<1>1. couplings \subseteq {p \in Pairs : p[1] # p[2]} /\ cost \in [couplings -> Costs]
  BY GraphAssumption DEF Init
<1>2. /\ \A a, b \in Qubits : Linked(a, b) => HopCost(a, b) \in Costs
      /\ Costs \subseteq Nat /\ Infinite \in Nat
  BY <1>1, CostAssumption DEF Linked, HopCost
<1>3. 0 \in Qubits /\ 0 \in 0 .. NQ /\ NQ \in 0 .. NQ /\ NQ \notin Qubits
  BY SizeAssumption DEF Qubits
<1>4. \A p \in Pairs : InitialDist(p) \in Nat /\ InitialHop(p) \in 0 .. NQ
  <2> SUFFICES ASSUME NEW a \in Qubits, NEW b \in Qubits
               PROVE  InitialDist(<<a, b>>) \in Nat /\ InitialHop(<<a, b>>) \in 0 .. NQ
    BY DEF Pairs
  <2>1. b \in 0 .. NQ
    BY SizeAssumption DEF Qubits
  <2>2. QED
    BY <1>2, <1>3, <2>1 DEF InitialDist, InitialHop
<1>5. TableOK
  BY <1>1, <1>3, <1>4 DEF Init, TableOK
<1>6. ~Computed /\ \A a, b \in Qubits : ~Passed(a, b)
  BY SizeAssumption DEF Init, Computed, Passed, Qubits
<1>7. Triangle
  BY <1>6 DEF Triangle
<1>8. \A a, b \in Qubits : /\ dist[<<a, b>>] = InitialDist(<<a, b>>)
                           /\ shortest_paths[<<a, b>>] = InitialHop(<<a, b>>)
  BY DEF Init, Pairs
<1>9. \A b \in Qubits : dist[<<b, b>>] = 0
  BY <1>8 DEF InitialDist
<1>10. \A b \in Qubits : Settled(b, b) = 0
  <2> SUFFICES ASSUME NEW b \in Qubits PROVE Settled(b, b) = 0
    OBVIOUS
  <2>1. Settled(b, b) \in Nat /\ Settled(b, b) <= dist[<<b, b>>]
    BY <1>5, SettledFacts DEF SettledIsMin
  <2>2. QED
    BY <1>9, <2>1
<1>11. HopsAgree
  <2> SUFFICES ASSUME NEW a \in Qubits, NEW b \in Qubits, NEW hop \in 0 .. NQ, a # b,
                      shortest_paths[<<a, b>>] = hop
               PROVE  IF hop = NQ THEN dist[<<a, b>>] = Infinite
                      ELSE /\ dist[<<a, b>>] < Infinite
                           /\ Linked(a, hop)
                           /\ dist[<<a, b>>] >= HopCost(a, hop) + Settled(hop, b)
    BY <1>8, <1>9 DEF HopsAgree, InitialHop
  <2>1. CASE Linked(a, b)
    <3>1. /\ dist[<<a, b>>] = HopCost(a, b) /\ hop = b
          /\ HopCost(a, b) \in Costs /\ HopCost(a, b) \in Nat /\ HopCost(a, b) < Infinite
      BY <2>1, <1>2, <1>8 DEF InitialDist, InitialHop, CostsBelowInfinite
    <3>2. QED
      BY <2>1, <3>1, <1>3, <1>10
  <2>2. CASE ~Linked(a, b)
    BY <2>2, <1>8 DEF InitialDist, InitialHop
  <2>3. QED
    BY <2>1, <2>2
<1>12. QED
  BY <1>5, <1>7, <1>11 DEF TableInv

-----------------------------------------------------------------------------
(* One iteration of the triple loop. *)

LEMMA NextCellFacts ==
  ASSUME TableOK, ~Computed, at' = NextCell
  PROVE  /\ at' \in (0 .. NQ) \X Qubits \X Qubits
         /\ at[1] \in Qubits /\ at[2] \in Qubits /\ at[3] \in Qubits
         /\ \/ /\ at'[1] = at[1]
               /\ \A a, b \in Qubits :
                    Passed(a, b)' <=> Passed(a, b) \/ (a = at[2] /\ b = at[3])
            \/ /\ at'[1] = at[1] + 1
               /\ \A a, b \in Qubits : ~Passed(a, b)'
               /\ \A a, b \in Qubits : Passed(a, b) \/ (a = at[2] /\ b = at[3])
<1> DEFINE k == at[1]
           i == at[2]
           j == at[3]
<1>1. /\ k \in Qubits /\ i \in Qubits /\ j \in Qubits /\ at = <<k, i, j>>
      /\ NQ \in Nat \ {0}
  BY SizeAssumption DEF TableOK, Computed, Qubits
<1>2. CASE j + 1 < NQ
  <2>1. at' = <<k, i, j + 1>>
    BY <1>2 DEF NextCell
  <2>2. QED
    BY <1>1, <1>2, <2>1 DEF Passed, Qubits
<1>3. CASE ~(j + 1 < NQ) /\ i + 1 < NQ
  <2>1. at' = <<k, i + 1, 0>>
    BY <1>3 DEF NextCell
  <2>2. QED
    BY <1>1, <1>3, <2>1 DEF Passed, Qubits
<1>4. CASE ~(j + 1 < NQ) /\ ~(i + 1 < NQ)
  <2>1. at' = <<k + 1, 0, 0>>
    BY <1>4 DEF NextCell
  <2>2. QED
    BY <1>1, <1>4, <2>1 DEF Passed, Qubits
<1>5. QED
  BY <1>2, <1>3, <1>4

(* What the body of the loop does to the table, apart from which case of   *)
(* it applies: only the cell (i, j) changes, it only goes down, and it     *)
(* obeys the triangle inequality at the pivot afterwards.                  *)
LEMMA RelaxFacts ==
  ASSUME TableInv, Relax
  PROVE  LET k == at[1]  i == at[2]  j == at[3]
             through == dist[<<i, k>>] + dist[<<k, j>>]
         IN  /\ k \in Qubits /\ i \in Qubits /\ j \in Qubits
             /\ dist' \in [Pairs -> Nat] /\ shortest_paths' \in [Pairs -> 0 .. NQ]
             /\ \A a, b \in Qubits : a # i \/ b # j =>
                  /\ dist'[<<a, b>>] = dist[<<a, b>>]
                  /\ shortest_paths'[<<a, b>>] = shortest_paths[<<a, b>>]
             /\ \A a \in Qubits : dist'[<<a, k>>] = dist[<<a, k>>]
             /\ \A b \in Qubits : dist'[<<k, b>>] = dist[<<k, b>>]
             /\ dist'[<<i, j>>] <= through
             /\ \/ /\ dist'[<<i, j>>] = dist[<<i, j>>]
                   /\ shortest_paths'[<<i, j>>] = shortest_paths[<<i, j>>]
                \/ /\ dist[<<i, j>>] > through /\ dist'[<<i, j>>] = through
                   /\ shortest_paths'[<<i, j>>] = shortest_paths[<<i, k>>]
                   /\ i # k /\ j # k /\ i # j
<1> DEFINE k == at[1]
           i == at[2]
           j == at[3]
           through == dist[<<i, k>>] + dist[<<k, j>>]
<1>1. k \in Qubits /\ i \in Qubits /\ j \in Qubits
  BY SizeAssumption DEF TableInv, TableOK, Relax, Computed, Qubits
<1>2. /\ dist \in [Pairs -> Nat] /\ shortest_paths \in [Pairs -> 0 .. NQ]
      /\ <<i, j>> \in Pairs /\ <<i, k>> \in Pairs /\ <<k, j>> \in Pairs
  BY <1>1 DEF TableInv, TableOK, Pairs
<1>3. \A b \in Qubits : dist[<<b, b>>] = 0
  BY Diagonal DEF TableInv
<1>4. CASE dist[<<i, j>>] > through
  <2>1. /\ dist' = [dist EXCEPT ![<<i, j>>] = through]
        /\ shortest_paths' = [shortest_paths EXCEPT ![<<i, j>>] = shortest_paths[<<i, k>>]]
    BY <1>4 DEF Relax
  <2>2. through \in Nat /\ i # k /\ j # k /\ i # j
    BY <1>1, <1>2, <1>3, <1>4
  <2>3. /\ dist' \in [Pairs -> Nat] /\ shortest_paths' \in [Pairs -> 0 .. NQ]
        /\ dist'[<<i, j>>] = through /\ shortest_paths'[<<i, j>>] = shortest_paths[<<i, k>>]
    BY <1>2, <2>1, <2>2
  <2>4. \A a, b \in Qubits : a # i \/ b # j =>
          /\ dist'[<<a, b>>] = dist[<<a, b>>]
          /\ shortest_paths'[<<a, b>>] = shortest_paths[<<a, b>>]
    BY <1>2, <2>1 DEF Pairs
  <2>5. QED
    BY <1>1, <1>4, <2>2, <2>3, <2>4
<1>5. CASE ~(dist[<<i, j>>] > through)
  <2>1. dist' = dist /\ shortest_paths' = shortest_paths
    BY <1>5 DEF Relax
  <2>2. dist[<<i, j>>] \in Nat /\ through \in Nat
    BY <1>2
  <2>3. dist'[<<i, j>>] <= through
    BY <1>5, <2>1, <2>2
  <2>4. QED
    BY <1>1, <1>2, <2>1, <2>3
<1>6. QED
  BY <1>4, <1>5

LEMMA RelaxTable ==
  ASSUME TableInv, Relax
  PROVE  TableInv'
<1>0. PICK k \in Qubits, i \in Qubits, j \in Qubits : at = <<k, i, j>>
  <2>1. at[1] \in Qubits /\ at[2] \in Qubits /\ at[3] \in Qubits /\ at = <<at[1], at[2], at[3]>>
    BY NextCellFacts DEF TableInv, TableOK, Relax
  <2>2. QED
    BY <2>1
<1> DEFINE through == dist[<<i, k>>] + dist[<<k, j>>]
<1>1. /\ k \in Qubits /\ i \in Qubits /\ j \in Qubits
      /\ dist' \in [Pairs -> Nat] /\ shortest_paths' \in [Pairs -> 0 .. NQ]
      /\ \A a, b \in Qubits : a # i \/ b # j =>
           /\ dist'[<<a, b>>] = dist[<<a, b>>]
           /\ shortest_paths'[<<a, b>>] = shortest_paths[<<a, b>>]
      /\ \A a \in Qubits : dist'[<<a, k>>] = dist[<<a, k>>]
      /\ \A b \in Qubits : dist'[<<k, b>>] = dist[<<k, b>>]
      /\ dist'[<<i, j>>] <= through
      /\ \/ /\ dist'[<<i, j>>] = dist[<<i, j>>]
            /\ shortest_paths'[<<i, j>>] = shortest_paths[<<i, j>>]
         \/ /\ dist[<<i, j>>] > through /\ dist'[<<i, j>>] = through
            /\ shortest_paths'[<<i, j>>] = shortest_paths[<<i, k>>]
            /\ i # k /\ j # k /\ i # j
  BY <1>0, RelaxFacts
<1>2. \A a, b \in Qubits : dist[<<a, b>>] \in Nat /\ dist'[<<a, b>>] \in Nat
  BY <1>1 DEF TableInv, TableOK, Pairs
<1>3. /\ ~Computed /\ at' = NextCell
      /\ UNCHANGED <<couplings, cost>>
  BY DEF Relax
<1>4. TableOK'
  BY <1>1, <1>3, NextCellFacts DEF TableInv, TableOK
<1>5. \/ /\ at'[1] = at[1]
         /\ \A a, b \in Qubits : Passed(a, b)' <=> Passed(a, b) \/ (a = i /\ b = j)
      \/ /\ at'[1] = at[1] + 1
         /\ \A a, b \in Qubits : ~Passed(a, b)'
         /\ \A a, b \in Qubits : Passed(a, b) \/ (a = i /\ b = j)
  BY <1>0, <1>3, NextCellFacts DEF TableInv
<1>6. Triangle'
  <2> SUFFICES ASSUME ~Computed', NEW a \in Qubits, NEW b \in Qubits, Passed(a, b)'
               PROVE  dist'[<<a, b>>] <= dist'[<<a, at'[1]>>] + dist'[<<at'[1], b>>]
    BY DEF Triangle
  <2>1. at'[1] = k /\ at[1] = k
    BY <1>0, <1>5
  <2>2. CASE a = i /\ b = j
    BY <1>1, <2>1, <2>2
  <2>3. CASE a # i \/ b # j
    <3>1. Passed(a, b)
      BY <1>5, <2>1, <2>3
    <3>2. dist[<<a, b>>] <= dist[<<a, k>>] + dist[<<k, b>>]
      BY <1>3, <2>1, <3>1 DEF TableInv, Triangle
    <3>3. QED
      BY <1>1, <2>1, <2>3, <3>2
  <2>4. QED
    BY <2>2, <2>3
<1>7. \A a, b \in Qubits : Linked(a, b)' = Linked(a, b) /\ HopCost(a, b)' = HopCost(a, b)
  BY <1>3 DEF Linked, HopCost
<1>8. SettledIsMin /\ SettledIsMin'
  BY <1>4, SettledFacts, PTL DEF TableInv
(* What a cell will be at most does not grow. *)
<1>9. ASSUME NEW a \in Qubits, NEW b \in Qubits
      PROVE  Settled(a, b)' <= Settled(a, b)
  <2>1. /\ Settled(a, b)' \in Nat /\ Settled(a, b)' <= dist'[<<a, b>>]
        /\ Settled(a, b) \in Nat
    BY <1>8 DEF SettledIsMin
  <2>2. CASE Settled(a, b) = dist[<<a, b>>]
    <3>1. dist'[<<a, b>>] <= dist[<<a, b>>]
      BY <1>1, <1>2
    <3>2. QED
      BY <1>2, <2>1, <2>2, <3>1
  <2>3. CASE Settled(a, b) # dist[<<a, b>>]
    <3>1. ~Passed(a, b) /\ Settled(a, b) = dist[<<a, k>>] + dist[<<k, b>>]
      BY <1>0, <2>3 DEF Settled
    <3>2. CASE a = i /\ b = j
      BY <1>1, <1>2, <2>1, <3>1, <3>2
    <3>3. CASE ~(a = i /\ b = j)
      <4>1. CASE at'[1] = k
        <5>1. ~Passed(a, b)' /\ ~Computed'
          BY <1>0, <1>3, <1>5, <3>1, <3>3, <4>1 DEF Computed
        <5>2. Settled(a, b)' <= dist'[<<a, k>>] + dist'[<<k, b>>]
          BY <1>8, <4>1, <5>1 DEF SettledIsMin
        <5>3. QED
          BY <1>1, <3>1, <5>2
      <4>2. CASE at'[1] # k
        BY <1>0, <1>5, <3>1, <3>3, <4>2
      <4>3. QED
        BY <4>1, <4>2
    <3>4. QED
      BY <3>2, <3>3
  <2>4. QED
    BY <2>2, <2>3
<1>10. HopsAgree'
  <2> SUFFICES ASSUME NEW a \in Qubits, NEW b \in Qubits, NEW hop \in 0 .. NQ,
                      shortest_paths'[<<a, b>>] = hop
               PROVE  IF a = b THEN dist'[<<a, b>>] = 0 /\ hop = b
                      ELSE IF hop = NQ THEN dist'[<<a, b>>] = Infinite
                      ELSE /\ dist'[<<a, b>>] < Infinite
                           /\ Linked(a, hop)'
                           /\ dist'[<<a, b>>] >= HopCost(a, hop)' + Settled(hop, b)'
    BY DEF HopsAgree
  <2>1. CASE dist'[<<a, b>>] = dist[<<a, b>>] /\ shortest_paths'[<<a, b>>] = shortest_paths[<<a, b>>]
    <3>1. CASE a = b \/ hop = NQ
      BY <2>1, <3>1 DEF TableInv, HopsAgree
    <3>2. CASE a # b /\ hop # NQ
      <4>1. /\ dist[<<a, b>>] < Infinite /\ Linked(a, hop)
            /\ dist[<<a, b>>] >= HopCost(a, hop) + Settled(hop, b)
        BY <2>1, <3>2 DEF TableInv, HopsAgree
      <4>2. hop \in Qubits
        BY <3>2, SizeAssumption DEF Qubits
      <4>3. /\ HopCost(a, hop) \in Nat /\ Settled(hop, b) \in Nat /\ Settled(hop, b)' \in Nat
            /\ Settled(hop, b)' <= Settled(hop, b) /\ dist[<<a, b>>] \in Nat
            /\ Linked(a, hop)' = Linked(a, hop) /\ HopCost(a, hop)' = HopCost(a, hop)
        <5>1. HopCost(a, hop) \in Nat
          BY <4>1, <4>2, HopCostType DEF TableInv
        <5>2. Settled(hop, b) \in Nat /\ Settled(hop, b)' \in Nat
          BY <1>8, <4>2 DEF SettledIsMin
        <5>3. /\ Settled(hop, b)' <= Settled(hop, b) /\ dist[<<a, b>>] \in Nat
              /\ Linked(a, hop)' = Linked(a, hop) /\ HopCost(a, hop)' = HopCost(a, hop)
          BY <1>2, <1>7, <1>9, <4>2
        <5>4. QED
          BY <5>1, <5>2, <5>3
      <4>4. QED
        BY <2>1, <3>2, <4>1, <4>3
    <3>3. QED
      BY <3>1, <3>2
  <2>2. CASE /\ a = i /\ b = j /\ dist[<<i, j>>] > through /\ dist'[<<i, j>>] = through
             /\ shortest_paths'[<<i, j>>] = shortest_paths[<<i, k>>]
             /\ i # k /\ j # k /\ i # j
    <3>1. /\ dist[<<i, j>>] <= Infinite /\ through < Infinite /\ dist[<<i, k>>] < Infinite
          /\ Infinite \in Nat
      <4>1. dist[<<i, j>>] <= Infinite
        BY <1>1, <1>2, <2>2, CostAssumption DEF TableInv, TableOK, Pairs, HopsAgree
      <4>2. QED
        BY <1>1, <1>2, <2>2, <4>1, CostAssumption
    <3>2. /\ hop # NQ /\ Linked(a, hop)
          /\ dist[<<a, k>>] >= HopCost(a, hop) + Settled(hop, k)
      BY <1>1, <2>2, <3>1 DEF TableInv, HopsAgree
    <3>3. hop \in Qubits /\ hop # a
      BY <2>2, <3>2, SizeAssumption, HopCostType DEF Qubits, TableInv
    <3>4. Settled(hop, k) = dist[<<hop, k>>]
      <4>1. dist[<<k, k>>] = 0
        BY Diagonal DEF TableInv
      <4>2. dist[<<hop, k>>] \in Nat
        BY <1>2, <3>3
      <4>3. dist[<<hop, k>>] + dist[<<k, k>>] = dist[<<hop, k>>]
        BY <4>1, <4>2
      <4>4. at[1] = k
        BY <1>0
      <4>5. QED
        BY <4>3, <4>4 DEF Settled
    <3>5. Settled(hop, b)' <= dist[<<hop, k>>] + dist[<<k, b>>]
      <4>1. CASE Passed(hop, b)
        <5>1. dist[<<hop, b>>] <= dist[<<hop, k>>] + dist[<<k, b>>]
          BY <1>0, <1>3, <2>2, <3>3, <4>1 DEF TableInv, Triangle
        <5>2. Settled(hop, b) = dist[<<hop, b>>]
          BY <1>8, <3>3, <4>1 DEF SettledIsMin
        <5>3. Settled(hop, b)' <= Settled(hop, b)
          BY <1>9, <3>3
        <5>4. Settled(hop, b)' \in Nat
          BY <1>8, <3>3 DEF SettledIsMin
        <5>5. /\ dist[<<hop, b>>] \in Nat /\ dist[<<hop, k>>] \in Nat
              /\ dist[<<k, b>>] \in Nat
          BY <1>2, <3>3
        <5>6. QED
          BY <5>1, <5>2, <5>3, <5>4, <5>5
      <4>2. CASE ~Passed(hop, b)
        <5>1. Settled(hop, b) <= dist[<<hop, k>>] + dist[<<k, b>>]
          BY <1>0, <1>3, <1>8, <3>3, <4>2 DEF SettledIsMin
        <5>2. Settled(hop, b)' <= Settled(hop, b) /\ Settled(hop, b) \in Nat /\ Settled(hop, b)' \in Nat
          BY <1>1, <2>2, <1>8, <1>9, <3>3 DEF SettledIsMin
        <5>3. dist[<<hop, k>>] \in Nat /\ dist[<<k, b>>] \in Nat
          BY <1>2, <3>3
        <5>4. QED
          BY <5>1, <5>2, <5>3
      <4>3. QED
        BY <4>1, <4>2
    <3>6. /\ Linked(a, hop)' /\ HopCost(a, hop)' = HopCost(a, hop) /\ HopCost(a, hop) \in Nat
          /\ Settled(hop, b)' \in Nat
      <4>1. Linked(a, hop)' /\ HopCost(a, hop)' = HopCost(a, hop)
        BY <1>7, <3>2, <3>3
      <4>2. HopCost(a, hop) \in Nat
        BY <3>2, <3>3, HopCostType DEF TableInv
      <4>3. Settled(hop, b)' \in Nat
        BY <1>8, <3>3 DEF SettledIsMin
      <4>4. QED
        BY <4>1, <4>2, <4>3
    <3>7. dist'[<<a, b>>] >= HopCost(a, hop)' + Settled(hop, b)'
      <4>1. dist'[<<a, b>>] = dist[<<a, k>>] + dist[<<k, b>>]
        BY <2>2
      <4>2. dist[<<hop, k>>] \in Nat /\ dist[<<k, b>>] \in Nat /\ dist[<<a, k>>] \in Nat
        BY <1>2, <3>3
      <4>3. dist[<<a, k>>] >= HopCost(a, hop) + dist[<<hop, k>>]
        BY <3>2, <3>4
      <4>4. QED
        BY <3>5, <3>6, <4>1, <4>2, <4>3
    <3>8. QED
      BY <2>2, <3>1, <3>2, <3>6, <3>7
  <2>3. QED
    BY <1>1, <2>1, <2>2
<1>11. QED
  BY <1>4, <1>6, <1>10 DEF TableInv

(* The queries read the table and never write it. *)
LEMMA QueryKeepsTable ==
  ASSUME TableInv, UNCHANGED <<couplings, cost, dist, shortest_paths, at>>
  PROVE  TableInv'
<1>1. /\ \A a, b \in Qubits : Linked(a, b)' = Linked(a, b)
      /\ \A a, b \in Qubits : HopCost(a, b)' = HopCost(a, b)
      /\ \A a, b \in Qubits : Passed(a, b)' = Passed(a, b)
      /\ Computed' = Computed
  BY DEF Linked, HopCost, Passed, Computed
<1>2. \A a, b \in Qubits : Settled(a, b)' = Settled(a, b)
  BY <1>1 DEF Settled
<1>3. TableOK'
  BY DEF TableInv, TableOK
<1>4. Triangle'
  BY <1>1 DEF TableInv, Triangle
<1>5. HopsAgree'
  <2> SUFFICES ASSUME NEW a \in Qubits, NEW b \in Qubits, NEW hop \in 0 .. NQ,
                      shortest_paths[<<a, b>>] = hop
               PROVE  IF a = b THEN dist[<<a, b>>] = 0 /\ hop = b
                      ELSE IF hop = NQ THEN dist[<<a, b>>] = Infinite
                      ELSE /\ dist[<<a, b>>] < Infinite
                           /\ Linked(a, hop)'
                           /\ dist[<<a, b>>] >= HopCost(a, hop)' + Settled(hop, b)'
    BY DEF HopsAgree
  <2>1. hop # NQ => hop \in Qubits
    BY SizeAssumption DEF Qubits
  <2>2. QED
    BY <1>1, <1>2, <2>1 DEF TableInv, HopsAgree
<1>6. QED
  BY <1>3, <1>4, <1>5 DEF TableInv

(* The table is consistent after every step of the computation, for every  *)
(* device whose couplings are all better than "effectively infinite":      *)
(* compute_shortest_paths, in place, one cell at a time.                   *)
THEOREM TableConsistent ==
  ASSUME CostsBelowInfinite
  PROVE  Spec => []TableInv
<1>1. Init => TableInv
  BY InitTable
<1>2. TableInv /\ [Next]_vars => TableInv'
  <2> SUFFICES ASSUME TableInv, [Next]_vars PROVE TableInv'
    OBVIOUS
  <2>1. CASE Relax
    BY <2>1, RelaxTable
  <2>2. CASE \E i, j \in Qubits : StartPath(i, j)
    BY <2>2, QueryKeepsTable DEF StartPath
  <2>3. CASE Hop
    BY <2>3, QueryKeepsTable DEF Hop
  <2>4. CASE Return
    BY <2>4, QueryKeepsTable DEF Return
  <2>5. CASE UNCHANGED vars
    BY <2>5, QueryKeepsTable DEF vars
  <2>6. QED
    BY <2>1, <2>2, <2>3, <2>4, <2>5 DEF Next
<1>3. QED
  BY <1>1, <1>2, PTL DEF Spec

(* Next hops agree with the distances whenever the code looks at them. *)
THEOREM NextHopsAgree ==
  ASSUME CostsBelowInfinite
  PROVE  Spec => []HopsAgree
<1>1. TableInv => HopsAgree
  BY DEF TableInv
<1>2. QED
  BY <1>1, TableConsistent, PTL

-----------------------------------------------------------------------------
(* Couplings of fidelity 1 cost nothing, so distances alone do not show    *)
(* that the hops lead anywhere.  What does is the order in which the cells *)
(* were lowered.  rank is higher for a cell lowered in a later phase, and  *)
(* among those lowered in phase k it goes by the rank of the cell (a, k);  *)
(* base is above the ranks of all that was lowered in earlier phases.      *)
(*                                                                         *)
(* The operators take the table as arguments: d is dist, hop is            *)
(* shortest_paths, and passed the cells that phase k has come by.          *)

Waits(d, k, passed, a, b) ==
  <<a, b>> \notin passed /\ d[<<a, b>>] > d[<<a, k>>] + d[<<k, b>>]

(* distance and rank that a cell will have at the end of the phase *)
DistToBe(d, k, passed, a, b) ==
  IF Waits(d, k, passed, a, b) THEN d[<<a, k>>] + d[<<k, b>>] ELSE d[<<a, b>>]

RankToBe(rank, base, d, k, passed, a, b) ==
  IF Waits(d, k, passed, a, b) THEN base + rank[<<a, k>>] ELSE rank[<<a, b>>]

(* <<x, r>> is below <<y, s>> *)
Below(x, r, y, s) == x < y \/ (x = y /\ r < s)

(* The cells lowered in this phase and those that were not.  Row and       *)
(* column k are not.                                                       *)
RankedBy(rank, base, d, k) ==
  /\ rank \in [Pairs -> Nat] /\ base \in Nat
  /\ \A a, b \in Qubits :
       \/ rank[<<a, b>>] < base
       \/ /\ rank[<<a, b>>] = base + rank[<<a, k>>]
          /\ d[<<a, b>>] = d[<<a, k>>] + d[<<k, b>>]
  /\ \A a \in Qubits : rank[<<a, k>>] < base /\ rank[<<k, a>>] < base

(* A next hop leads to a cell that is, or will be, below this one. *)
HopsGoDown(rank, base, d, hop, k, passed) ==
  \A a, b, h \in Qubits :
    a # b /\ hop[<<a, b>>] = h =>
      Below(DistToBe(d, k, passed, h, b), RankToBe(rank, base, d, k, passed, h, b),
            d[<<a, b>>], rank[<<a, b>>])

(* Cell (i, j) is lowered through k, as in the body of the loop. *)
Lowers(d, hop, d2, hop2, k, i, j) ==
  /\ i # k /\ j # k /\ i # j
  /\ d[<<i, j>>] > d[<<i, k>>] + d[<<k, j>>]
  /\ d2[<<i, j>>] = d[<<i, k>>] + d[<<k, j>>]
  /\ hop2[<<i, j>>] = hop[<<i, k>>]
  /\ hop[<<i, k>>] \in Qubits \ {i}
  /\ \A a, b \in Qubits : a # i \/ b # j =>
       d2[<<a, b>>] = d[<<a, b>>] /\ hop2[<<a, b>>] = hop[<<a, b>>]

(* the diagonal is 0, and the cells passed obey the triangle inequality *)
IsSettled(d, k, passed) ==
  /\ \A b \in Qubits : d[<<b, b>>] = 0
  /\ \A a, b \in Qubits :
       <<a, b>> \in passed => d[<<a, b>>] <= d[<<a, k>>] + d[<<k, b>>]

LEMMA LoweredRank ==
  ASSUME NEW rank, NEW base, NEW d \in [Pairs -> Nat], NEW hop, NEW passed,
         NEW k \in Qubits, NEW i \in Qubits, NEW j \in Qubits,
         NEW d2 \in [Pairs -> Nat], NEW hop2,
         RankedBy(rank, base, d, k),
         HopsGoDown(rank, base, d, hop, k, passed),
         IsSettled(d, k, passed),
         Lowers(d, hop, d2, hop2, k, i, j)
  PROVE  \E new : /\ RankedBy(new, base, d2, k)
                  /\ HopsGoDown(new, base, d2, hop2, k, passed \cup {<<i, j>>})
<1>0. /\ i # k /\ j # k /\ i # j
      /\ d[<<i, j>>] > d[<<i, k>>] + d[<<k, j>>]
      /\ d2[<<i, j>>] = d[<<i, k>>] + d[<<k, j>>]
      /\ hop2[<<i, j>>] = hop[<<i, k>>]
      /\ hop[<<i, k>>] \in Qubits /\ hop[<<i, k>>] # i
      /\ \A a, b \in Qubits : a # i \/ b # j =>
           d2[<<a, b>>] = d[<<a, b>>] /\ hop2[<<a, b>>] = hop[<<a, b>>]
      /\ \A b \in Qubits : d[<<b, b>>] = 0
      /\ \A a, b \in Qubits :
           <<a, b>> \in passed => d[<<a, b>>] <= d[<<a, k>>] + d[<<k, b>>]
  BY DEF Lowers, IsSettled
<1> DEFINE lowered == [rank EXCEPT ![<<i, j>>] = base + rank[<<i, k>>]]
           new == passed \cup {<<i, j>>}
<1>1. /\ base \in Nat
      /\ \A a, b \in Qubits : /\ rank[<<a, b>>] \in Nat
                              /\ d[<<a, b>>] \in Nat /\ d2[<<a, b>>] \in Nat
  BY DEF RankedBy, Pairs
<1>2. /\ lowered \in [Pairs -> Nat] /\ lowered[<<i, j>>] = base + rank[<<i, k>>]
      /\ \A a, b \in Qubits : a # i \/ b # j => lowered[<<a, b>>] = rank[<<a, b>>]
  <2>1. <<i, j>> \in Pairs /\ base + rank[<<i, k>>] \in Nat /\ rank \in [Pairs -> Nat]
    BY <1>0, <1>1 DEF Pairs, RankedBy
  <2>2. QED
    BY <1>0, <2>1 DEF Pairs
<1> HIDE DEF lowered
<1>3. \A a \in Qubits : /\ d2[<<a, k>>] = d[<<a, k>>] /\ d2[<<k, a>>] = d[<<k, a>>]
                        /\ lowered[<<a, k>>] = rank[<<a, k>>]
                        /\ lowered[<<k, a>>] = rank[<<k, a>>]
  BY <1>0, <1>2
<1>4. RankedBy(lowered, base, d2, k)
  <2>1. \A a \in Qubits : lowered[<<a, k>>] < base /\ lowered[<<k, a>>] < base
    BY <1>0, <1>3 DEF RankedBy
  <2>2. ASSUME NEW a \in Qubits, NEW b \in Qubits
        PROVE  \/ lowered[<<a, b>>] < base
               \/ /\ lowered[<<a, b>>] = base + lowered[<<a, k>>]
                  /\ d2[<<a, b>>] = d2[<<a, k>>] + d2[<<k, b>>]
    <3>1. CASE a = i /\ b = j
      BY <1>0, <1>2, <1>3, <3>1
    <3>2. CASE a # i \/ b # j
      BY <1>0, <1>2, <1>3, <3>2 DEF RankedBy
    <3>3. QED
      BY <1>0, <3>1, <3>2
  <2>3. QED
    BY <1>0, <1>1, <1>2, <2>1, <2>2 DEF RankedBy
(* the cell (i, j) is now what it was to be; the others are what they were *)
<1>5. ASSUME NEW a \in Qubits, NEW b \in Qubits
      PROVE  /\ DistToBe(d2, k, new, a, b) = DistToBe(d, k, passed, a, b)
             /\ RankToBe(lowered, base, d2, k, new, a, b) = RankToBe(rank, base, d, k, passed, a, b)
  <2>1. CASE a # i \/ b # j
    <3>1. Waits(d2, k, new, a, b) <=> Waits(d, k, passed, a, b)
      BY <1>0, <1>2, <1>3, <2>1 DEF Waits
    <3>2. QED
      BY <1>0, <1>2, <1>3, <2>1, <3>1 DEF DistToBe, RankToBe
  <2>2. CASE a = i /\ b = j
    <3>1. ~Waits(d2, k, new, i, j)
      BY DEF Waits
    <3>2. Waits(d, k, passed, i, j)
      <4>1. <<i, j>> \notin passed
        BY <1>0, <1>1
      <4>2. QED
        BY <1>0, <4>1 DEF Waits
    <3>3. QED
      BY <1>0, <1>2, <2>2, <3>1, <3>2 DEF DistToBe, RankToBe
  <2>3. QED
    BY <1>0, <2>1, <2>2
<1>6. ASSUME NEW a \in Qubits, NEW b \in Qubits, NEW h \in Qubits,
             a # b, hop2[<<a, b>>] = h
      PROVE  Below(DistToBe(d2, k, new, h, b), RankToBe(lowered, base, d2, k, new, h, b),
                   d2[<<a, b>>], lowered[<<a, b>>])
  <2>1. CASE a # i \/ b # j
    <3>1. hop[<<a, b>>] = h
      BY <1>0, <1>6, <2>1
    <3>2. Below(DistToBe(d, k, passed, h, b), RankToBe(rank, base, d, k, passed, h, b),
                d[<<a, b>>], rank[<<a, b>>])
      BY <1>0, <1>6, <3>1 DEF HopsGoDown
    <3>3. QED
      BY <1>0, <1>2, <1>5, <2>1, <3>2
  <2>2. CASE a = i /\ b = j
    <3>1. h = hop[<<i, k>>] /\ h # i
      BY <1>0, <1>6, <2>2
    <3>2. Below(d[<<h, k>>], rank[<<h, k>>], d[<<i, k>>], rank[<<i, k>>])
      <4>1. d[<<h, k>>] + d[<<k, k>>] = d[<<h, k>>]
        BY <1>0, <1>1
      <4>2. ~Waits(d, k, passed, h, k)
        BY <1>0, <1>1, <4>1 DEF Waits
      <4>3. DistToBe(d, k, passed, h, k) = d[<<h, k>>] /\ RankToBe(rank, base, d, k, passed, h, k) = rank[<<h, k>>]
        BY <1>0, <4>2 DEF DistToBe, RankToBe
      <4>4. Below(DistToBe(d, k, passed, h, k), RankToBe(rank, base, d, k, passed, h, k),
                  d[<<i, k>>], rank[<<i, k>>])
        BY <1>0, <3>1 DEF HopsGoDown
      <4>5. QED
        BY <1>0, <4>3, <4>4
    <3>3. SUFFICES Below(DistToBe(d, k, passed, h, j), RankToBe(rank, base, d, k, passed, h, j),
                         d[<<i, k>>] + d[<<k, j>>], base + rank[<<i, k>>])
      BY <1>0, <1>2, <1>5, <2>2
    <3>4. /\ d[<<h, j>>] \in Nat /\ d[<<h, k>>] \in Nat /\ d[<<k, j>>] \in Nat /\ d[<<i, k>>] \in Nat
          /\ rank[<<h, j>>] \in Nat /\ rank[<<h, k>>] \in Nat /\ rank[<<i, k>>] \in Nat
      BY <1>0, <1>1
    <3>5. CASE Waits(d, k, passed, h, j)
      <4>1. /\ DistToBe(d, k, passed, h, j) = d[<<h, k>>] + d[<<k, j>>]
            /\ RankToBe(rank, base, d, k, passed, h, j) = base + rank[<<h, k>>]
        BY <1>0, <3>5 DEF DistToBe, RankToBe
      <4>2. QED
        BY <1>0, <1>1, <3>2, <3>4, <4>1 DEF Below
    <3>6. CASE ~Waits(d, k, passed, h, j)
      <4>1. /\ DistToBe(d, k, passed, h, j) = d[<<h, j>>]
            /\ RankToBe(rank, base, d, k, passed, h, j) = rank[<<h, j>>]
        BY <1>0, <3>6 DEF DistToBe, RankToBe
      <4>2. d[<<h, j>>] <= d[<<h, k>>] + d[<<k, j>>]
        BY <1>0, <3>4, <3>6 DEF Waits
      <4>3. \/ rank[<<h, j>>] < base
            \/ /\ rank[<<h, j>>] = base + rank[<<h, k>>]
               /\ d[<<h, j>>] = d[<<h, k>>] + d[<<k, j>>]
        BY DEF RankedBy
      <4>4. QED
        BY <1>0, <1>1, <3>2, <3>4, <4>1, <4>2, <4>3 DEF Below
    <3>7. QED
      BY <1>0, <3>5, <3>6
  <2>3. QED
    BY <1>0, <2>1, <2>2
<1>7. HopsGoDown(lowered, base, d2, hop2, k, new)
  BY <1>0, <1>6 DEF HopsGoDown
<1>8. QED
  BY <1>4, <1>7

(* The phase has come by every cell, and the next one begins. *)
LEMMA NextPhaseRank ==
  ASSUME NEW rank, NEW base, NEW d \in [Pairs -> Nat], NEW hop,
         NEW k \in Qubits, NEW k2,
         RankedBy(rank, base, d, k),
         HopsGoDown(rank, base, d, hop, k, Pairs)
  PROVE  /\ k2 \in Qubits => RankedBy(rank, 2 * base, d, k2)
         /\ HopsGoDown(rank, 2 * base, d, hop, k2, Pairs)
         /\ k2 \in Qubits => HopsGoDown(rank, 2 * base, d, hop, k2, {})
<1>1. /\ rank \in [Pairs -> Nat] /\ base \in Nat /\ 2 * base \in Nat
      /\ \A a, b \in Qubits : rank[<<a, b>>] \in Nat /\ d[<<a, b>>] \in Nat
  BY DEF RankedBy, Pairs
<1>2. \A a, b \in Qubits : rank[<<a, b>>] < 2 * base
  <2>1. ASSUME NEW a \in Qubits, NEW b \in Qubits PROVE rank[<<a, b>>] < 2 * base
    <3>1. rank[<<a, k>>] < base
      BY DEF RankedBy
    <3>2. rank[<<a, b>>] < base \/ rank[<<a, b>>] = base + rank[<<a, k>>]
      BY DEF RankedBy
    <3>3. rank[<<a, b>>] \in Nat /\ rank[<<a, k>>] \in Nat /\ base \in Nat
      BY <1>1
    <3>4. QED
      BY <3>1, <3>2, <3>3
  <2>2. QED
    BY <2>1
<1>3. k2 \in Qubits => RankedBy(rank, 2 * base, d, k2)
  BY <1>1, <1>2 DEF RankedBy
<1>4. ASSUME NEW a \in Qubits, NEW b \in Qubits, NEW h \in Qubits,
             a # b, hop[<<a, b>>] = h
      PROVE  Below(d[<<h, b>>], rank[<<h, b>>], d[<<a, b>>], rank[<<a, b>>])
  <2>1. ~Waits(d, k, Pairs, h, b)
    BY DEF Waits, Pairs
  <2>2. Below(DistToBe(d, k, Pairs, h, b), RankToBe(rank, base, d, k, Pairs, h, b),
              d[<<a, b>>], rank[<<a, b>>])
    BY <1>4 DEF HopsGoDown
  <2>3. QED
    BY <2>1, <2>2 DEF DistToBe, RankToBe
<1>5. HopsGoDown(rank, 2 * base, d, hop, k2, Pairs)
  <2>1. \A h, b \in Qubits : ~Waits(d, k2, Pairs, h, b)
    BY DEF Waits, Pairs
  <2>2. QED
    BY <1>4, <2>1 DEF HopsGoDown, DistToBe, RankToBe
<1>6. ASSUME k2 \in Qubits
      PROVE  HopsGoDown(rank, 2 * base, d, hop, k2, {})
  <2> SUFFICES ASSUME NEW a \in Qubits, NEW b \in Qubits, NEW h \in Qubits,
                      a # b, hop[<<a, b>>] = h
               PROVE  Below(DistToBe(d, k2, {}, h, b), RankToBe(rank, 2 * base, d, k2, {}, h, b),
                            d[<<a, b>>], rank[<<a, b>>])
    BY DEF HopsGoDown
  <2>1. Below(d[<<h, b>>], rank[<<h, b>>], d[<<a, b>>], rank[<<a, b>>])
    BY <1>4
  <2>2. CASE Waits(d, k2, {}, h, b)
    <3>1. DistToBe(d, k2, {}, h, b) < d[<<h, b>>] /\ DistToBe(d, k2, {}, h, b) \in Nat
      BY <1>1, <1>6, <2>2 DEF Waits, DistToBe
    <3>2. QED
      BY <1>1, <2>1, <3>1 DEF Below
  <2>3. CASE ~Waits(d, k2, {}, h, b)
    BY <2>1, <2>3 DEF DistToBe, RankToBe
  <2>4. QED
    BY <2>2, <2>3
<1>7. QED
  BY <1>3, <1>5, <1>6

PassedCells == {p \in Pairs : Computed \/ Passed(p[1], p[2])}

Ranked(rank, base) ==
  /\ rank \in [Pairs -> Nat]
  /\ ~Computed => RankedBy(rank, base, dist, at[1])
  /\ HopsGoDown(rank, base, dist, shortest_paths, at[1], PassedCells)

RankInv == \E rank, base : Ranked(rank, base)

LEMMA InitRank ==
  ASSUME CostsBelowInfinite, Init
  PROVE  RankInv
<1>1. TableInv /\ TableOK /\ HopsAgree
  BY InitTable DEF TableInv
<1>2. at = <<0, 0, 0>> /\ 0 \in Qubits
  BY SizeAssumption DEF Init, Qubits
<1>3. \A a, b \in Qubits : shortest_paths[<<a, b>>] = InitialHop(<<a, b>>)
  BY DEF Init, Pairs
<1>4. \A a, b \in Qubits : dist[<<a, b>>] \in Nat /\ dist[<<b, b>>] = 0
  <2>1. \A b \in Qubits : dist[<<b, b>>] = 0
    BY <1>1, Diagonal
  <2>2. QED
    BY <1>1, <2>1 DEF TableOK, Pairs
<1> DEFINE rank == [p \in Pairs |-> IF p[1] = p[2] THEN 0 ELSE 1]
<1>5. /\ rank \in [Pairs -> Nat]
      /\ \A a, b \in Qubits : rank[<<a, b>>] = IF a = b THEN 0 ELSE 1
  BY DEF Pairs
<1> HIDE DEF rank
<1>6. RankedBy(rank, 2, dist, at[1])
  BY <1>2, <1>5 DEF RankedBy
<1>7. ASSUME NEW a \in Qubits, NEW b \in Qubits, NEW h \in Qubits,
             a # b, shortest_paths[<<a, b>>] = h
      PROVE  Below(DistToBe(dist, 0, PassedCells, h, b), RankToBe(rank, 2, dist, 0, PassedCells, h, b),
                   dist[<<a, b>>], rank[<<a, b>>])
  <2>1. h = b
    BY <1>3, <1>7, SizeAssumption DEF InitialHop, Qubits
  <2>2. ~Waits(dist, 0, PassedCells, b, b)
    <3>1. dist[<<b, b>>] = 0 /\ dist[<<b, 0>>] \in Nat /\ dist[<<0, b>>] \in Nat
      BY <1>2, <1>4
    <3>2. ~(dist[<<b, b>>] > dist[<<b, 0>>] + dist[<<0, b>>])
      BY <3>1
    <3>3. QED
      BY <3>2 DEF Waits
  <2>3. /\ DistToBe(dist, 0, PassedCells, h, b) = 0
        /\ RankToBe(rank, 2, dist, 0, PassedCells, h, b) = 0
    BY <1>4, <1>5, <2>1, <2>2 DEF DistToBe, RankToBe
  <2>4. dist[<<a, b>>] \in Nat /\ rank[<<a, b>>] = 1
    BY <1>4, <1>5, <1>7
  <2>5. QED
    BY <2>3, <2>4 DEF Below
<1>8. at[1] = 0
  BY <1>2
<1>9. HopsGoDown(rank, 2, dist, shortest_paths, at[1], PassedCells)
  BY <1>7, <1>8 DEF HopsGoDown
<1>10. QED
  BY <1>5, <1>6, <1>9 DEF RankInv, Ranked

(* When the loop lowers the cell (i, j), the next hop that it copies from  *)
(* (i, k) is another qubit.                                                *)
LEMMA CopiedHop ==
  ASSUME TableInv, NEW i \in Qubits, NEW j \in Qubits, NEW k \in Qubits, i # k,
         dist[<<i, j>>] > dist[<<i, k>>] + dist[<<k, j>>]
  PROVE  shortest_paths[<<i, k>>] \in Qubits \ {i}
<1> DEFINE hop == shortest_paths[<<i, k>>]
<1>1. /\ dist[<<i, j>>] \in Nat /\ dist[<<i, k>>] \in Nat /\ dist[<<k, j>>] \in Nat
      /\ hop \in 0 .. NQ /\ shortest_paths[<<i, j>>] \in 0 .. NQ /\ Infinite \in Nat
  BY CostAssumption DEF TableInv, TableOK, Pairs
<1>2. dist[<<i, j>>] <= Infinite
  BY <1>1 DEF TableInv, HopsAgree
<1>3. dist[<<i, k>>] < Infinite
  BY <1>1, <1>2
<1>4. hop # NQ /\ Linked(i, hop)
  BY <1>1, <1>3 DEF TableInv, HopsAgree
<1>5. hop \in Qubits
  BY <1>1, <1>4, SizeAssumption DEF Qubits
<1>6. QED
  BY <1>4, <1>5, HopCostType DEF TableInv

LEMMA RelaxRank ==
  ASSUME TableInv, RankInv, Relax
  PROVE  RankInv'
<1> DEFINE k == at[1]
           i == at[2]
           j == at[3]
<1>0. TableOK /\ ~Computed /\ at' = NextCell
  BY DEF Relax, TableInv
<1>1. /\ k \in Qubits /\ i \in Qubits /\ j \in Qubits
      /\ dist \in [Pairs -> Nat] /\ dist' \in [Pairs -> Nat]
      /\ \A a, b \in Qubits : a # i \/ b # j =>
           /\ dist'[<<a, b>>] = dist[<<a, b>>]
           /\ shortest_paths'[<<a, b>>] = shortest_paths[<<a, b>>]
      /\ \/ dist' = dist /\ shortest_paths' = shortest_paths
         \/ /\ dist[<<i, j>>] > dist[<<i, k>>] + dist[<<k, j>>]
            /\ dist'[<<i, j>>] = dist[<<i, k>>] + dist[<<k, j>>]
            /\ shortest_paths'[<<i, j>>] = shortest_paths[<<i, k>>]
            /\ i # k /\ j # k /\ i # j
  <2>1. /\ k \in Qubits /\ i \in Qubits /\ j \in Qubits
        /\ dist' \in [Pairs -> Nat]
        /\ \A a, b \in Qubits : a # i \/ b # j =>
           /\ dist'[<<a, b>>] = dist[<<a, b>>]
           /\ shortest_paths'[<<a, b>>] = shortest_paths[<<a, b>>]
        /\ \/ dist'[<<i, j>>] = dist[<<i, j>>]
           \/ /\ dist[<<i, j>>] > dist[<<i, k>>] + dist[<<k, j>>]
              /\ dist'[<<i, j>>] = dist[<<i, k>>] + dist[<<k, j>>]
              /\ shortest_paths'[<<i, j>>] = shortest_paths[<<i, k>>]
              /\ i # k /\ j # k /\ i # j
    BY RelaxFacts
  <2>2. dist[<<i, j>>] \in Nat /\ dist[<<i, k>>] + dist[<<k, j>>] \in Nat
    BY <2>1, <1>0 DEF TableOK, Pairs
  <2>3. CASE dist[<<i, j>>] > dist[<<i, k>>] + dist[<<k, j>>]
    <3>1. dist' = [dist EXCEPT ![<<i, j>>] = dist[<<i, k>>] + dist[<<k, j>>]]
      BY <2>3 DEF Relax
    <3>2. dist'[<<i, j>>] = dist[<<i, k>>] + dist[<<k, j>>]
      BY <2>1, <3>1, <1>0 DEF TableOK, Pairs
    <3>3. QED
      BY <2>1, <2>2, <2>3, <3>2, <1>0 DEF TableOK
  <2>4. CASE ~(dist[<<i, j>>] > dist[<<i, k>>] + dist[<<k, j>>])
    BY <2>1, <2>4, <1>0 DEF Relax, TableOK
  <2>5. QED
    BY <2>3, <2>4
<1>2. PICK rank, base : Ranked(rank, base)
  BY DEF RankInv
<1>3. RankedBy(rank, base, dist, k) /\ HopsGoDown(rank, base, dist, shortest_paths, k, PassedCells)
  BY <1>0, <1>2 DEF Ranked
<1> DEFINE done == PassedCells \cup {<<i, j>>}
(* the cell is lowered or not, in the same phase *)
<1>4. \E new : RankedBy(new, base, dist', k) /\ HopsGoDown(new, base, dist', shortest_paths', k, done)
  <2>1. \A b \in Qubits : dist[<<b, b>>] = 0
    <3>1. TableOK /\ HopsAgree
      BY DEF TableInv
    <3>2. QED
      BY <3>1, Diagonal
  <2>2. \A a, b \in Qubits :
          <<a, b>> \in PassedCells => dist[<<a, b>>] <= dist[<<a, k>>] + dist[<<k, b>>]
    BY <1>0 DEF TableInv, Triangle, PassedCells
  <2>3. CASE dist' = dist /\ shortest_paths' = shortest_paths
    <3>1. ASSUME NEW a \in Qubits, NEW b \in Qubits, Waits(dist, k, PassedCells, a, b)
          PROVE  Waits(dist, k, done, a, b)
      <4>1. dist'[<<i, j>>] <= dist[<<i, k>>] + dist[<<k, j>>]
        BY RelaxFacts
      <4>2. dist[<<i, j>>] \in Nat /\ dist[<<i, k>>] + dist[<<k, j>>] \in Nat
        BY <1>1 DEF Pairs
      <4>3. ~(dist[<<i, j>>] > dist[<<i, k>>] + dist[<<k, j>>])
        BY <2>3, <4>1, <4>2
      <4>4. a # i \/ b # j
        BY <3>1, <4>3 DEF Waits
      <4>5. QED
        BY <3>1, <4>4 DEF Waits
    <3>2. ASSUME NEW a \in Qubits, NEW b \in Qubits
          PROVE  Waits(dist, k, PassedCells, a, b) <=> Waits(dist, k, done, a, b)
      BY <3>1 DEF Waits
    <3>3. HopsGoDown(rank, base, dist, shortest_paths, k, done)
      BY <1>3, <3>2 DEF HopsGoDown, DistToBe, RankToBe
    <3>4. QED
      BY <1>3, <2>3, <3>3
  <2>4. CASE /\ dist[<<i, j>>] > dist[<<i, k>>] + dist[<<k, j>>]
             /\ dist'[<<i, j>>] = dist[<<i, k>>] + dist[<<k, j>>]
             /\ shortest_paths'[<<i, j>>] = shortest_paths[<<i, k>>]
             /\ i # k /\ j # k /\ i # j
    <3>1. shortest_paths[<<i, k>>] \in Qubits \ {i}
      BY <1>1, <2>4, CopiedHop
    <3>2. PICK K \in Qubits, I \in Qubits, J \in Qubits : K = k /\ I = i /\ J = j
      BY <1>1
    <3>0. PICK hop2 : hop2 = shortest_paths'
      OBVIOUS
    <3>3. PICK d2 \in [Pairs -> Nat] : d2 = dist'
      BY <1>1
    <3>4. RankedBy(rank, base, dist, K) /\ HopsGoDown(rank, base, dist, shortest_paths, K, PassedCells)
      BY <1>3, <3>2
    <3>5. IsSettled(dist, K, PassedCells)
      BY <2>1, <2>2, <3>2 DEF IsSettled
    <3>6. Lowers(dist, shortest_paths, d2, hop2, K, I, J)
      BY <1>1, <2>4, <3>0, <3>1, <3>2, <3>3 DEF Lowers
    <3>7. \E new : /\ RankedBy(new, base, d2, K)
                   /\ HopsGoDown(new, base, d2, hop2, K, PassedCells \cup {<<I, J>>})
      BY <1>1, <3>4, <3>5, <3>6, LoweredRank
    <3>8. QED
      BY <3>0, <3>2, <3>3, <3>7
  <2>5. QED
    BY <1>1, <2>3, <2>4
<1>5. PICK new : RankedBy(new, base, dist', k) /\ HopsGoDown(new, base, dist', shortest_paths', k, done)
  BY <1>4
<1>6. new \in [Pairs -> Nat]
  BY <1>5 DEF RankedBy
<1>7. CASE /\ at'[1] = at[1]
           /\ \A a, b \in Qubits : Passed(a, b)' <=> Passed(a, b) \/ (a = at[2] /\ b = at[3])
  <2>1. ~Computed'
    BY <1>0, <1>7 DEF Computed
  <2>2. PassedCells' = done
    BY <1>0, <1>1, <1>7, <2>1 DEF PassedCells, Pairs
  <2>3. Ranked(new, base)'
    BY <1>5, <1>6, <1>7, <2>2 DEF Ranked
  <2>4. QED
    BY <2>3 DEF RankInv
<1>8. CASE /\ at'[1] = at[1] + 1
           /\ \A a, b \in Qubits : ~Passed(a, b)'
           /\ \A a, b \in Qubits : Passed(a, b) \/ (a = at[2] /\ b = at[3])
  <2>1. done = Pairs
    BY <1>1, <1>8 DEF PassedCells, Pairs
  <2>0. PICK d2 \in [Pairs -> Nat] : d2 = dist'
    BY <1>1
  <2>2. PICK hop2, k2 : hop2 = shortest_paths' /\ k2 = at'[1]
    OBVIOUS
  <2>3. RankedBy(new, base, d2, k) /\ HopsGoDown(new, base, d2, hop2, k, Pairs)
    BY <1>5, <2>0, <2>1, <2>2
  <2>4. PICK K \in Qubits : K = k
    BY <1>1
  <2>5. RankedBy(new, base, d2, K) /\ HopsGoDown(new, base, d2, hop2, K, Pairs)
    BY <2>3, <2>4
  <2>6. /\ k2 \in Qubits => RankedBy(new, 2 * base, d2, k2)
        /\ HopsGoDown(new, 2 * base, d2, hop2, k2, Pairs)
        /\ k2 \in Qubits => HopsGoDown(new, 2 * base, d2, hop2, k2, {})
    BY <2>5, NextPhaseRank
  <2>7. CASE Computed'
    <3>1. PassedCells' = Pairs
      BY <2>7 DEF PassedCells
    <3>2. Ranked(new, 2 * base)'
      BY <1>6, <2>0, <2>2, <2>6, <2>7, <3>1 DEF Ranked
    <3>3. QED
      BY <3>2 DEF RankInv
  <2>8. CASE ~Computed'
    <3>1. PassedCells' = {}
      BY <1>8, <2>8 DEF PassedCells, Pairs
    <3>2. k2 \in Qubits
      <4>1. at' \in (0 .. NQ) \X Qubits \X Qubits
        BY <1>0, NextCellFacts
      <4>2. QED
        BY <2>2, <2>8, <4>1, SizeAssumption DEF Computed, Qubits
    <3>3. Ranked(new, 2 * base)'
      BY <1>6, <2>0, <2>2, <2>6, <3>1, <3>2 DEF Ranked
    <3>4. QED
      BY <3>3 DEF RankInv
  <2>9. QED
    BY <2>7, <2>8
<1>9. QED
  BY <1>0, <1>7, <1>8, NextCellFacts

LEMMA QueryKeepsRank ==
  ASSUME RankInv, UNCHANGED <<dist, shortest_paths, at>>
  PROVE  RankInv'
<1>1. PassedCells' = PassedCells /\ Computed' = Computed
  BY DEF PassedCells, Passed, Computed
<1>2. PICK rank, base : Ranked(rank, base)
  BY DEF RankInv
<1>3. Ranked(rank, base)'
  BY <1>1, <1>2 DEF Ranked
<1>4. QED
  BY <1>3 DEF RankInv

(* once the table is complete *)
Descends(rank) ==
  /\ rank \in [Pairs -> Nat]
  /\ \A a, b, h \in Qubits :
       a # b /\ shortest_paths[<<a, b>>] = h =>
         Below(dist[<<h, b>>], rank[<<h, b>>], dist[<<a, b>>], rank[<<a, b>>])

LEMMA HopsDescend ==
  ASSUME RankInv, Computed
  PROVE  \E rank : Descends(rank)
<1>1. PICK rank, base : Ranked(rank, base)
  BY DEF RankInv
<1>2. PassedCells = Pairs
  BY DEF PassedCells
<1>3. \A h, b \in Qubits : ~Waits(dist, at[1], PassedCells, h, b)
  BY <1>2 DEF Waits, Pairs
<1>4. Descends(rank)
  BY <1>1, <1>3 DEF Ranked, HopsGoDown, DistToBe, RankToBe, Descends
<1>5. QED
  BY <1>4

-----------------------------------------------------------------------------
(* The walk of shortest_path: the cell of each qubit on it is below those  *)
(* of the qubits before it, which is why it is simple and stays on the     *)
(* device.                                                                 *)
GoesDown(rank, path, to) ==
  \A m, n \in 1 .. Len(path) :
    m < n => Below(dist[<<path[n], to>>], rank[<<path[n], to>>],
                   dist[<<path[m], to>>], rank[<<path[m], to>>])

WalkInv ==
  /\ walk \in Seq(Qubits) /\ goal \in Qubits
  /\ walk # <<>> => Computed
  /\ \A n \in 1 .. Len(walk) - 1 : Linked(walk[n], walk[n + 1])
  /\ \A rank : Descends(rank) => GoesDown(rank, walk, goal)
  /\ Len(walk) > 1 => dist[<<EndOf(walk), goal>>] < Infinite

LEMMA HopWalk ==
  ASSUME TableInv, WalkInv, Hop
  PROVE  WalkInv'
<1> DEFINE a == EndOf(walk)
           hop == shortest_paths[<<a, goal>>]
<1>0. Len(walk) \in Nat \ {0} /\ (Len(walk) = 1 \/ Len(walk) > 1)
  <2>1. walk \in Seq(Qubits) /\ walk # <<>>
    BY DEF Hop, WalkInv
  <2>2. Len(walk) \in Nat /\ Len(walk) # 0
    BY <2>1
  <2>3. \A x \in Nat : x # 0 => x \in Nat \ {0} /\ (x = 1 \/ x > 1)
    OBVIOUS
  <2>4. QED
    BY <2>2, <2>3
<1>1. /\ walk \in Seq(Qubits) /\ walk # <<>> /\ Len(walk) \in Nat \ {0}
      /\ a \in Qubits /\ goal \in Qubits /\ Computed /\ a # goal
      /\ hop \in 0 .. NQ
      /\ walk' = Append(walk, hop)
      /\ UNCHANGED <<couplings, cost, dist, shortest_paths, at, goal>>
  BY <1>0 DEF Hop, WalkInv, Answered, TableInv, TableOK, Pairs
<1>2. hop # NQ
  <2>1. CASE Len(walk) = 1
    <3>1. walk[1] = a
      BY <2>1 DEF EndOf
    <3>2. QED
      BY <1>1, <3>1 DEF Hop, Answered, NoPath
  <2>2. CASE Len(walk) > 1
    <3>1. dist[<<a, goal>>] < Infinite /\ dist[<<a, goal>>] \in Nat
      BY <1>1, <2>2 DEF WalkInv, TableInv, TableOK, Pairs
    <3>2. QED
      BY <1>1, <3>1, CostAssumption DEF TableInv, HopsAgree
  <2>3. QED
    BY <1>0, <2>1, <2>2
<1>3. hop \in Qubits
  BY <1>1, <1>2, SizeAssumption DEF Qubits
<1>4. /\ dist[<<a, goal>>] < Infinite /\ Linked(a, hop)
      /\ dist[<<a, goal>>] >= HopCost(a, hop) + Settled(hop, goal)
  BY <1>1, <1>2 DEF TableInv, HopsAgree
<1>5. Settled(hop, goal) = dist[<<hop, goal>>]
  BY <1>1 DEF Settled
<1>6. HopCost(a, hop) \in Nat
  BY <1>1, <1>3, <1>4, HopCostType DEF TableInv
<1>7. \A q \in Qubits : dist[<<q, goal>>] \in Nat
  BY <1>1 DEF TableInv, TableOK, Pairs
<1>8. dist[<<hop, goal>>] < Infinite
  BY <1>1, <1>3, <1>4, <1>5, <1>6, <1>7, CostAssumption
<1>9. /\ walk' \in Seq(Qubits) /\ Len(walk') = Len(walk) + 1
      /\ walk'[Len(walk) + 1] = hop
      /\ \A n \in 1 .. Len(walk) : walk'[n] = walk[n] /\ walk[n] \in Qubits
  BY <1>1, <1>3
<1>10. \A n \in 1 .. Len(walk') - 1 : \/ <<walk'[n], walk'[n + 1]>> \in couplings'
                                      \/ <<walk'[n + 1], walk'[n]>> \in couplings'
  <2>0. Len(walk') - 1 = Len(walk) /\ couplings' = couplings
    BY <1>1, <1>9
  <2> SUFFICES ASSUME NEW n \in 1 .. Len(walk)
               PROVE  \/ <<walk'[n], walk'[n + 1]>> \in couplings
                      \/ <<walk'[n + 1], walk'[n]>> \in couplings
    BY <2>0
  <2>1. CASE n = Len(walk)
    BY <1>4, <1>9, <2>1 DEF Linked, EndOf
  <2>2. CASE n # Len(walk)
    <3>1. n \in 1 .. Len(walk) - 1 /\ n + 1 \in 1 .. Len(walk)
      BY <1>1, <2>2
    <3>2. Linked(walk[n], walk[n + 1]) /\ walk'[n] = walk[n] /\ walk'[n + 1] = walk[n + 1]
      BY <1>9, <3>1 DEF WalkInv
    <3>3. QED
      BY <3>2 DEF Linked
  <2>3. QED
    BY <2>1, <2>2
<1>11. \A rank : Descends(rank)' => GoesDown(rank, walk', goal)
  <2> SUFFICES ASSUME NEW rank, Descends(rank) PROVE GoesDown(rank, walk', goal)
    BY <1>1 DEF Descends
  <2> SUFFICES ASSUME NEW m \in 1 .. Len(walk) + 1, NEW n \in 1 .. Len(walk) + 1, m < n
               PROVE  Below(dist[<<walk'[n], goal>>], rank[<<walk'[n], goal>>],
                            dist[<<walk'[m], goal>>], rank[<<walk'[m], goal>>])
    BY <1>9 DEF GoesDown
  <2>1. m \in 1 .. Len(walk) /\ walk'[m] = walk[m] /\ walk[m] \in Qubits
    BY <1>1, <1>9
  <2>2. CASE n = Len(walk) + 1
    <3>1. a = walk[Len(walk)] /\ Len(walk) \in 1 .. Len(walk)
      BY <1>1 DEF EndOf
    <3>2. m = Len(walk) \/ m < Len(walk)
      BY <1>1, <2>1
    <3>3. /\ dist[<<a, goal>>] \in Nat /\ dist[<<walk[m], goal>>] \in Nat
          /\ dist[<<hop, goal>>] \in Nat
          /\ rank[<<a, goal>>] \in Nat /\ rank[<<walk[m], goal>>] \in Nat
          /\ rank[<<hop, goal>>] \in Nat
      BY <1>1, <1>3, <1>7, <2>1 DEF Descends, Pairs
    <3>4. Below(dist[<<hop, goal>>], rank[<<hop, goal>>], dist[<<a, goal>>], rank[<<a, goal>>])
      BY <1>1, <1>3 DEF Descends
    <3>5. \/ m = Len(walk)
          \/ Below(dist[<<a, goal>>], rank[<<a, goal>>],
                   dist[<<walk[m], goal>>], rank[<<walk[m], goal>>])
      BY <2>1, <3>1, <3>2 DEF WalkInv, GoesDown
    <3>6. Below(dist[<<hop, goal>>], rank[<<hop, goal>>],
                dist[<<walk[m], goal>>], rank[<<walk[m], goal>>])
      BY <3>1, <3>3, <3>4, <3>5 DEF Below
    <3>7. QED
      BY <1>9, <2>1, <2>2, <3>6
  <2>3. CASE n # Len(walk) + 1
    <3>1. n \in 1 .. Len(walk) /\ walk'[n] = walk[n]
      BY <1>1, <1>9, <2>3
    <3>2. GoesDown(rank, walk, goal)
      BY DEF WalkInv
    <3>3. QED
      BY <2>1, <3>1, <3>2 DEF GoesDown
  <2>4. QED
    BY <2>2, <2>3
<1>12. Computed' /\ EndOf(walk') = hop
  BY <1>1, <1>9 DEF Computed, EndOf
<1>13. QED
  BY <1>1, <1>8, <1>9, <1>10, <1>11, <1>12 DEF WalkInv, Linked, GoesDown

LEMMA WalkStep ==
  ASSUME TableInv, WalkInv, [Next]_vars
  PROVE  WalkInv'
<1>1. CASE Relax
  <2>1. walk = <<>> /\ walk' = walk /\ goal' = goal
    BY <1>1 DEF Relax, WalkInv
  <2>2. QED
    BY <2>1 DEF WalkInv, GoesDown
<1>2. ASSUME NEW i \in Qubits, NEW j \in Qubits, StartPath(i, j)
      PROVE  WalkInv'
  <2>1. walk' = <<i>> /\ goal' = j /\ Computed'
    BY <1>2 DEF StartPath, Computed
  <2>2. QED
    BY <2>1 DEF WalkInv, GoesDown
<1>3. CASE Hop
  BY <1>3, HopWalk
<1>4. CASE Return
  <2>1. walk' = <<>> /\ goal' \in Qubits
    BY <1>4, SizeAssumption DEF Return, Qubits
  <2>2. QED
    BY <2>1 DEF WalkInv, GoesDown
<1>5. CASE UNCHANGED vars
  BY <1>5 DEF vars, WalkInv, Computed, Linked, EndOf, GoesDown, Descends
<1>6. QED
  BY <1>1, <1>2, <1>3, <1>4, <1>5 DEF Next

LEMMA RankStep ==
  ASSUME TableInv, RankInv, [Next]_vars
  PROVE  RankInv'
<1>1. CASE Relax
  BY <1>1, RelaxRank
<1>2. CASE ~Relax
  <2>1. UNCHANGED <<dist, shortest_paths, at>>
    BY <1>2 DEF Next, StartPath, Hop, Return, vars
  <2>2. QED
    BY <2>1, QueryKeepsRank
<1>3. QED
  BY <1>1, <1>2

(* What goes down repeats nothing. *)
LEMMA GoingDownIsSimple ==
  ASSUME NEW path \in Seq(Qubits), NEW to \in Qubits, NEW rank,
         TableOK, Descends(rank), GoesDown(rank, path, to)
  PROVE  \A m, n \in 1 .. Len(path) : path[m] = path[n] => m = n
<1> SUFFICES ASSUME NEW m \in 1 .. Len(path), NEW n \in 1 .. Len(path), path[m] = path[n], m < n
             PROVE  FALSE
  OBVIOUS
<1>1. dist[<<path[m], to>>] \in Nat /\ rank[<<path[m], to>>] \in Nat
  <2>1. path[m] \in Qubits
    OBVIOUS
  <2>2. QED
    BY <2>1 DEF TableOK, Descends, Pairs
<1>2. Below(dist[<<path[m], to>>], rank[<<path[m], to>>], dist[<<path[m], to>>], rank[<<path[m], to>>])
  BY DEF GoesDown
<1>3. QED
  BY <1>1, <1>2 DEF Below

(* Every path shortest_path builds, complete or not, is a simple path of   *)
(* the device's coupling graph - which is what the mappers that swap along *)
(* it rely on - provided every coupling has a fidelity above the           *)
(* 0.0000000001 that stands for no coupling.                               *)
THEOREM WalksAreSimplePaths ==
  ASSUME CostsBelowInfinite
  PROVE  Spec => []WalkIsPath
<1>1. Init => WalkInv /\ RankInv
  BY InitRank, SizeAssumption DEF Init, WalkInv, GoesDown, Qubits
<1>2. TableInv /\ WalkInv /\ [Next]_vars => WalkInv'
  BY WalkStep
<1>3. TableInv /\ RankInv /\ [Next]_vars => RankInv'
  BY RankStep
<1>4. WalkInv /\ TableInv /\ RankInv => WalkIsPath
  <2> SUFFICES ASSUME WalkInv, TableInv, RankInv PROVE WalkIsPath
    OBVIOUS
  <2>1. /\ walk \in Seq(Qubits) /\ \A n \in 1 .. Len(walk) : walk[n] \in Qubits
        /\ \A n \in 1 .. Len(walk) - 1 : Linked(walk[n], walk[n + 1])
        /\ goal \in Qubits
    BY DEF WalkInv
  <2>2. \A m, n \in 1 .. Len(walk) : walk[m] = walk[n] => m = n
    <3>1. CASE walk = <<>>
      BY <3>1
    <3>2. CASE walk # <<>>
      <4>1. PICK rank : Descends(rank)
        BY <3>2, HopsDescend DEF WalkInv
      <4>2. GoesDown(rank, walk, goal)
        BY <4>1 DEF WalkInv
      <4>3. TableOK
        BY DEF TableInv
      <4>4. QED
        BY <2>1, <4>1, <4>2, <4>3, GoingDownIsSimple
    <3>3. QED
      BY <3>1, <3>2
  <2>3. QED
    BY <2>1, <2>2 DEF WalkIsPath
<1>5. QED
  BY <1>1, <1>2, <1>3, <1>4, TableConsistent, PTL DEF Spec

-----------------------------------------------------------------------------
(* The table is complete when every pivot has had its phase: what a phase  *)
(* has done for its pivot, no later phase undoes.                          *)

(* d obeys the triangle inequality at the pivots *)
Through(d, pivots) ==
  \A c \in pivots : \A a, b \in Qubits : d[<<a, b>>] <= d[<<a, c>>] + d[<<c, b>>]

(* e is d after a phase with pivot k. *)
PhaseOf(d, k, e) ==
  \A a, b \in Qubits :
    e[<<a, b>>] = IF d[<<a, b>>] <= d[<<a, k>>] + d[<<k, b>>]
                  THEN d[<<a, b>>] ELSE d[<<a, k>>] + d[<<k, b>>]

LEMMA PhaseKeepsPivots ==
  ASSUME NEW d \in [Pairs -> Nat], NEW e \in [Pairs -> Nat], NEW k \in Qubits,
         NEW pivots \in SUBSET Qubits, Through(d, pivots), PhaseOf(d, k, e)
  PROVE  Through(e, pivots)
<1> SUFFICES ASSUME NEW c \in pivots, NEW a \in Qubits, NEW b \in Qubits
             PROVE  e[<<a, b>>] <= e[<<a, c>>] + e[<<c, b>>]
  BY DEF Through
<1>1. \A p, q \in Qubits : d[<<p, q>>] \in Nat /\ e[<<p, q>>] \in Nat
  BY DEF Pairs
<1>2. c \in Qubits
  OBVIOUS
<1>3. /\ d[<<a, b>>] <= d[<<a, c>>] + d[<<c, b>>]
      /\ d[<<k, b>>] <= d[<<k, c>>] + d[<<c, b>>]
      /\ d[<<a, k>>] <= d[<<a, c>>] + d[<<c, k>>]
  BY DEF Through
<1>4. /\ e[<<a, b>>] <= d[<<a, b>>]
      /\ e[<<a, b>>] <= d[<<a, k>>] + d[<<k, b>>]
  BY <1>1 DEF PhaseOf
<1>5. e[<<a, c>>] = d[<<a, c>>] \/ e[<<a, c>>] = d[<<a, k>>] + d[<<k, c>>]
  BY <1>2 DEF PhaseOf
<1>6. e[<<c, b>>] = d[<<c, b>>] \/ e[<<c, b>>] = d[<<c, k>>] + d[<<k, b>>]
  BY <1>2 DEF PhaseOf
<1>7. /\ d[<<a, b>>] \in Nat /\ d[<<a, c>>] \in Nat /\ d[<<c, b>>] \in Nat
      /\ d[<<a, k>>] \in Nat /\ d[<<k, c>>] \in Nat /\ d[<<c, k>>] \in Nat
      /\ d[<<k, b>>] \in Nat /\ e[<<a, b>>] \in Nat
  BY <1>1, <1>2
<1>8. QED
  BY <1>3, <1>4, <1>5, <1>6, <1>7

(* the table as the current phase will leave it *)
TableToBe == [p \in Pairs |-> Settled(p[1], p[2])]

PivotInv ==
  /\ \A p \in Pairs : dist[p] <= InitialDist(p)
  /\ Through(TableToBe, {c \in Qubits : c < at[1]})

TableToBeRight ==
  /\ TableToBe \in [Pairs -> Nat]
  /\ Computed => TableToBe = dist
  /\ ~Computed => PhaseOf(dist, at[1], TableToBe)

LEMMA TableToBeFacts == TableInv => TableToBeRight
<1> SUFFICES ASSUME TableInv PROVE TableToBeRight
  OBVIOUS
<1>1. /\ dist \in [Pairs -> Nat]
      /\ \A a, b \in Qubits : <<a, b>> \in Pairs /\ TableToBe[<<a, b>>] = Settled(a, b)
      /\ \A p \in Pairs : p[1] \in Qubits /\ p[2] \in Qubits /\ p = <<p[1], p[2]>>
  BY DEF TableInv, TableOK, Pairs, TableToBe
<1>2. SettledIsMin
  BY SettledFacts DEF TableInv
<1>3. TableToBe \in [Pairs -> Nat]
  BY <1>1, <1>2 DEF SettledIsMin, TableToBe
<1>4. ASSUME Computed PROVE TableToBe = dist
  <2>1. \A p \in Pairs : TableToBe[p] = dist[p]
    <3> SUFFICES ASSUME NEW p \in Pairs PROVE TableToBe[p] = dist[p]
      OBVIOUS
    <3>1. Settled(p[1], p[2]) = dist[<<p[1], p[2]>>]
      BY <1>1, <1>2, <1>4 DEF SettledIsMin
    <3>2. QED
      BY <1>1, <3>1
  <2>2. QED
    BY <1>1, <1>3, <2>1
<1>5. ASSUME ~Computed PROVE PhaseOf(dist, at[1], TableToBe)
  <2> SUFFICES ASSUME NEW a \in Qubits, NEW b \in Qubits
               PROVE  Settled(a, b) = IF dist[<<a, b>>] <= dist[<<a, at[1]>>] + dist[<<at[1], b>>]
                                      THEN dist[<<a, b>>] ELSE dist[<<a, at[1]>>] + dist[<<at[1], b>>]
    BY <1>1 DEF PhaseOf
  <2>1. Passed(a, b) => dist[<<a, b>>] <= dist[<<a, at[1]>>] + dist[<<at[1], b>>]
    BY <1>5 DEF TableInv, Triangle
  <2>2. QED
    BY <1>5, <2>1 DEF Settled
<1>6. QED
  BY <1>3, <1>4, <1>5 DEF TableToBeRight

LEMMA InitPivots ==
  ASSUME CostsBelowInfinite, Init
  PROVE  PivotInv
<1>1. TableInv
  BY InitTable
<1>2. \A p \in Pairs : dist[p] <= InitialDist(p)
  <2>1. \A p \in Pairs : dist[p] = InitialDist(p) /\ dist[p] \in Nat
    BY <1>1 DEF Init, TableInv, TableOK
  <2>2. QED
    BY <2>1
<1>3. {c \in Qubits : c < at[1]} = {}
  BY SizeAssumption DEF Init, Qubits
<1>4. QED
  BY <1>2, <1>3 DEF PivotInv, Through

LEMMA RelaxPivots ==
  ASSUME TableInv, PivotInv, Relax
  PROVE  PivotInv'
<1>0. PICK k \in Qubits, i \in Qubits, j \in Qubits : at = <<k, i, j>>
  <2>1. at[1] \in Qubits /\ at[2] \in Qubits /\ at[3] \in Qubits /\ at = <<at[1], at[2], at[3]>>
    BY NextCellFacts DEF TableInv, TableOK, Relax
  <2>2. QED
    BY <2>1
<1>1. /\ ~Computed /\ at' = NextCell /\ UNCHANGED <<couplings, cost>>
      /\ TableOK
  BY DEF Relax, TableInv
<1>2. TableInv'
  BY RelaxTable
<1>3. PICK d \in [Pairs -> Nat], d2 \in [Pairs -> Nat] : d = dist /\ d2 = dist'
  BY <1>1, <1>2 DEF TableInv, TableOK
<1>4. /\ \A a, b \in Qubits : a # i \/ b # j => d2[<<a, b>>] = d[<<a, b>>]
      /\ \A a \in Qubits : d2[<<a, k>>] = d[<<a, k>>]
      /\ \A b \in Qubits : d2[<<k, b>>] = d[<<k, b>>]
      /\ d2[<<i, j>>] <= d[<<i, k>>] + d[<<k, j>>]
      /\ \/ d2[<<i, j>>] = d[<<i, j>>]
         \/ d[<<i, j>>] > d[<<i, k>>] + d[<<k, j>>] /\ d2[<<i, j>>] = d[<<i, k>>] + d[<<k, j>>]
  BY <1>0, <1>3, RelaxFacts
<1>5. \A a, b \in Qubits : d[<<a, b>>] \in Nat /\ d2[<<a, b>>] \in Nat
  BY DEF Pairs
<1>5a. TableToBeRight /\ TableToBeRight'
  BY <1>2, TableToBeFacts, PTL
<1>6. PICK s \in [Pairs -> Nat], s2 \in [Pairs -> Nat] : s = TableToBe /\ s2 = TableToBe'
  BY <1>5a DEF TableToBeRight
<1>7. PhaseOf(d, k, s)
  <2>1. PhaseOf(dist, at[1], TableToBe)
    BY <1>1, <1>5a DEF TableToBeRight
  <2>2. QED
    BY <1>0, <1>3, <1>6, <2>1
<1>8. /\ Computed' => s2 = d2
      /\ ~Computed' => PhaseOf(d2, at'[1], s2)
  <2>1. /\ Computed' => TableToBe' = dist'
        /\ ~Computed' => PhaseOf(dist, at[1], TableToBe)'
    BY <1>5a DEF TableToBeRight
  <2>2. PhaseOf(dist, at[1], TableToBe)' = PhaseOf(dist', at'[1], TableToBe')
    BY DEF PhaseOf
  <2>3. QED
    BY <1>3, <1>6, <2>1, <2>2
<1>9. \A p \in Pairs : d2[p] <= InitialDist(p)'
  <2> SUFFICES ASSUME NEW a \in Qubits, NEW b \in Qubits
               PROVE  d2[<<a, b>>] <= InitialDist(<<a, b>>)'
    BY DEF Pairs
  <2>1. InitialDist(<<a, b>>)' = InitialDist(<<a, b>>)
    BY <1>1 DEF InitialDist, Linked, HopCost
  <2>2. d[<<a, b>>] <= InitialDist(<<a, b>>)
    BY <1>3 DEF PivotInv, Pairs
  <2>3. InitialDist(<<a, b>>) \in Nat
    <3>1. Linked(a, b) => HopCost(a, b) \in Nat
      BY <1>1, HopCostType
    <3>2. QED
      BY <3>1, CostAssumption DEF InitialDist
  <2>4. d2[<<a, b>>] <= d[<<a, b>>]
    BY <1>4, <1>5
  <2>5. QED
    BY <1>5, <2>1, <2>2, <2>3, <2>4
<1>10. Through(s, {c \in Qubits : c < k})
  BY <1>0, <1>6 DEF PivotInv
<1>11. Through(s2, {c \in Qubits : c < at'[1]})
  <2>1. CASE at'[1] = k
    <3>1. ~Computed'
      BY <1>0, <1>1, <2>1 DEF Computed
    <3>2. PhaseOf(d2, k, s2)
      BY <1>8, <2>1, <3>1
    <3>3. \A a, b \in Qubits : s2[<<a, b>>] = s[<<a, b>>]
      <4> SUFFICES ASSUME NEW a \in Qubits, NEW b \in Qubits
                   PROVE  s2[<<a, b>>] = s[<<a, b>>]
        OBVIOUS
      <4>1. d2[<<a, k>>] = d[<<a, k>>] /\ d2[<<k, b>>] = d[<<k, b>>]
        BY <1>4
      <4>2. s[<<a, b>>] = IF d[<<a, b>>] <= d[<<a, k>>] + d[<<k, b>>]
                          THEN d[<<a, b>>] ELSE d[<<a, k>>] + d[<<k, b>>]
        BY <1>7 DEF PhaseOf
      <4>3. s2[<<a, b>>] = IF d2[<<a, b>>] <= d[<<a, k>>] + d[<<k, b>>]
                           THEN d2[<<a, b>>] ELSE d[<<a, k>>] + d[<<k, b>>]
        BY <3>2, <4>1 DEF PhaseOf
      <4>4. CASE a = i /\ b = j
        BY <1>4, <1>5, <4>2, <4>3, <4>4
      <4>5. CASE a # i \/ b # j
        BY <1>4, <4>2, <4>3, <4>5
      <4>6. QED
        BY <4>4, <4>5
    <3>4. QED
      BY <1>10, <2>1, <3>3 DEF Through
  <2>2. CASE at'[1] # k
    <3>1. /\ at'[1] = k + 1
          /\ \A a, b \in Qubits : Passed(a, b) \/ (a = i /\ b = j)
      BY <1>0, <1>1, <2>2, NextCellFacts
    <3>2. \A a, b \in Qubits : d2[<<a, b>>] = s[<<a, b>>]
      <4> SUFFICES ASSUME NEW a \in Qubits, NEW b \in Qubits
                   PROVE  d2[<<a, b>>] = s[<<a, b>>]
        OBVIOUS
      <4>1. s[<<a, b>>] = IF d[<<a, b>>] <= d[<<a, k>>] + d[<<k, b>>]
                          THEN d[<<a, b>>] ELSE d[<<a, k>>] + d[<<k, b>>]
        BY <1>7 DEF PhaseOf
      <4>2. CASE a = i /\ b = j
        BY <1>4, <1>5, <4>1, <4>2
      <4>3. CASE a # i \/ b # j
        <5>1. Passed(a, b)
          BY <3>1, <4>3
        <5>2. d[<<a, b>>] <= d[<<a, k>>] + d[<<k, b>>]
          BY <1>0, <1>1, <1>3, <5>1 DEF TableInv, Triangle
        <5>3. QED
          BY <1>4, <4>1, <4>3, <5>2
      <4>4. QED
        BY <4>2, <4>3
    <3>3. {c \in Qubits : c < at'[1]} = {c \in Qubits : c < k} \cup {k}
      BY <3>1, SizeAssumption DEF Qubits
    <3>4. Through(d2, {c \in Qubits : c < at'[1]})
      <4>1. Through(d2, {c \in Qubits : c < k})
        BY <1>10, <3>2 DEF Through
      <4>2. \A a, b \in Qubits : d2[<<a, b>>] <= d2[<<a, k>>] + d2[<<k, b>>]
        <5> SUFFICES ASSUME NEW a \in Qubits, NEW b \in Qubits
                     PROVE  d2[<<a, b>>] <= d2[<<a, k>>] + d2[<<k, b>>]
          OBVIOUS
        <5>1. s[<<a, b>>] <= d[<<a, k>>] + d[<<k, b>>]
          BY <1>5, <1>7 DEF PhaseOf
        <5>2. d2[<<a, k>>] = d[<<a, k>>] /\ d2[<<k, b>>] = d[<<k, b>>] /\ d2[<<a, b>>] = s[<<a, b>>]
          BY <1>4, <3>2
        <5>3. QED
          BY <5>1, <5>2
      <4>3. QED
        BY <3>3, <4>1, <4>2 DEF Through
    <3>5. CASE Computed'
      BY <1>8, <3>4, <3>5
    <3>6. CASE ~Computed'
      <4>1. PICK k2 \in Qubits : k2 = at'[1]
        <5>1. at'[1] \in 0 .. NQ
          BY <1>2 DEF TableInv, TableOK
        <5>2. QED
          BY <3>6, <5>1, SizeAssumption DEF Computed, Qubits
      <4>2. PhaseOf(d2, k2, s2)
        BY <1>8, <3>6, <4>1
      <4>3. {c \in Qubits : c < k2} \in SUBSET Qubits /\ Through(d2, {c \in Qubits : c < k2})
        BY <3>4, <4>1
      <4>4. Through(s2, {c \in Qubits : c < k2})
        BY <4>2, <4>3, PhaseKeepsPivots
      <4>5. QED
        BY <4>1, <4>4
    <3>7. QED
      BY <3>5, <3>6
  <2>3. QED
    BY <2>1, <2>2
<1>12. Through(TableToBe, {c \in Qubits : c < at[1]})' = Through(TableToBe', {c \in Qubits : c < at'[1]})
  BY DEF Through
<1>13. QED
  BY <1>3, <1>6, <1>9, <1>11, <1>12 DEF PivotInv

LEMMA PivotStep ==
  ASSUME TableInv, PivotInv, [Next]_vars
  PROVE  PivotInv'
<1>1. CASE Relax
  BY <1>1, RelaxPivots
<1>2. CASE ~Relax
  <2>1. UNCHANGED <<couplings, cost, dist, shortest_paths, at>>
    BY <1>2 DEF Next, StartPath, Hop, Return, vars
  <2>2. \A a, b \in Qubits : Settled(a, b)' = Settled(a, b)
    BY <2>1 DEF Settled, Computed, Passed
  <2>3. TableToBe' = TableToBe
    BY <2>2 DEF TableToBe, Pairs
  <2>4. \A p \in Pairs : InitialDist(p)' = InitialDist(p)
    BY <2>1 DEF InitialDist, Linked, HopCost
  <2>5. QED
    BY <2>1, <2>3, <2>4 DEF PivotInv, Through
<1>3. QED
  BY <1>1, <1>2

-----------------------------------------------------------------------------
(* What a path costs, and that no path between couplings costs less than   *)
(* the table says.                                                         *)

LEMMA LeastElement ==
  ASSUME NEW U \in SUBSET Nat, U # {}
  PROVE  \E n \in U : \A m \in U : ~(m < n)
<1>1. IsWellFoundedOn(OpToRel(<, Nat), Nat)
  BY NatLessThanWellFounded
<1>2. \E n \in U : \A m \in U : ~(<<m, n>> \in OpToRel(<, Nat))
  BY <1>1, WFMin
<1>3. QED
  BY <1>2 DEF OpToRel

(* Induction up to N, for a set in place of a predicate. *)
LEMMA Induction ==
  ASSUME NEW N \in Nat, NEW S, 0 \in S, \A n \in 0 .. N - 1 : n \in S => n + 1 \in S
  PROVE  \A n \in 0 .. N : n \in S
<1> DEFINE Missing == {n \in 0 .. N : n \notin S}
<1>1. SUFFICES ASSUME Missing # {} PROVE FALSE
  OBVIOUS
<1>2. PICK n \in Missing : \A m \in Missing : ~(m < n)
  <2>1. Missing \in SUBSET Nat
    OBVIOUS
  <2>2. QED
    BY <2>1, <1>1, LeastElement
<1>3. n - 1 \in 0 .. N - 1 /\ n - 1 \in S
  BY <1>2
<1>4. n - 1 + 1 = n
  BY <1>2
<1>5. QED
  BY <1>2, <1>3, <1>4

(* A simple path has at most NQ qubits. *)
LEMMA SimpleIsShort ==
  ASSUME NEW N \in Nat, NEW path \in [1 .. N -> Qubits],
         \A m, n \in 1 .. N : path[m] = path[n] => m = n
  PROVE  N <= NQ
<1>1. NQ \in Nat \ {0}
  BY SizeAssumption
<1>2. SUFFICES ASSUME N > NQ PROVE FALSE
  BY <1>1
<1>3. IsFiniteSet(1 .. N) /\ Cardinality(1 .. N) = N
  <2>1. Cardinality(1 .. N) = (IF 1 > N THEN 0 ELSE N - 1 + 1) /\ IsFiniteSet(1 .. N)
    BY FS_Interval
  <2>2. QED
    BY <2>1, <1>1, <1>2
<1>4. IsFiniteSet(Qubits) /\ Cardinality(Qubits) = NQ
  <2>1. NQ - 1 \in Int /\ 0 \in Int
    BY <1>1
  <2>2. /\ Cardinality(0 .. NQ - 1) = (IF 0 > NQ - 1 THEN 0 ELSE NQ - 1 - 0 + 1)
        /\ IsFiniteSet(0 .. NQ - 1)
    BY <2>1, FS_Interval
  <2>3. QED
    BY <1>1, <2>2 DEF Qubits
<1>5. \E x, y \in 1 .. N : x # y /\ path[x] = path[y]
  BY <1>1, <1>2, <1>3, <1>4, FS_PigeonHole
<1>6. QED
  BY <1>5

IsCostUpTo(upTo, path, N) ==
  /\ upTo \in [0 .. N -> Nat]
  /\ \A n \in 0 .. N : upTo[n] = IF n <= 1 THEN 0 ELSE upTo[n - 1] + HopCost(path[n - 1], path[n])

LEMMA CostOfPath ==
  ASSUME TableOK, NEW path \in Seq(Qubits),
         \A n \in 1 .. Len(path) - 1 : Linked(path[n], path[n + 1])
  PROVE  \E upTo : IsCostUpTo(upTo, path, Len(path)) /\ PathCost(path) = upTo[Len(path)]
<1> DEFINE hop(n) == HopCost(path[n - 1], path[n])
<1>0. PICK N \in Nat : N = Len(path)
  OBVIOUS
<1>1. \A n \in 2 .. N : hop(n) \in Nat
  <2> SUFFICES ASSUME NEW n \in 2 .. N PROVE hop(n) \in Nat
    OBVIOUS
  <2>1. n - 1 \in 1 .. N - 1 /\ n - 1 + 1 = n /\ n \in 1 .. N /\ n - 1 \in 1 .. N
    OBVIOUS
  <2>2. Linked(path[n - 1], path[n]) /\ path[n - 1] \in Qubits /\ path[n] \in Qubits
    BY <1>0, <2>1
  <2>3. QED
    BY <2>2, HopCostType
<1> DEFINE cellOf(upTo, n) == IF n <= 1 THEN 0 ELSE upTo[n - 1] + hop(n)
           reached == {n \in 0 .. N : \E upTo \in [0 .. n -> Nat] : \A m \in 0 .. n : upTo[m] = cellOf(upTo, m)}
<1> HIDE DEF hop
<1>2. N \in reached
  <2>1. 0 \in reached
    <3>1. PICK zero \in [0 .. 0 -> Nat] : \A m \in 0 .. 0 : zero[m] = 0
      <4>1. [m \in 0 .. 0 |-> 0] \in [0 .. 0 -> Nat] /\ \A m \in 0 .. 0 : [q \in 0 .. 0 |-> 0][m] = 0
        OBVIOUS
      <4>2. QED
        BY <4>1
    <3>2. \A m \in 0 .. 0 : zero[m] = cellOf(zero, m)
      BY <3>1
    <3> HIDE DEF cellOf
    <3>3. 0 \in 0 .. N
      OBVIOUS
    <3>4. QED
      BY <3>2, <3>3
  <2>2. \A n \in 0 .. N - 1 : n \in reached => n + 1 \in reached
    <3> SUFFICES ASSUME NEW n \in 0 .. N - 1, n \in reached PROVE n + 1 \in reached
      OBVIOUS
    <3>1. PICK upTo \in [0 .. n -> Nat] : \A m \in 0 .. n : upTo[m] = cellOf(upTo, m)
      OBVIOUS
    <3> DEFINE more == [m \in 0 .. n + 1 |-> IF m <= n THEN upTo[m] ELSE cellOf(upTo, m)]
    <3>2. more \in [0 .. n + 1 -> Nat]
      <4>1. \A m \in 0 .. n + 1 : ~(m <= n) => m = n + 1
        OBVIOUS
      <4>2. cellOf(upTo, n + 1) \in Nat
        <5>1. CASE n + 1 <= 1
          BY <5>1
        <5>2. CASE ~(n + 1 <= 1)
          <6>1. n + 1 \in 2 .. N /\ n + 1 - 1 = n
            BY <5>2
          <6>2. hop(n + 1) \in Nat /\ upTo[n] \in Nat
            BY <1>1, <6>1
          <6>3. QED
            BY <5>2, <6>1, <6>2
        <5>3. QED
          BY <5>1, <5>2
      <4>3. QED
        BY <4>1, <4>2
    <3>3. \A m \in 0 .. n + 1 : more[m] = cellOf(more, m)
      <4> SUFFICES ASSUME NEW m \in 0 .. n + 1 PROVE more[m] = cellOf(more, m)
        OBVIOUS
      <4>1. m > 1 => more[m - 1] = upTo[m - 1]
        OBVIOUS
      <4>2. cellOf(more, m) = cellOf(upTo, m)
        BY <4>1
      <4>3. more[m] = cellOf(upTo, m)
        BY <3>1
      <4>4. QED
        BY <4>2, <4>3
    <3>4. n + 1 \in 0 .. N
      OBVIOUS
    <3> HIDE DEF more
    <3>5. QED
      BY <3>2, <3>3, <3>4
  <2> HIDE DEF reached, cellOf
  <2>3. \A n \in 0 .. N : n \in reached
    BY <2>1, <2>2, Induction
  <2>4. QED
    BY <2>3
<1>3. PICK g \in [0 .. N -> Nat] : \A m \in 0 .. N : g[m] = cellOf(g, m)
  BY <1>2
<1> DEFINE upTo == CHOOSE upTo : upTo = [n \in 0 .. N |-> cellOf(upTo, n)]
<1>4. upTo = [n \in 0 .. N |-> cellOf(upTo, n)]
  <2>1. g = [n \in 0 .. N |-> cellOf(g, n)]
    BY <1>3
  <2>2. QED
    BY <2>1
<1>5. PathCost(path) = upTo[N]
  BY <1>0 DEF PathCost, hop
<1>6. PICK u : u = upTo
  OBVIOUS
<1> HIDE DEF upTo
<1>7. \A n \in 0 .. N : u[n] = g[n]
  <2> DEFINE same == {n \in 0 .. N : u[n] = g[n]}
  <2>1. 0 \in same
    BY <1>3, <1>4, <1>6
  <2>2. \A n \in 0 .. N - 1 : n \in same => n + 1 \in same
    <3> SUFFICES ASSUME NEW n \in 0 .. N - 1, n \in same PROVE n + 1 \in same
      OBVIOUS
    <3>1. n + 1 \in 0 .. N /\ n + 1 - 1 = n
      OBVIOUS
    <3>2. u[n + 1] = cellOf(u, n + 1) /\ g[n + 1] = cellOf(g, n + 1)
      BY <1>3, <1>4, <1>6, <3>1
    <3>3. QED
      BY <3>1, <3>2
  <2> HIDE DEF same
  <2>3. \A n \in 0 .. N : n \in same
    BY <2>1, <2>2, Induction
  <2>4. QED
    BY <2>3 DEF same
<1>8. u[N] = g[N]
  BY <1>7
<1>9. IsCostUpTo(g, path, N)
  BY <1>3 DEF IsCostUpTo, hop
<1>10. QED
  BY <1>0, <1>5, <1>6, <1>8, <1>9

LEMMA NothingCheaper ==
  ASSUME TableInv, PivotInv, Computed, NEW path \in Seq(Qubits), path # <<>>,
         \A n \in 1 .. Len(path) - 1 : Linked(path[n], path[n + 1])
  PROVE  dist[<<path[1], EndOf(path)>>] <= PathCost(path) /\ PathCost(path) \in Nat
<1>0. PICK N \in Nat : N = Len(path) /\ N # 0
  OBVIOUS
<1>1. PICK upTo : IsCostUpTo(upTo, path, N) /\ PathCost(path) = upTo[N]
  <2>1. TableOK
    BY DEF TableInv
  <2>2. QED
    BY <1>0, <2>1, CostOfPath
<1>2. /\ \A a, b \in Qubits : dist[<<a, b>>] \in Nat
      /\ \A n \in 1 .. N : path[n] \in Qubits
      /\ upTo \in [0 .. N -> Nat]
  BY <1>0, <1>1 DEF TableInv, TableOK, Pairs, IsCostUpTo
<1>3. \A a, b, c \in Qubits : dist[<<a, b>>] <= dist[<<a, c>>] + dist[<<c, b>>]
  <2>1. TableToBe = dist
    BY TableToBeFacts DEF TableToBeRight
  <2>2. {c \in Qubits : c < at[1]} = Qubits
    BY SizeAssumption DEF Computed, Qubits
  <2>3. QED
    BY <2>1, <2>2 DEF PivotInv, Through
<1>4. \A a, b \in Qubits : Linked(a, b) => dist[<<a, b>>] <= HopCost(a, b) /\ HopCost(a, b) \in Nat
  <2> SUFFICES ASSUME NEW a \in Qubits, NEW b \in Qubits, Linked(a, b)
               PROVE  dist[<<a, b>>] <= HopCost(a, b) /\ HopCost(a, b) \in Nat
    OBVIOUS
  <2>1. a # b /\ HopCost(a, b) \in Nat
    BY HopCostType DEF TableInv
  <2>2. dist[<<a, b>>] <= InitialDist(<<a, b>>)
    BY DEF PivotInv, Pairs
  <2>3. QED
    BY <2>1, <2>2 DEF InitialDist
<1> DEFINE bounded == {n \in 0 .. N : n = 0 \/ dist[<<path[1], path[n]>>] <= upTo[n]}
<1>5. \A n \in 0 .. N : n \in bounded
  <2>1. 0 \in bounded
    OBVIOUS
  <2>2. \A n \in 0 .. N - 1 : n \in bounded => n + 1 \in bounded
    <3> SUFFICES ASSUME NEW n \in 0 .. N - 1, n \in bounded PROVE n + 1 \in bounded
      OBVIOUS
    <3>0. n + 1 \in 1 .. N /\ n + 1 \in 0 .. N /\ 1 \in 1 .. N /\ n + 1 - 1 = n
      OBVIOUS
    <3>1. CASE n = 0
      <4>1. dist[<<path[1], path[1]>>] = 0
        <5>1. TableOK /\ HopsAgree
          BY DEF TableInv
        <5>2. QED
          BY <1>2, <3>0, <5>1, Diagonal
      <4>2. upTo[1] = 0
        BY <1>1, <3>0, <3>1 DEF IsCostUpTo
      <4>3. QED
        BY <3>0, <3>1, <4>1, <4>2
    <3>2. CASE n # 0
      <4>1. n \in 1 .. N - 1 /\ n \in 1 .. N /\ n \in 0 .. N
        BY <3>2
      <4>2. upTo[n + 1] = upTo[n] + HopCost(path[n], path[n + 1])
        <5>1. ~(n + 1 <= 1)
          BY <4>1
        <5>2. QED
          BY <1>1, <3>0, <5>1 DEF IsCostUpTo
      <4>3. dist[<<path[1], path[n]>>] <= upTo[n]
        BY <3>2
      <4>4. /\ dist[<<path[n], path[n + 1]>>] <= HopCost(path[n], path[n + 1])
            /\ HopCost(path[n], path[n + 1]) \in Nat
        <5>1. Linked(path[n], path[n + 1])
          BY <1>0, <4>1
        <5>2. QED
          BY <1>2, <1>4, <3>0, <4>1, <5>1
      <4>5. dist[<<path[1], path[n + 1]>>] <= dist[<<path[1], path[n]>>] + dist[<<path[n], path[n + 1]>>]
        BY <1>2, <1>3, <3>0, <4>1
      <4>6. /\ dist[<<path[1], path[n + 1]>>] \in Nat /\ dist[<<path[1], path[n]>>] \in Nat
            /\ dist[<<path[n], path[n + 1]>>] \in Nat /\ upTo[n] \in Nat
        BY <1>2, <3>0, <4>1
      <4>7. dist[<<path[1], path[n + 1]>>] <= upTo[n + 1]
        BY <4>2, <4>3, <4>4, <4>5, <4>6
      <4>8. QED
        BY <3>0, <4>7
    <3>3. QED
      BY <3>1, <3>2
  <2> HIDE DEF bounded
  <2>3. QED
    BY <2>1, <2>2, Induction
<1>6. N \in 0 .. N
  OBVIOUS
<1>7. QED
  BY <1>0, <1>1, <1>2, <1>5, <1>6 DEF EndOf

-----------------------------------------------------------------------------
(* The walk follows the next hops, so the distance pays for all of it. *)
FollowsHops ==
  \A n \in 1 .. Len(walk) - 1 :
    walk[n] # goal /\ shortest_paths[<<walk[n], goal>>] = walk[n + 1]

LEMMA FollowsStep ==
  ASSUME TableInv, WalkInv, FollowsHops, [Next]_vars
  PROVE  FollowsHops'
<1>1. CASE Relax
  <2>1. walk' = <<>>
    BY <1>1 DEF Relax, WalkInv
  <2>2. QED
    BY <2>1 DEF FollowsHops
<1>2. ASSUME NEW i \in Qubits, NEW j \in Qubits, StartPath(i, j)
      PROVE  FollowsHops'
  <2>1. walk' = <<i>>
    BY <1>2 DEF StartPath
  <2>2. QED
    BY <2>1 DEF FollowsHops
<1>3. CASE Hop
  <2>0. PICK N \in Nat : N = Len(walk) /\ N # 0
    BY <1>3 DEF Hop, WalkInv
  <2>1. /\ walk \in Seq(Qubits) /\ EndOf(walk) = walk[N] /\ EndOf(walk) # goal
        /\ walk' = Append(walk, shortest_paths[<<walk[N], goal>>])
        /\ UNCHANGED <<shortest_paths, goal>>
    BY <1>3, <2>0 DEF Hop, WalkInv, Answered, EndOf
  <2>2. /\ Len(walk') - 1 = N /\ walk'[N + 1] = shortest_paths[<<walk[N], goal>>]
        /\ \A n \in 1 .. N : walk'[n] = walk[n]
    BY <2>0, <2>1
  <2> SUFFICES ASSUME NEW n \in 1 .. N
               PROVE  walk'[n] # goal /\ shortest_paths[<<walk'[n], goal>>] = walk'[n + 1]
    BY <2>1, <2>2 DEF FollowsHops
  <2>3. CASE n = N
    BY <2>1, <2>2, <2>3
  <2>4. CASE n # N
    <3>1. n \in 1 .. N - 1 /\ n + 1 \in 1 .. N
      BY <2>4
    <3>2. walk[n] # goal /\ shortest_paths[<<walk[n], goal>>] = walk[n + 1]
      BY <2>0, <3>1 DEF FollowsHops
    <3>3. QED
      BY <2>2, <3>1, <3>2
  <2>5. QED
    BY <2>3, <2>4
<1>4. CASE Return
  <2>1. walk' = <<>>
    BY <1>4 DEF Return
  <2>2. QED
    BY <2>1 DEF FollowsHops
<1>5. CASE UNCHANGED vars
  BY <1>5 DEF vars, FollowsHops
<1>6. QED
  BY <1>1, <1>2, <1>3, <1>4, <1>5 DEF Next

LEMMA WalkCostsNoMore ==
  ASSUME TableInv, WalkInv, FollowsHops, walk # <<>>, EndOf(walk) = goal
  PROVE  PathCost(walk) <= dist[<<walk[1], goal>>]
<1>0. PICK N \in Nat : N = Len(walk) /\ N # 0
  BY DEF WalkInv
<1>1. /\ TableOK /\ HopsAgree /\ walk \in Seq(Qubits) /\ goal \in Qubits /\ Computed
      /\ \A n \in 1 .. Len(walk) - 1 : Linked(walk[n], walk[n + 1])
  BY DEF TableInv, WalkInv
<1>2. PICK upTo : IsCostUpTo(upTo, walk, N) /\ PathCost(walk) = upTo[N]
  BY <1>0, <1>1, CostOfPath
<1>3. /\ \A a, b \in Qubits : dist[<<a, b>>] \in Nat
      /\ \A n \in 1 .. N : walk[n] \in Qubits
      /\ upTo \in [0 .. N -> Nat]
  BY <1>0, <1>1, <1>2 DEF TableOK, Pairs, IsCostUpTo
<1> DEFINE paid == {n \in 0 .. N : n = 0 \/ dist[<<walk[1], goal>>] >= upTo[n] + dist[<<walk[n], goal>>]}
<1>4. \A n \in 0 .. N : n \in paid
  <2>1. 0 \in paid
    OBVIOUS
  <2>2. \A n \in 0 .. N - 1 : n \in paid => n + 1 \in paid
    <3> SUFFICES ASSUME NEW n \in 0 .. N - 1, n \in paid PROVE n + 1 \in paid
      OBVIOUS
    <3>0. n + 1 \in 1 .. N /\ n + 1 \in 0 .. N /\ 1 \in 1 .. N /\ n + 1 - 1 = n
      OBVIOUS
    <3>1. CASE n = 0
      <4>1. upTo[1] = 0
        BY <1>2, <3>0, <3>1 DEF IsCostUpTo
      <4>2. dist[<<walk[1], goal>>] \in Nat
        BY <1>1, <1>3, <3>0
      <4>3. QED
        BY <3>0, <3>1, <4>1, <4>2
    <3>2. CASE n # 0
      <4>1. n \in 1 .. N - 1 /\ n \in 1 .. N /\ n \in 0 .. N
        BY <3>2
      <4>2. upTo[n + 1] = upTo[n] + HopCost(walk[n], walk[n + 1])
        <5>1. ~(n + 1 <= 1)
          BY <4>1
        <5>2. QED
          BY <1>2, <3>0, <5>1 DEF IsCostUpTo
      <4>3. dist[<<walk[1], goal>>] >= upTo[n] + dist[<<walk[n], goal>>]
        BY <3>2
      <4>4. /\ walk[n] # goal /\ shortest_paths[<<walk[n], goal>>] = walk[n + 1]
            /\ walk[n] \in Qubits /\ walk[n + 1] \in Qubits /\ Linked(walk[n], walk[n + 1])
        BY <1>0, <1>1, <1>3, <3>0, <4>1 DEF FollowsHops
      <4>5. dist[<<walk[n], goal>>] >= HopCost(walk[n], walk[n + 1]) + Settled(walk[n + 1], goal)
        <5>1. walk[n + 1] # NQ /\ walk[n + 1] \in 0 .. NQ
          BY <4>4, SizeAssumption DEF Qubits
        <5>2. QED
          BY <1>1, <4>4, <5>1 DEF HopsAgree
      <4>6. Settled(walk[n + 1], goal) = dist[<<walk[n + 1], goal>>]
        BY <1>1 DEF Settled
      <4>7. /\ HopCost(walk[n], walk[n + 1]) \in Nat /\ upTo[n] \in Nat
            /\ dist[<<walk[n + 1], goal>>] \in Nat /\ dist[<<walk[n], goal>>] \in Nat
            /\ dist[<<walk[1], goal>>] \in Nat
        <5>1. HopCost(walk[n], walk[n + 1]) \in Nat
          BY <1>1, <4>4, HopCostType
        <5>2. QED
          BY <1>1, <1>3, <3>0, <4>1, <5>1
      <4>8. dist[<<walk[1], goal>>] >= upTo[n + 1] + dist[<<walk[n + 1], goal>>]
        BY <4>2, <4>3, <4>5, <4>6, <4>7
      <4>9. QED
        BY <3>0, <4>8
    <3>3. QED
      BY <3>1, <3>2
  <2> HIDE DEF paid
  <2>3. QED
    BY <2>1, <2>2, Induction
<1>5. dist[<<walk[1], goal>>] >= upTo[N] + dist[<<goal, goal>>]
  <2>1. N \in 0 .. N /\ walk[N] = goal
    BY <1>0 DEF EndOf
  <2>2. QED
    BY <1>0, <1>4, <2>1
<1>6. dist[<<goal, goal>>] = 0 /\ upTo[N] \in Nat
  <2>1. N \in 0 .. N
    OBVIOUS
  <2>2. QED
    BY <1>1, <1>3, <2>1, Diagonal
<1>7. QED
  BY <1>2, <1>5, <1>6

(* A path of the reference definition is a sequence of qubits. *)
LEMMA ReferencePath ==
  ASSUME NEW i \in Qubits, NEW j \in Qubits, NEW path \in SimplePaths(i, j)
  PROVE  /\ path \in Seq(Qubits) /\ path # <<>> /\ path[1] = i /\ EndOf(path) = j
         /\ \A n \in 1 .. Len(path) - 1 : Linked(path[n], path[n + 1])
<1>1. PICK N \in 1 .. NQ : path \in [1 .. N -> Qubits]
  BY DEF SimplePaths
<1>2. N \in Nat /\ N # 0
  BY <1>1, SizeAssumption
<1>3. path \in Seq(Qubits) /\ Len(path) = N
  BY <1>1, <1>2
<1>4. path # <<>>
  BY <1>2, <1>3
<1>5. QED
  BY <1>3, <1>4 DEF SimplePaths

(* A number that is a price, or stands for no path, and that no path beats *)
(* is the cost of a cheapest path.                                         *)
LEMMA CheapestIs ==
  ASSUME NEW i, NEW j, NEW best \in Nat,
         best = Infinite \/ \E path \in SimplePaths(i, j) : PathCost(path) = best,
         best <= Infinite,
         \A path \in SimplePaths(i, j) : PathCost(path) \in Nat /\ best <= PathCost(path)
  PROVE  CheapestCost(i, j) = best
<1> DEFINE prices == {Infinite} \cup {PathCost(path) : path \in SimplePaths(i, j)}
           least == CHOOSE least \in prices : \A price \in prices : least <= price
<1>1. best \in prices /\ (\A price \in prices : best <= price /\ price \in Nat)
  BY CostAssumption
<1>2. CheapestCost(i, j) = least
  BY DEF CheapestCost
<1> HIDE DEF prices
<1>3. least \in prices /\ \A price \in prices : least <= price
  BY <1>1
<1> HIDE DEF least
<1>4. least <= best /\ best <= least /\ least \in Nat
  BY <1>1, <1>3
<1>5. QED
  BY <1>2, <1>4

LEMMA CheapestAtEnd ==
  ASSUME CostsBelowInfinite, TableInv, RankInv, WalkInv, PivotInv, FollowsHops, WalkIsPath, Answered
  PROVE  LET best == CheapestCost(walk[1], goal)
         IN  /\ dist[<<walk[1], goal>>] = best
             /\ NoPath <=> best = Infinite
             /\ ~NoPath => PathCost(walk) = best
<1>0. PICK N \in Nat : N = Len(walk) /\ N # 0
  BY DEF WalkInv, Answered
<1>1. /\ TableOK /\ HopsAgree /\ walk \in Seq(Qubits) /\ walk # <<>> /\ goal \in Qubits /\ Computed
      /\ \A n \in 1 .. Len(walk) - 1 : Linked(walk[n], walk[n + 1])
      /\ walk[1] \in Qubits /\ walk \in [1 .. N -> Qubits]
  BY <1>0 DEF TableInv, WalkInv, Answered
<1>2. PICK d \in Nat : d = dist[<<walk[1], goal>>]
  BY <1>1 DEF TableOK, Pairs
<1>3. shortest_paths[<<walk[1], goal>>] \in 0 .. NQ
  BY <1>1 DEF TableOK, Pairs
<1>4. d <= Infinite /\ (NoPath <=> d = Infinite)
  <2>1. CASE walk[1] = goal
    <3>1. d = 0 /\ shortest_paths[<<walk[1], goal>>] = goal
      BY <1>1, <1>2, <2>1, Diagonal
    <3>2. goal # NQ
      BY <1>1, SizeAssumption DEF Qubits
    <3>3. QED
      BY <3>1, <3>2, CostAssumption DEF NoPath
  <2>2. CASE walk[1] # goal /\ shortest_paths[<<walk[1], goal>>] = NQ
    <3>1. d = Infinite
      BY <1>1, <1>2, <1>3, <2>2 DEF HopsAgree
    <3>2. QED
      BY <1>2, <2>2, <3>1, CostAssumption DEF NoPath
  <2>3. CASE walk[1] # goal /\ shortest_paths[<<walk[1], goal>>] # NQ
    <3>1. d < Infinite
      BY <1>1, <1>2, <1>3, <2>3 DEF HopsAgree
    <3>2. QED
      BY <1>2, <2>3, <3>1, CostAssumption DEF NoPath
  <2>4. QED
    BY <2>1, <2>2, <2>3
<1>5. \A path \in SimplePaths(walk[1], goal) : PathCost(path) \in Nat /\ d <= PathCost(path)
  <2> SUFFICES ASSUME NEW path \in SimplePaths(walk[1], goal)
               PROVE  PathCost(path) \in Nat /\ d <= PathCost(path)
    OBVIOUS
  <2>1. /\ path \in Seq(Qubits) /\ path # <<>> /\ path[1] = walk[1] /\ EndOf(path) = goal
        /\ \A n \in 1 .. Len(path) - 1 : Linked(path[n], path[n + 1])
    BY <1>1, ReferencePath
  <2>2. dist[<<path[1], EndOf(path)>>] <= PathCost(path) /\ PathCost(path) \in Nat
    BY <1>1, <2>1, NothingCheaper
  <2>3. QED
    BY <1>2, <2>1, <2>2
<1>6. ASSUME ~NoPath PROVE walk \in SimplePaths(walk[1], goal) /\ PathCost(walk) = d
  <2>1. EndOf(walk) = goal
    BY <1>6 DEF Answered
  <2>2. PathCost(walk) <= d
    BY <1>1, <1>2, <2>1, WalkCostsNoMore
  <2>3. d <= PathCost(walk) /\ PathCost(walk) \in Nat
    BY <1>1, <1>2, <2>1, NothingCheaper
  <2>4. \A m, n \in 1 .. N : walk[m] = walk[n] => m = n
    BY <1>0 DEF WalkIsPath
  <2>5. N \in 1 .. NQ
    <3>1. N <= NQ
      BY <1>1, <2>4, SimpleIsShort
    <3>2. QED
      BY <1>0, <3>1, SizeAssumption
  <2>6. DOMAIN walk = 1 .. N
    BY <1>1
  <2>7. walk \in SimplePaths(walk[1], goal)
    BY <1>1, <2>1, <2>4, <2>5, <2>6 DEF SimplePaths
  <2>8. QED
    BY <1>2, <2>2, <2>3, <2>7
<1>7. d = Infinite \/ \E path \in SimplePaths(walk[1], goal) : PathCost(path) = d
  BY <1>4, <1>6
<1>8. CheapestCost(walk[1], goal) = d
  BY <1>4, <1>5, <1>7, CheapestIs
<1>9. QED
  BY <1>2, <1>4, <1>6, <1>8

(* shortest_path returns a path that no other path beats, and the entry of *)
(* the table is its cost; it refuses a pair exactly if every path costs as *)
(* much as "no path" - for every device whose couplings cost less.         *)
THEOREM AnswersAreCheapest ==
  ASSUME CostsBelowInfinite
  PROVE  Spec => []AnswerIsCheapest
<1>1. Init => WalkInv /\ RankInv /\ PivotInv /\ FollowsHops
  <2>1. Init => WalkInv /\ RankInv
    BY InitRank, SizeAssumption DEF Init, WalkInv, GoesDown, Qubits
  <2>2. Init => PivotInv
    BY InitPivots
  <2>3. Init => FollowsHops
    BY DEF Init, FollowsHops
  <2>4. QED
    BY <2>1, <2>2, <2>3
<1>2. TableInv /\ WalkInv /\ [Next]_vars => WalkInv'
  BY WalkStep
<1>3. TableInv /\ RankInv /\ [Next]_vars => RankInv'
  BY RankStep
<1>4. TableInv /\ PivotInv /\ [Next]_vars => PivotInv'
  BY PivotStep
<1>5. TableInv /\ WalkInv /\ FollowsHops /\ [Next]_vars => FollowsHops'
  BY FollowsStep
<1>6. TableInv /\ RankInv /\ WalkInv /\ PivotInv /\ FollowsHops /\ WalkIsPath => AnswerIsCheapest
  BY CheapestAtEnd DEF AnswerIsCheapest
<1>7. QED
  BY <1>1, <1>2, <1>3, <1>4, <1>5, <1>6, TableConsistent, WalksAreSimplePaths, PTL DEF Spec

-----------------------------------------------------------------------------
(* Steiner trees.  SteinerTree does with the tables what ShortestPaths     *)
(* does, so all that is proved about them above holds here as well         *)
(* (TableKept).                                                            *)

(* the least and the greatest of a set of numbers *)
LEMMA MinIsLeast ==
  ASSUME NEW U \in SUBSET Nat, U # {}
  PROVE  Min(U) \in U /\ \A m \in U : Min(U) <= m
<1>1. PICK n \in U : \A m \in U : ~(m < n)
  BY LeastElement
<1>2. \A m \in U : n <= m
  BY <1>1
<1>3. QED
  BY <1>1, <1>2 DEF Min

LEMMA MaxIsGreatest ==
  ASSUME NEW N \in Nat, NEW U \in SUBSET (0 .. N), U # {}
  PROVE  Max(U) \in U /\ \A m \in U : Max(U) >= m
<1> DEFINE V == {N - n : n \in U}
<1>1. V \in SUBSET Nat /\ V # {}
  <2>1. \A n \in U : N - n \in Nat
    <3>1. \A n \in 0 .. N : N - n \in Nat
      OBVIOUS
    <3>2. QED
      BY <3>1
  <2>2. QED
    BY <2>1
<1>2. PICK v \in V : \A m \in V : ~(m < v)
  BY <1>1, LeastElement
<1>3. PICK n \in U : v = N - n
  BY <1>2
<1>4. \A m \in U : n >= m
  <2>1. ASSUME NEW m \in U PROVE n >= m
    <3>1. N - m \in V
      OBVIOUS
    <3>2. ~(N - m < N - n)
      BY <3>1, <1>2, <1>3
    <3>3. m \in Nat /\ n \in Nat
      OBVIOUS
    <3>4. QED
      BY <3>2, <3>3
  <2>2. QED
    BY <2>1
<1>5. QED
  BY <1>4 DEF Max

-----------------------------------------------------------------------------
(* shortest_path, as a whole: what PathTo computes is a path.              *)

(* one iteration of the while loop, or none *)
Onward(x, j) ==
  IF x = j \/ shortest_paths[<<x, j>>] = NQ THEN x ELSE shortest_paths[<<x, j>>]

LEMMA OnwardType ==
  ASSUME TableInv, NEW x \in Qubits, NEW j \in Qubits
  PROVE  Onward(x, j) \in Qubits
<1>1. shortest_paths[<<x, j>>] \in 0 .. NQ
  BY DEF TableInv, TableOK, Pairs
<1>2. QED
  BY <1>1, SizeAssumption DEF Onward, Qubits

IsNodes(f, i, j, k) ==
  /\ f \in [0 .. k -> Qubits]
  /\ f[0] = i
  /\ \A n \in 1 .. k : f[n] = Onward(f[n - 1], j)

LEMMA NodesExist ==
  ASSUME TableInv, NEW i \in Qubits, NEW j \in Qubits
  PROVE  \E f : IsNodes(f, i, j, NQ)
<1> DEFINE S == {k \in 0 .. NQ : \E f : IsNodes(f, i, j, k)}
<1>1. NQ \in Nat
  BY SizeAssumption
<1>2. 0 \in S
  <2>1. IsNodes([n \in 0 .. 0 |-> i], i, j, 0)
    BY DEF IsNodes
  <2>2. QED
    BY <1>1, <2>1
<1>3. ASSUME NEW k \in 0 .. NQ - 1, k \in S
      PROVE  k + 1 \in S
  <2>1. PICK f : IsNodes(f, i, j, k)
    BY <1>3
  <2> DEFINE g == [n \in 0 .. k + 1 |-> IF n = k + 1 THEN Onward(f[k], j) ELSE f[n]]
  <2>2. f \in [0 .. k -> Qubits] /\ f[0] = i /\ k \in Nat
    BY <2>1, <1>1 DEF IsNodes
  <2>3. f[k] \in Qubits
    BY <2>2
  <2>4. Onward(f[k], j) \in Qubits
    BY <2>3, OnwardType
  <2>5. g \in [0 .. k + 1 -> Qubits] /\ g[0] = i
    BY <2>2, <2>4
  <2>6. ASSUME NEW n \in 1 .. k + 1
        PROVE  g[n] = Onward(g[n - 1], j)
    <3>1. CASE n = k + 1
      <4>1. g[n] = Onward(f[k], j)
        BY <3>1
      <4>2. n - 1 = k /\ k # k + 1 /\ k \in 0 .. k + 1
        BY <3>1, <2>2
      <4>3. g[n - 1] = f[k]
        BY <4>2
      <4>4. QED
        BY <4>1, <4>3
    <3>2. CASE n # k + 1
      <4>1. n \in 1 .. k /\ n \in 0 .. k + 1 /\ n - 1 \in 0 .. k + 1 /\ n - 1 # k + 1
        BY <3>2, <2>2
      <4>2. g[n] = f[n] /\ g[n - 1] = f[n - 1]
        BY <4>1, <3>2
      <4>3. QED
        BY <4>1, <4>2, <2>1 DEF IsNodes
    <3>3. QED
      BY <3>1, <3>2
  <2> HIDE DEF g
  <2>7. IsNodes(g, i, j, k + 1)
    BY <2>5, <2>6 DEF IsNodes
  <2>8. k + 1 \in 0 .. NQ
    BY <1>1
  <2>9. QED
    BY <2>7, <2>8
<1>4. QED
  <2> HIDE DEF S
  <2>1. \A n \in 0 .. NQ : n \in S
    BY <1>1, <1>2, <1>3, Induction
  <2>2. NQ \in S
    BY <1>1, <2>1
  <2>3. QED
    BY <2>2 DEF S

(* The path goes on for len hops, and then there is none. *)
GoesOn(g, len) ==
  /\ len \in 0 .. NQ
  /\ len = NQ \/ g[len + 1] = g[len]
  /\ \A n \in 0 .. NQ - 1 : n < len => g[n + 1] # g[n]

LEMMA PathNodes ==
  ASSUME TableInv, NEW i \in Qubits, NEW j \in Qubits
  PROVE  \E g, len : /\ IsNodes(g, i, j, NQ)
                     /\ GoesOn(g, len)
                     /\ PathTo(i, j) = [n \in 1 .. len + 1 |-> g[n - 1]]
<1> DEFINE Eqn(g) == g = [n \in 0 .. NQ |->
                      IF n = 0 THEN i
                      ELSE IF g[n - 1] = j \/ shortest_paths[<<g[n - 1], j>>] = NQ
                           THEN g[n - 1]
                      ELSE shortest_paths[<<g[n - 1], j>>]]
<1>1. NQ \in Nat
  BY SizeAssumption
<1>2. PICK f : IsNodes(f, i, j, NQ)
  BY NodesExist
<1>3. Eqn(f)
  <2>1. \A n \in 1 .. NQ : f[n] = Onward(f[n - 1], j)
    BY <1>2 DEF IsNodes
  <2>2. \A n \in 0 .. NQ : n # 0 => n \in 1 .. NQ
    BY <1>1
  <2>3. f \in [0 .. NQ -> Qubits] /\ f[0] = i
    BY <1>2 DEF IsNodes
  <2>4. QED
    BY <2>1, <2>2, <2>3 DEF Onward
<1>4. PICK g : g = (CHOOSE h : Eqn(h))
  OBVIOUS
<1>5. Eqn(g)
  BY <1>3, <1>4
<1>6. IsNodes(g, i, j, NQ)
  <2>1. \A n \in 0 .. NQ : g[n] = IF n = 0 THEN i ELSE Onward(g[n - 1], j)
    BY <1>5 DEF Onward
  <2>2. g = [n \in 0 .. NQ |-> g[n]]
    BY <1>5
  <2> DEFINE S == {n \in 0 .. NQ : g[n] \in Qubits}
  <2>3. 0 \in S
    BY <1>1, <2>1
  <2>4. ASSUME NEW n \in 0 .. NQ - 1, n \in S
        PROVE  n + 1 \in S
    <3>1. n + 1 \in 0 .. NQ /\ n + 1 # 0 /\ (n + 1) - 1 = n
      BY <1>1
    <3>2. g[n + 1] = Onward(g[n], j)
      BY <2>1, <3>1
    <3>3. QED
      BY <2>4, <3>1, <3>2, OnwardType
  <2>5. \A n \in 0 .. NQ : n \in S
    <3> HIDE DEF S
    <3>1. QED
      BY <1>1, <2>3, <2>4, Induction
  <2>6. g \in [0 .. NQ -> Qubits]
    BY <2>2, <2>5
  <2>7. \A n \in 1 .. NQ : n \in 0 .. NQ /\ n # 0
    BY <1>1
  <2>8. g[0] = i
    BY <1>1, <2>1
  <2>9. QED
    BY <2>1, <2>6, <2>7, <2>8 DEF IsNodes
<1> DEFINE Ends == {n \in 0 .. NQ : n = NQ \/ g[n + 1] = g[n]}
           len == Min(Ends)
<1>7. PathTo(i, j) = [n \in 1 .. len + 1 |-> g[n - 1]]
  BY <1>4 DEF PathTo
<1>8. len \in Ends /\ \A m \in Ends : len <= m
  <2>1. Ends \in SUBSET Nat /\ NQ \in Ends
    BY <1>1
  <2> HIDE DEF Ends
  <2>2. QED
    BY <2>1, MinIsLeast
<1>9. PICK l : l = len
  OBVIOUS
<1>10. GoesOn(g, l)
  <2> HIDE DEF len
  <2>1. l \in Ends /\ \A m \in Ends : l <= m
    BY <1>8, <1>9
  <2>2. ASSUME NEW n \in 0 .. NQ - 1, n < l PROVE g[n + 1] # g[n]
    <3>1. n \notin Ends
      BY <1>1, <2>1, <2>2
    <3>2. n \in 0 .. NQ
      BY <1>1
    <3>3. QED
      BY <3>1, <3>2
  <2>3. QED
    BY <2>1, <2>2 DEF GoesOn
<1>11. QED
  <2> HIDE DEF len
  <2>1. QED
    BY <1>6, <1>7, <1>9, <1>10

(* A walk of shortest_path from i to j, or its early return. *)
IsWalk(path, i, j) ==
  /\ path \in Seq(Qubits) /\ Len(path) \in Nat \ {0}
  /\ path[1] = i
  /\ \A n \in 1 .. Len(path) - 1 : Linked(path[n], path[n + 1])
  /\ \A m, n \in 1 .. Len(path) : path[m] = path[n] => m = n
  /\ \/ path[Len(path)] = j
     \/ Len(path) = 1 /\ dist[<<i, j>>] = Infinite

(* A hop is along a coupling, to a cell that is below and not marked. *)
LEMMA HopFacts ==
  ASSUME TableInv, Computed, NEW rank, Descends(rank),
         NEW x \in Qubits, NEW j \in Qubits, Onward(x, j) # x
  PROVE  LET y == Onward(x, j)
         IN  /\ Linked(x, y)
             /\ Below(dist[<<y, j>>], rank[<<y, j>>], dist[<<x, j>>], rank[<<x, j>>])
             /\ y = j \/ shortest_paths[<<y, j>>] # NQ
<1> DEFINE y == Onward(x, j)
<1>1. y = shortest_paths[<<x, j>>] /\ y # NQ /\ x # j
  BY DEF Onward
<1>2. y \in Qubits
  BY OnwardType
<1>3. y \in 0 .. NQ
  BY <1>2, SizeAssumption DEF Qubits
<1> HIDE DEF y
<1>4. Linked(x, y) /\ dist[<<x, j>>] < Infinite /\ dist[<<x, j>>] >= HopCost(x, y) + Settled(y, j)
  BY <1>1, <1>3 DEF TableInv, HopsAgree
<1>5. Settled(y, j) = dist[<<y, j>>]
  BY DEF Settled
<1>6. /\ HopCost(x, y) \in Nat /\ dist[<<y, j>>] \in Nat /\ dist[<<x, j>>] \in Nat
      /\ Infinite \in Nat /\ shortest_paths[<<y, j>>] \in 0 .. NQ /\ NQ \in 0 .. NQ
  BY <1>2, <1>4, HopCostType, CostAssumption, SizeAssumption DEF TableInv, TableOK, Pairs
<1>7. dist[<<y, j>>] < Infinite
  BY <1>4, <1>5, <1>6
<1>8. y = j \/ shortest_paths[<<y, j>>] # NQ
  <2> SUFFICES ASSUME y # j, shortest_paths[<<y, j>>] = NQ PROVE FALSE
    OBVIOUS
  <2>1. dist[<<y, j>>] = Infinite
    BY <1>2, <1>6 DEF TableInv, HopsAgree
  <2>2. QED
    BY <1>6, <1>7, <2>1
<1>9. Below(dist[<<y, j>>], rank[<<y, j>>], dist[<<x, j>>], rank[<<x, j>>])
  BY <1>1, <1>2 DEF Descends
<1>10. QED
  BY <1>4, <1>8, <1>9 DEF y

(* What goes down with every hop goes down. *)
LEMMA StepsDown ==
  ASSUME NEW path \in Seq(Qubits), NEW to \in Qubits, NEW rank,
         TableOK, Descends(rank),
         \A n \in 1 .. Len(path) - 1 :
           Below(dist[<<path[n + 1], to>>], rank[<<path[n + 1], to>>],
                 dist[<<path[n], to>>], rank[<<path[n], to>>])
  PROVE  GoesDown(rank, path, to)
<1> DEFINE D(n) == dist[<<path[n], to>>]
           R(n) == rank[<<path[n], to>>]
           S == {n \in 0 .. Len(path) :
                   \A m \in 1 .. Len(path) : m < n => Below(D(n), R(n), D(m), R(m))}
<1>1. Len(path) \in Nat /\ \A n \in 1 .. Len(path) : path[n] \in Qubits
  BY LenProperties, ElementOfSeq
<1>2. \A n \in 1 .. Len(path) : D(n) \in Nat /\ R(n) \in Nat
  BY <1>1 DEF TableOK, Descends, Pairs
<1>3. \A n \in 1 .. Len(path) - 1 : Below(D(n + 1), R(n + 1), D(n), R(n))
  OBVIOUS
<1>4. 0 \in S
  BY <1>1
<1> HIDE DEF D, R
<1>5. ASSUME NEW n \in 0 .. Len(path) - 1, n \in S
      PROVE  n + 1 \in S
  <2>1. n + 1 \in 1 .. Len(path)
    BY <1>1
  <2>2. ASSUME NEW m \in 1 .. Len(path), m < n + 1
        PROVE  Below(D(n + 1), R(n + 1), D(m), R(m))
    <3>1. n \in 1 .. Len(path) - 1 /\ n \in 1 .. Len(path) /\ (m = n \/ m < n)
      BY <1>1, <2>2
    <3>2. Below(D(n + 1), R(n + 1), D(n), R(n))
      BY <1>3, <3>1
    <3>3. m = n \/ Below(D(n), R(n), D(m), R(m))
      BY <1>5, <3>1
    <3>4. /\ D(n + 1) \in Nat /\ R(n + 1) \in Nat /\ D(n) \in Nat /\ R(n) \in Nat
          /\ D(m) \in Nat /\ R(m) \in Nat
      BY <1>2, <2>1, <3>1
    <3>5. QED
      BY <3>2, <3>3, <3>4 DEF Below
  <2>3. n + 1 \in 0 .. Len(path)
    BY <1>1
  <2>4. QED
    BY <2>2, <2>3
<1>6. \A n \in 0 .. Len(path) : n \in S
  <2> HIDE DEF S
  <2>1. QED
    BY <1>1, <1>4, <1>5, Induction
<1>7. QED
  BY <1>1, <1>6 DEF GoesDown, D, R

(* shortest_path returns a simple path of couplings that ends where it     *)
(* should, unless the two qubits are not connected.                        *)
LEMMA PathToWalks ==
  ASSUME TableInv, RankInv, Computed, NEW i \in Qubits, NEW j \in Qubits
  PROVE  IsWalk(PathTo(i, j), i, j)
<1>1. NQ \in Nat \ {0}
  BY SizeAssumption
<1>2. PICK rank : Descends(rank)
  BY HopsDescend
<1>3. PICK g, len : /\ IsNodes(g, i, j, NQ)
                    /\ GoesOn(g, len)
                    /\ PathTo(i, j) = [n \in 1 .. len + 1 |-> g[n - 1]]
  BY PathNodes
<1>4. PICK path : path = PathTo(i, j)
  OBVIOUS
<1>5. /\ len \in 0 .. NQ /\ len \in Nat /\ len + 1 \in Nat
      /\ g \in [0 .. NQ -> Qubits] /\ g[0] = i
  BY <1>1, <1>3 DEF GoesOn, IsNodes
<1>6. /\ path \in [1 .. len + 1 -> Qubits]
      /\ \A n \in 1 .. len + 1 : path[n] = g[n - 1] /\ n - 1 \in 0 .. NQ
  <2>1. \A n \in 1 .. len + 1 : n - 1 \in 0 .. NQ
    BY <1>1, <1>5
  <2>2. \A n \in 1 .. len + 1 : g[n - 1] \in Qubits
    BY <1>5, <2>1
  <2>3. QED
    BY <1>3, <1>4, <2>1, <2>2
<1>7. path \in Seq(Qubits) /\ Len(path) = len + 1
  <2>1. path \in Seq(Qubits)
    BY <1>5, <1>6
  <2>2. QED
    BY <1>5, <1>6, <2>1, LenProperties
<1>8. \A n \in 0 .. len - 1 : /\ g[n] \in Qubits
                              /\ g[n + 1] = Onward(g[n], j) /\ g[n + 1] # g[n]
  <2>1. ASSUME NEW n \in 0 .. len - 1
        PROVE  /\ g[n] \in Qubits
               /\ g[n + 1] = Onward(g[n], j) /\ g[n + 1] # g[n]
    <3>1. n \in 0 .. NQ /\ n + 1 \in 1 .. NQ /\ n < len /\ n \in 0 .. NQ - 1 /\ (n + 1) - 1 = n
      BY <1>1, <1>5
    <3>2. g[n + 1] = Onward(g[(n + 1) - 1], j)
      BY <1>3, <3>1 DEF IsNodes
    <3>3. g[n + 1] # g[n]
      BY <1>3, <3>1 DEF GoesOn
    <3>4. QED
      BY <1>5, <3>1, <3>2, <3>3
  <2>2. QED
    BY <2>1
<1>9. \A n \in 0 .. len - 1 :
        /\ Linked(g[n], g[n + 1])
        /\ Below(dist[<<g[n + 1], j>>], rank[<<g[n + 1], j>>], dist[<<g[n], j>>], rank[<<g[n], j>>])
        /\ g[n + 1] = j \/ shortest_paths[<<g[n + 1], j>>] # NQ
  BY <1>2, <1>8, HopFacts
<1>10. ASSUME NEW n \in 1 .. Len(path) - 1
       PROVE  /\ n - 1 \in 0 .. len - 1 /\ (n - 1) + 1 = n
              /\ path[n] = g[n - 1] /\ path[n + 1] = g[n]
  <2>1. n \in 1 .. len + 1 /\ n + 1 \in 1 .. len + 1 /\ n - 1 \in 0 .. len - 1 /\ (n - 1) + 1 = n
        /\ (n + 1) - 1 = n
    BY <1>5, <1>7
  <2>2. QED
    BY <1>6, <2>1
<1>11. \A n \in 1 .. Len(path) - 1 :
         /\ Linked(path[n], path[n + 1])
         /\ Below(dist[<<path[n + 1], j>>], rank[<<path[n + 1], j>>],
                  dist[<<path[n], j>>], rank[<<path[n], j>>])
  <2>1. ASSUME NEW n \in 1 .. Len(path) - 1
        PROVE  /\ Linked(path[n], path[n + 1])
               /\ Below(dist[<<path[n + 1], j>>], rank[<<path[n + 1], j>>],
                        dist[<<path[n], j>>], rank[<<path[n], j>>])
    <3>1. PICK m \in 0 .. len - 1 : m + 1 = n /\ path[n] = g[m] /\ path[n + 1] = g[m + 1]
      BY <1>10
    <3>2. QED
      BY <1>9, <3>1
  <2>2. QED
    BY <2>1
<1>12. \A m, n \in 1 .. Len(path) : path[m] = path[n] => m = n
  <2>1. TableOK
    BY DEF TableInv
  <2>2. GoesDown(rank, path, j)
    BY <1>2, <1>7, <1>11, <2>1, StepsDown
  <2>3. QED
    BY <1>2, <1>7, <2>1, <2>2, GoingDownIsSimple
<1>13. len # NQ /\ len + 1 \in 1 .. NQ
  <2>1. \A m, n \in 1 .. len + 1 : path[m] = path[n] => m = n
    BY <1>7, <1>12
  <2>2. len + 1 <= NQ
    BY <1>5, <1>6, <2>1, SimpleIsShort
  <2>3. QED
    BY <1>1, <1>5, <2>2
<1>14. Onward(g[len], j) = g[len] /\ g[len] \in Qubits
  <2>1. g[len + 1] = g[len]
    BY <1>3, <1>13 DEF GoesOn
  <2>2. g[len + 1] = Onward(g[(len + 1) - 1], j) /\ (len + 1) - 1 = len
    BY <1>3, <1>5, <1>13 DEF IsNodes
  <2>3. QED
    BY <1>5, <2>1, <2>2
<1>15. g[len] = j \/ (len = 0 /\ dist[<<i, j>>] = Infinite)
  <2> SUFFICES ASSUME g[len] # j PROVE len = 0 /\ dist[<<i, j>>] = Infinite
    OBVIOUS
  <2>1. shortest_paths[<<g[len], j>>] = NQ
    <3>1. CASE shortest_paths[<<g[len], j>>] = NQ
      BY <3>1
    <3>2. CASE shortest_paths[<<g[len], j>>] # NQ
      <4>1. shortest_paths[<<g[len], j>>] = g[len]
        BY <1>14, <3>2 DEF Onward
      <4>2. g[len] \in 0 .. NQ
        BY <1>1, <1>14 DEF Qubits
      <4>3. Linked(g[len], g[len])
        BY <1>14, <3>2, <4>1, <4>2 DEF TableInv, HopsAgree
      <4>4. QED
        BY <1>14, <4>3, HopCostType DEF TableInv
    <3>3. QED
      BY <3>1, <3>2
  <2>2. len = 0
    <3> SUFFICES ASSUME len # 0 PROVE FALSE
      OBVIOUS
    <3>1. len - 1 \in 0 .. len - 1 /\ (len - 1) + 1 = len
      BY <1>5
    <3>2. g[len] = j \/ shortest_paths[<<g[len], j>>] # NQ
      BY <1>9, <3>1
    <3>3. QED
      BY <2>1, <3>2
  <2>3. dist[<<i, j>>] = Infinite
    <3>1. shortest_paths[<<i, j>>] = NQ /\ i # j /\ NQ \in 0 .. NQ
      BY <1>1, <1>5, <2>1, <2>2
    <3>2. QED
      BY <3>1 DEF TableInv, HopsAgree
  <2>4. QED
    BY <2>2, <2>3
<1>16. path[1] = i /\ path[Len(path)] = g[len] /\ (len = 0 => Len(path) = 1)
       /\ Len(path) \in Nat \ {0}
  <2>1. 1 \in 1 .. len + 1 /\ len + 1 \in 1 .. len + 1 /\ (len + 1) - 1 = len /\ 1 - 1 = 0
    BY <1>5
  <2>2. QED
    BY <1>5, <1>6, <1>7, <2>1
<1>17. IsWalk(path, i, j)
  BY <1>7, <1>11, <1>12, <1>15, <1>16 DEF IsWalk
<1>18. QED
  BY <1>4, <1>17

-----------------------------------------------------------------------------
(* What add_to_tree inserts of a path: a branch that begins in the tree    *)
(* and has nothing else of it.                                             *)
IsBranch(part, nodes, end) ==
  /\ part \in Seq(Qubits) /\ Len(part) \in Nat \ {0}
  /\ part[1] \in nodes
  /\ \A n \in 2 .. Len(part) : part[n] \notin nodes
  /\ \A n \in 1 .. Len(part) - 1 : Linked(part[n], part[n + 1])
  /\ \A m, n \in 1 .. Len(part) : part[m] = part[n] => m = n
  /\ part[Len(part)] = end

LEMMA NewPartIsBranch ==
  ASSUME NEW path, NEW i \in in_tree, NEW j, IsWalk(path, i, j)
  PROVE  IsBranch(NewPart(path), in_tree, path[Len(path)])
<1> DEFINE U == {n \in DOMAIN path : n = 1 \/ path[n] \in in_tree}
           N == Len(path)
<1>1. /\ path \in Seq(Qubits) /\ N \in Nat \ {0} /\ DOMAIN path = 1 .. N
      /\ path[1] \in in_tree
      /\ \A n \in 1 .. N : path[n] \in Qubits
  BY LenProperties, ElementOfSeq DEF IsWalk
<1>2. PICK k : k = Max(U)
  OBVIOUS
<1>3. k \in U /\ \A m \in U : k >= m
  <2>1. U \in SUBSET (0 .. N) /\ 1 \in U
    BY <1>1
  <2> HIDE DEF U, N
  <2>2. QED
    BY <1>1, <1>2, <2>1, MaxIsGreatest
<1>4. k \in 1 .. N /\ path[k] \in in_tree /\ \A n \in 1 .. N : n > k => path[n] \notin in_tree
  BY <1>1, <1>3
<1>5. PICK part : part = NewPart(path)
  OBVIOUS
<1>6. part = SubSeq(path, k, N)
  BY <1>2, <1>5 DEF NewPart
<1>7. /\ part \in Seq(Qubits)
      /\ Len(part) = N - k + 1
      /\ \A n \in 1 .. N - k + 1 : part[n] = path[k + n - 1]
  <2>1. \A n \in k .. N : path[n] \in Qubits
    BY <1>1, <1>4
  <2>2. k \in Int /\ N \in Int /\ k <= N
    BY <1>1, <1>4
  <2> HIDE DEF N
  <2>3. QED
    BY <1>6, <2>1, <2>2, SubSeqProperties
<1> HIDE DEF N
<1>8. \A n \in 1 .. N - k + 1 : k + n - 1 \in 1 .. N /\ (n > 1 => k + n - 1 > k)
  BY <1>1, <1>4
<1>9. /\ Len(part) \in Nat \ {0} /\ 1 \in 1 .. N - k + 1 /\ N - k + 1 \in 1 .. N - k + 1
      /\ k + 1 - 1 = k /\ k + (N - k + 1) - 1 = N
  BY <1>1, <1>4, <1>7
<1>10. part[1] \in in_tree /\ part[Len(part)] = path[N]
  BY <1>4, <1>7, <1>9
<1>11. \A n \in 2 .. Len(part) : part[n] \notin in_tree
  <2>1. ASSUME NEW n \in 2 .. Len(part) PROVE part[n] \notin in_tree
    <3>1. n \in 1 .. N - k + 1 /\ n > 1
      BY <1>1, <1>4, <1>7
    <3>2. QED
      BY <1>4, <1>7, <1>8, <3>1
  <2>2. QED
    BY <2>1
<1>12. \A n \in 1 .. Len(part) - 1 : Linked(part[n], part[n + 1])
  <2>1. ASSUME NEW n \in 1 .. Len(part) - 1 PROVE Linked(part[n], part[n + 1])
    <3>1. /\ n \in 1 .. N - k + 1 /\ n + 1 \in 1 .. N - k + 1
          /\ k + n - 1 \in 1 .. N - 1 /\ k + (n + 1) - 1 = (k + n - 1) + 1
      BY <1>1, <1>4, <1>7
    <3>2. part[n] = path[k + n - 1] /\ part[n + 1] = path[(k + n - 1) + 1]
      BY <1>7, <3>1
    <3>3. QED
      BY <3>1, <3>2 DEF IsWalk, N
  <2>2. QED
    BY <2>1
<1>13. \A m, n \in 1 .. Len(part) : part[m] = part[n] => m = n
  <2>1. ASSUME NEW m \in 1 .. Len(part), NEW n \in 1 .. Len(part), part[m] = part[n]
        PROVE  m = n
    <3>1. m \in 1 .. N - k + 1 /\ n \in 1 .. N - k + 1
      BY <1>7
    <3>2. path[k + m - 1] = path[k + n - 1] /\ k + m - 1 \in 1 .. N /\ k + n - 1 \in 1 .. N
      BY <1>7, <1>8, <2>1, <3>1
    <3>3. k + m - 1 = k + n - 1
      BY <3>2 DEF IsWalk, N
    <3>4. m \in Int /\ n \in Int /\ k \in Int
      BY <1>4, <3>1
    <3>5. QED
      BY <3>3, <3>4
  <2>2. QED
    BY <2>1
<1>14. IsBranch(part, in_tree, path[Len(path)])
  BY <1>7, <1>9, <1>10, <1>11, <1>12, <1>13 DEF IsBranch, N
<1>15. QED
  BY <1>5, <1>14

-----------------------------------------------------------------------------
(* A tree in topological order stays one when a branch is appended.        *)

KidsOf(edges, n) == {edges[m][2] : m \in 1 .. n}

IsTopological(r, edges, nodes) ==
  /\ nodes = {r} \cup KidsOf(edges, Len(edges))
  /\ \A n \in 1 .. Len(edges) :
       /\ Linked(edges[n][1], edges[n][2])
       /\ edges[n][1] \in {r} \cup KidsOf(edges, n - 1)
       /\ edges[n][2] \notin {r} \cup KidsOf(edges, n - 1)

(* the edges of the tree, and then those of the branch *)
LEMMA EdgesAppended ==
  ASSUME NEW edges \in Seq(Pairs), NEW part \in Seq(Qubits), Len(part) \in Nat \ {0}
  PROVE  /\ edges \o Edges(part) \in Seq(Pairs)
         /\ Len(edges) \in Nat
         /\ Len(edges \o Edges(part)) = Len(edges) + Len(part) - 1
         /\ \A n \in 1 .. Len(edges) : (edges \o Edges(part))[n] = edges[n]
         /\ \A n \in 1 .. Len(part) - 1 :
              (edges \o Edges(part))[Len(edges) + n] = <<part[n], part[n + 1]>>
<1> DEFINE new == Edges(part)
           N == Len(part) - 1
<1>1. N \in Nat /\ \A n \in 1 .. N : n \in 1 .. Len(part) /\ n + 1 \in 1 .. Len(part)
  OBVIOUS
<1>2. \A n \in 1 .. Len(part) : part[n] \in Qubits
  BY ElementOfSeq
<1>3. \A n \in 1 .. N : <<part[n], part[n + 1]>> \in Pairs
  BY <1>1, <1>2 DEF Pairs
<1>4. new = [n \in 1 .. N |-> <<part[n], part[n + 1]>>]
  BY DEF Edges
<1>5. new \in [1 .. N -> Pairs]
  BY <1>3, <1>4
<1>6. new \in Seq(Pairs)
  BY <1>1, <1>5
<1>7. Len(new) = N
  BY <1>1, <1>5, <1>6, LenProperties
<1>8. Len(edges) \in Nat
  BY LenProperties
<1> HIDE DEF new, N
<1>9. /\ edges \o new \in Seq(Pairs)
      /\ Len(edges \o new) = Len(edges) + N
      /\ \A n \in 1 .. Len(edges) + N :
           (edges \o new)[n] = IF n <= Len(edges) THEN edges[n] ELSE new[n - Len(edges)]
  BY <1>6, <1>7, ConcatProperties
<1>10. \A n \in 1 .. Len(edges) : (edges \o new)[n] = edges[n]
  <2>1. \A n \in 1 .. Len(edges) : n \in 1 .. Len(edges) + N /\ n <= Len(edges)
    BY <1>1, <1>8
  <2>2. QED
    BY <1>9, <2>1
<1>11. ASSUME NEW n \in 1 .. N
       PROVE  (edges \o new)[Len(edges) + n] = <<part[n], part[n + 1]>>
  <2>1. /\ Len(edges) + n \in 1 .. Len(edges) + N /\ ~(Len(edges) + n <= Len(edges))
        /\ (Len(edges) + n) - Len(edges) = n
    BY <1>1, <1>8
  <2>2. (edges \o new)[Len(edges) + n] = new[n]
    BY <1>9, <2>1
  <2>3. QED
    BY <1>4, <2>2
<1>12. Len(edges) + N = Len(edges) + Len(part) - 1
  BY <1>8 DEF N
<1>13. QED
  BY <1>8, <1>9, <1>10, <1>11, <1>12 DEF new, N

LEMMA TreeGrows ==
  ASSUME NEW r, NEW edges \in Seq(Pairs), NEW nodes, NEW part, NEW end,
         IsTopological(r, edges, nodes), IsBranch(part, nodes, end)
  PROVE  IsTopological(r, edges \o Edges(part), nodes \cup Range(part))
<1> DEFINE L == Len(edges)
           P == Len(part)
<1>1. PICK new : new = edges \o Edges(part)
  OBVIOUS
<1>2. /\ new \in Seq(Pairs) /\ L \in Nat /\ P \in Nat \ {0} /\ Len(new) = L + P - 1
      /\ \A n \in 1 .. L : new[n] = edges[n]
      /\ \A n \in 1 .. P - 1 : new[L + n] = <<part[n], part[n + 1]>>
      /\ part \in Seq(Qubits)
  <2>1. part \in Seq(Qubits) /\ P \in Nat \ {0}
    BY DEF IsBranch
  <2>2. QED
    BY <1>1, <2>1, EdgesAppended
<1>3. \A n \in 0 .. L : KidsOf(new, n) = KidsOf(edges, n)
  <2>1. ASSUME NEW n \in 0 .. L PROVE KidsOf(new, n) = KidsOf(edges, n)
    <3>1. \A m \in 1 .. n : m \in 1 .. L
      BY <1>2
    <3>2. \A m \in 1 .. n : new[m][2] = edges[m][2]
      BY <1>2, <3>1
    <3>3. QED
      BY <3>2 DEF KidsOf
  <2>2. QED
    BY <2>1
<1>4. ASSUME NEW n \in 0 .. P - 1
      PROVE  KidsOf(new, L + n) = KidsOf(edges, L) \cup {part[m] : m \in 2 .. n + 1}
  <2>1. ASSUME NEW m \in 1 .. L + n
        PROVE  new[m][2] \in KidsOf(edges, L) \cup {part[l] : l \in 2 .. n + 1}
    <3>1. CASE m <= L
      <4>1. m \in 1 .. L
        BY <1>2, <3>1
      <4>2. QED
        BY <1>2, <4>1 DEF KidsOf
    <3>2. CASE m > L
      <4>1. PICK l \in 1 .. n : m = L + l
        <5>1. m - L \in 1 .. n /\ m = L + (m - L)
          BY <1>2, <3>2
        <5>2. QED
          BY <5>1
      <4>2. l \in 1 .. P - 1 /\ l + 1 \in 2 .. n + 1
        BY <1>2
      <4>3. new[m] = <<part[l], part[l + 1]>>
        BY <1>2, <4>1, <4>2
      <4>4. QED
        BY <4>2, <4>3
    <3>3. QED
      BY <1>2, <3>1, <3>2
  <2>2. ASSUME NEW m \in 1 .. L
        PROVE  edges[m][2] \in KidsOf(new, L + n)
    <3>1. m \in 1 .. L + n /\ new[m] = edges[m]
      BY <1>2
    <3>2. QED
      BY <3>1 DEF KidsOf
  <2>3. ASSUME NEW l \in 2 .. n + 1
        PROVE  part[l] \in KidsOf(new, L + n)
    <3>1. l - 1 \in 1 .. P - 1 /\ L + (l - 1) \in 1 .. L + n /\ (l - 1) + 1 = l
      BY <1>2
    <3>2. new[L + (l - 1)] = <<part[l - 1], part[l]>>
      BY <1>2, <3>1
    <3>3. part[l] = new[L + (l - 1)][2]
      BY <3>2
    <3>4. QED
      BY <3>1, <3>3 DEF KidsOf
  <2>4. QED
    BY <2>1, <2>2, <2>3 DEF KidsOf
<1>5. ASSUME NEW n \in 1 .. L
      PROVE  /\ Linked(new[n][1], new[n][2])
             /\ new[n][1] \in {r} \cup KidsOf(new, n - 1)
             /\ new[n][2] \notin {r} \cup KidsOf(new, n - 1)
  <2>1. n - 1 \in 0 .. L
    BY <1>2
  <2>2. new[n] = edges[n] /\ KidsOf(new, n - 1) = KidsOf(edges, n - 1)
    BY <1>2, <1>3, <2>1
  <2>3. QED
    BY <2>2 DEF IsTopological
<1>6. ASSUME NEW n \in 1 .. P - 1
      PROVE  /\ Linked(new[L + n][1], new[L + n][2])
             /\ new[L + n][1] \in {r} \cup KidsOf(new, (L + n) - 1)
             /\ new[L + n][2] \notin {r} \cup KidsOf(new, (L + n) - 1)
  <2>1. new[L + n] = <<part[n], part[n + 1]>>
    BY <1>2
  <2>2. KidsOf(new, (L + n) - 1) = KidsOf(edges, L) \cup {part[m] : m \in 2 .. n}
    <3>1. n - 1 \in 0 .. P - 1 /\ L + (n - 1) = (L + n) - 1 /\ (n - 1) + 1 = n
      BY <1>2
    <3>2. KidsOf(new, L + (n - 1)) = KidsOf(edges, L) \cup {part[m] : m \in 2 .. (n - 1) + 1}
      BY <1>4, <3>1
    <3>3. QED
      BY <3>1, <3>2
  <2>3. {r} \cup KidsOf(edges, L) = nodes
    BY DEF IsTopological
  <2>4. Linked(part[n], part[n + 1])
    BY DEF IsBranch
  <2>5. part[n] \in nodes \cup {part[m] : m \in 2 .. n}
    <3>1. n = 1 \/ n \in 2 .. n
      BY <1>2
    <3>2. n = 1 => part[n] \in nodes
      BY DEF IsBranch
    <3>3. QED
      BY <3>1, <3>2
  <2>6. part[n + 1] \notin nodes \cup {part[m] : m \in 2 .. n}
    <3>1. n + 1 \in 2 .. P /\ n + 1 \in 1 .. P
      BY <1>2
    <3>2. \A m \in 2 .. n : m \in 1 .. P /\ m # n + 1
      BY <1>2
    <3>3. part[n + 1] \notin nodes
      BY <3>1 DEF IsBranch
    <3>4. \A m \in 2 .. n : part[m] # part[n + 1]
      BY <3>1, <3>2 DEF IsBranch
    <3>5. QED
      BY <3>3, <3>4
  <2>7. QED
    BY <2>1, <2>2, <2>3, <2>4, <2>5, <2>6
<1>7. ASSUME NEW n \in 1 .. Len(new)
      PROVE  /\ Linked(new[n][1], new[n][2])
             /\ new[n][1] \in {r} \cup KidsOf(new, n - 1)
             /\ new[n][2] \notin {r} \cup KidsOf(new, n - 1)
  <2>1. CASE n <= L
    <3>1. n \in 1 .. L
      BY <1>2, <2>1
    <3>2. QED
      BY <1>5, <3>1
  <2>2. CASE n > L
    <3>1. PICK l \in 1 .. P - 1 : n = L + l
      <4>1. n - L \in 1 .. P - 1 /\ n = L + (n - L)
        BY <1>2, <2>2
      <4>2. QED
        BY <4>1
    <3>2. QED
      BY <1>6, <3>1
  <2>3. QED
    BY <1>2, <2>1, <2>2
<1>8. nodes \cup Range(part) = {r} \cup KidsOf(new, Len(new))
  <2>1. P - 1 \in 0 .. P - 1 /\ L + (P - 1) = Len(new) /\ (P - 1) + 1 = P
    BY <1>2
  <2>2. KidsOf(new, L + (P - 1)) = KidsOf(edges, L) \cup {part[m] : m \in 2 .. (P - 1) + 1}
    BY <1>4, <2>1
  <2>3. KidsOf(new, Len(new)) = KidsOf(edges, L) \cup {part[m] : m \in 2 .. P}
    BY <2>1, <2>2
  <2>4. nodes = {r} \cup KidsOf(edges, L)
    BY DEF IsTopological
  <2>5. part[1] \in nodes /\ DOMAIN part = 1 .. P
    BY <1>2, LenProperties DEF IsBranch
  <2>6. \A m \in 1 .. P : m = 1 \/ m \in 2 .. P
    BY <1>2
  <2>7. \A m \in 2 .. P : m \in 1 .. P
    BY <1>2
  <2>8. Range(part) = {part[m] : m \in 1 .. P}
    BY <2>5 DEF Range
  <2>9. nodes \cup {part[m] : m \in 1 .. P} = nodes \cup {part[m] : m \in 2 .. P}
    BY <2>5, <2>6, <2>7
  <2>10. QED
    BY <2>3, <2>4, <2>8, <2>9
<1>9. IsTopological(r, new, nodes \cup Range(part))
  BY <1>7, <1>8 DEF IsTopological
<1>10. QED
  BY <1>1, <1>9

-----------------------------------------------------------------------------
(* The choices that the loops make: the first of the cheapest.             *)

LEMMA FirstCheapest ==
  ASSUME NEW D \in SUBSET Nat, D # {}, NEW f \in [D -> Nat]
  PROVE  \E n \in D : \A m \in D : f[n] < f[m] \/ (f[n] = f[m] /\ n <= m)
<1> DEFINE U == {f[n] : n \in D}
<1>1. U \in SUBSET Nat /\ U # {}
  OBVIOUS
<1>2. PICK v \in U : \A w \in U : ~(w < v)
  BY <1>1, LeastElement
<1> DEFINE W == {n \in D : f[n] = v}
<1>3. W \in SUBSET Nat /\ W # {}
  BY <1>2
<1>4. PICK n \in W : \A m \in W : ~(m < n)
  BY <1>3, LeastElement
<1>5. ASSUME NEW m \in D PROVE f[n] < f[m] \/ (f[n] = f[m] /\ n <= m)
  <2>1. f[n] = v /\ n \in Nat /\ m \in Nat /\ f[m] \in Nat /\ v \in Nat /\ ~(f[m] < v)
    BY <1>2, <1>4
  <2>2. f[m] = v => ~(m < n)
    BY <1>4
  <2>3. QED
    BY <2>1, <2>2
<1>6. n \in D
  OBVIOUS
<1>7. QED
  BY <1>5, <1>6

LEMMA MinNodeOnList ==
  ASSUME terminals \in Seq(Qubits), terminals # <<>>, vertex_cost \in [Qubits -> Nat]
  PROVE  MinNode \in 1 .. Len(terminals)
<1> DEFINE D == DOMAIN terminals
           f == [n \in D |-> vertex_cost[terminals[n]]]
<1>1. D = 1 .. Len(terminals) /\ Len(terminals) \in Nat \ {0}
  BY LenProperties, EmptySeq
<1>2. \A n \in D : terminals[n] \in Qubits
  BY <1>1, ElementOfSeq
<1>3. D \in SUBSET Nat /\ D # {} /\ f \in [D -> Nat]
  <2>1. \A n \in D : vertex_cost[terminals[n]] \in Nat
    BY <1>2
  <2>2. f \in [D -> Nat]
    <3> HIDE DEF D
    <3>1. QED
      BY <2>1
  <2>3. D \in SUBSET Nat /\ 1 \in D
    <3> HIDE DEF f
    <3>1. \A N \in Nat \ {0} : 1 .. N \in SUBSET Nat /\ 1 \in 1 .. N
      OBVIOUS
    <3>2. QED
      BY <1>1, <3>1
  <2>4. QED
    BY <2>2, <2>3
<1>4. \E n \in D : \A m \in D : f[n] < f[m] \/ (f[n] = f[m] /\ n <= m)
  <2> HIDE DEF f, D
  <2>1. QED
    BY <1>3, FirstCheapest
<1>5. \E n \in DOMAIN terminals : \A m \in DOMAIN terminals :
        \/ vertex_cost[terminals[n]] < vertex_cost[terminals[m]]
        \/ vertex_cost[terminals[n]] = vertex_cost[terminals[m]] /\ n <= m
  BY <1>4
<1>6. MinNode \in DOMAIN terminals
  BY <1>5 DEF MinNode
<1>7. QED
  BY <1>1, <1>6

LEMMA NearestIsNear ==
  ASSUME NEW nodes \in SUBSET Qubits, nodes # {}, NEW t \in Qubits, dist \in [Pairs -> Nat]
  PROVE  /\ Nearest(nodes, t) \in nodes
         /\ \A m \in nodes : dist[<<Nearest(nodes, t), t>>] <= dist[<<m, t>>]
<1> DEFINE f == [n \in nodes |-> dist[<<n, t>>]]
<1>1. nodes \in SUBSET Nat
  BY DEF Qubits
<1>2. \A n \in nodes : dist[<<n, t>>] \in Nat
  BY DEF Pairs
<1>3. f \in [nodes -> Nat]
  BY <1>2
<1>4. \E n \in nodes : \A m \in nodes : f[n] < f[m] \/ (f[n] = f[m] /\ n <= m)
  <2> HIDE DEF f
  <2>1. QED
    BY <1>1, <1>3, FirstCheapest
<1>5. PICK n \in nodes : \A m \in nodes : f[n] < f[m] \/ (f[n] = f[m] /\ n <= m)
  BY <1>4
<1>6. \A m \in nodes : \/ dist[<<n, t>>] < dist[<<m, t>>]
                       \/ dist[<<n, t>>] = dist[<<m, t>>] /\ n <= m
  <2>1. \A m \in nodes : f[m] = dist[<<m, t>>]
    OBVIOUS
  <2> HIDE DEF f
  <2>2. ASSUME NEW m \in nodes
        PROVE  \/ dist[<<n, t>>] < dist[<<m, t>>]
               \/ dist[<<n, t>>] = dist[<<m, t>>] /\ n <= m
    <3>1. f[m] = dist[<<m, t>>] /\ f[n] = dist[<<n, t>>]
      BY <2>1
    <3>2. f[n] < f[m] \/ (f[n] = f[m] /\ n <= m)
      BY <1>5
    <3>3. QED
      BY <3>1, <3>2
  <2>3. QED
    BY <2>2
<1>7. /\ Nearest(nodes, t) \in nodes
      /\ \A m \in nodes : \/ dist[<<Nearest(nodes, t), t>>] < dist[<<m, t>>]
                          \/ /\ dist[<<Nearest(nodes, t), t>>] = dist[<<m, t>>]
                             /\ Nearest(nodes, t) <= m
  <2>1. \E l \in nodes : \A m \in nodes :
          \/ dist[<<l, t>>] < dist[<<m, t>>]
          \/ dist[<<l, t>>] = dist[<<m, t>>] /\ l <= m
    BY <1>6
  <2>2. QED
    BY <2>1 DEF Nearest
<1> HIDE DEF f
<1>8. QED
  BY <1>2, <1>7

LEMMA OneRemoved ==
  ASSUME NEW S, NEW s \in Seq(S), NEW n \in 1 .. Len(s)
  PROVE  /\ RemoveAt(s, n) \in Seq(S)
         /\ Range(RemoveAt(s, n)) \subseteq Range(s)
         /\ \A x \in Range(s) : x = s[n] \/ x \in Range(RemoveAt(s, n))
<1> DEFINE front == SubSeq(s, 1, n - 1)
           back == SubSeq(s, n + 1, Len(s))
<1>1. Len(s) \in Nat /\ DOMAIN s = 1 .. Len(s) /\ \A m \in 1 .. Len(s) : s[m] \in S
  BY LenProperties, ElementOfSeq
<1>2. front \in Seq(S) /\ Len(front) = n - 1 /\ \A m \in 1 .. n - 1 : front[m] = s[m]
  <2>1. \A m \in 1 .. n - 1 : s[m] \in S
    BY <1>1
  <2>2. 1 \in Int /\ n - 1 \in Int /\ (n - 1) - 1 + 1 = n - 1
    BY <1>1
  <2>3. /\ front \in Seq(S)
        /\ Len(front) = IF 1 <= n - 1 THEN (n - 1) - 1 + 1 ELSE 0
        /\ \A m \in 1 .. (n - 1) - 1 + 1 : front[m] = s[1 + m - 1]
    BY <2>1, <2>2, SubSeqProperties
  <2>4. \A m \in 1 .. n - 1 : 1 + m - 1 = m
    BY <1>1
  <2>5. ~(1 <= n - 1) => n - 1 = 0
    BY <1>1
  <2>6. QED
    BY <2>2, <2>3, <2>4, <2>5
<1>3. /\ back \in Seq(S) /\ Len(back) = Len(s) - n
      /\ \A m \in 1 .. Len(s) - n : back[m] = s[n + m]
  <2>1. \A m \in n + 1 .. Len(s) : s[m] \in S
    BY <1>1
  <2>2. n + 1 \in Int /\ Len(s) \in Int /\ Len(s) - (n + 1) + 1 = Len(s) - n
    BY <1>1
  <2>3. /\ back \in Seq(S)
        /\ Len(back) = IF n + 1 <= Len(s) THEN Len(s) - (n + 1) + 1 ELSE 0
        /\ \A m \in 1 .. Len(s) - (n + 1) + 1 : back[m] = s[(n + 1) + m - 1]
    BY <2>1, <2>2, SubSeqProperties
  <2>4. \A m \in 1 .. Len(s) - n : (n + 1) + m - 1 = n + m
    BY <1>1
  <2>5. ~(n + 1 <= Len(s)) => Len(s) - n = 0
    <3>1. \A N \in Nat : \A m \in 1 .. N : ~(m + 1 <= N) => N - m = 0
      OBVIOUS
    <3>2. QED
      BY <1>1, <3>1
  <2>6. QED
    BY <2>2, <2>3, <2>4, <2>5
<1>4. PICK left : left = RemoveAt(s, n)
  OBVIOUS
<1>5. left = front \o back
  BY <1>4 DEF RemoveAt
<1> HIDE DEF front, back
<1>6. /\ left \in Seq(S) /\ Len(left) = (n - 1) + (Len(s) - n)
      /\ \A m \in 1 .. (n - 1) + (Len(s) - n) :
           left[m] = IF m <= n - 1 THEN front[m] ELSE back[m - (n - 1)]
  <2>1. /\ left \in Seq(S) /\ Len(left) = Len(front) + Len(back)
        /\ \A m \in 1 .. Len(front) + Len(back) :
             left[m] = IF m <= Len(front) THEN front[m] ELSE back[m - Len(front)]
    BY <1>2, <1>3, <1>5, ConcatProperties
  <2>2. Len(front) = n - 1 /\ Len(back) = Len(s) - n
    BY <1>2, <1>3
  <2>3. QED
    BY <2>1, <2>2
<1>7. DOMAIN left = 1 .. Len(s) - 1
  <2>1. (n - 1) + (Len(s) - n) = Len(s) - 1
    BY <1>1
  <2>2. QED
    BY <1>6, <2>1, LenProperties
<1>8. ASSUME NEW m \in 1 .. Len(s) - 1
      PROVE  left[m] = IF m < n THEN s[m] ELSE s[m + 1]
  <2>1. m \in 1 .. (n - 1) + (Len(s) - n)
    BY <1>1
  <2>2. CASE m < n
    <3>1. m <= n - 1 /\ m \in 1 .. n - 1
      BY <1>1, <2>2
    <3>2. QED
      BY <1>2, <1>6, <2>1, <2>2, <3>1
  <2>3. CASE ~(m < n)
    <3>1. /\ ~(m <= n - 1) /\ m - (n - 1) \in 1 .. Len(s) - n
          /\ n + (m - (n - 1)) = m + 1
      BY <1>1, <2>3
    <3>2. back[m - (n - 1)] = s[n + (m - (n - 1))]
      BY <1>3, <3>1
    <3>3. QED
      BY <1>6, <2>1, <2>3, <3>1, <3>2
  <2>4. QED
    BY <2>2, <2>3
<1>9. Range(left) \subseteq Range(s)
  <2>1. ASSUME NEW m \in 1 .. Len(s) - 1 PROVE left[m] \in Range(s)
    <3>1. m \in 1 .. Len(s) /\ m + 1 \in 1 .. Len(s)
      BY <1>1
    <3>2. s[m] \in Range(s) /\ s[m + 1] \in Range(s)
      BY <1>1, <3>1 DEF Range
    <3>3. QED
      BY <1>8, <3>2
  <2>2. QED
    BY <1>7, <2>1 DEF Range
<1>10. ASSUME NEW m \in 1 .. Len(s) PROVE s[m] = s[n] \/ s[m] \in Range(left)
  <2>1. CASE m = n
    BY <2>1
  <2>2. CASE m < n
    <3>1. m \in 1 .. Len(s) - 1
      BY <1>1, <2>2
    <3>2. left[m] = s[m]
      BY <1>8, <2>2, <3>1
    <3>3. QED
      BY <1>7, <3>1, <3>2 DEF Range
  <2>3. CASE m > n
    <3>1. m - 1 \in 1 .. Len(s) - 1 /\ ~(m - 1 < n) /\ (m - 1) + 1 = m
      BY <1>1, <2>3
    <3>2. left[m - 1] = s[m]
      BY <1>8, <3>1
    <3>3. QED
      BY <1>7, <3>1, <3>2 DEF Range
  <2>4. QED
    BY <1>1, <2>1, <2>2, <2>3
<1>11. \A x \in Range(s) : x = s[n] \/ x \in Range(left)
  BY <1>1, <1>10 DEF Range
<1>12. QED
  BY <1>4, <1>6, <1>9, <1>11

-----------------------------------------------------------------------------
(* The invariant of the call. *)

(* Types, while a call is in progress and between two calls. *)
CallOK ==
  /\ root \in 0 .. NQ
  /\ root = NQ => terminals = <<>>
  /\ root # NQ =>
       /\ Computed
       /\ wanted \in SUBSET Qubits
       /\ terminals \in Seq(Qubits) /\ Range(terminals) \subseteq wanted
       /\ vertex_cost \in [Qubits -> Nat]
       /\ edge_in \in [Qubits -> Qubits]
       /\ in_tree \in SUBSET Qubits
       /\ tree \in Seq(Pairs)

InOrder == root # NQ => IsTopological(root, tree, in_tree)

(* Each terminal waits to be attached from a node of the tree, at the cost *)
(* of the way from there, which is not more than that from the root: if    *)
(* there is no way from there, there is none from the root.                *)
CostsRight ==
  root # NQ =>
    \A t \in Range(terminals) :
      /\ edge_in[t] \in in_tree
      /\ vertex_cost[t] = dist[<<edge_in[t], t>>]
      /\ vertex_cost[t] <= dist[<<root, t>>]

(* No terminal is forgotten. *)
AllWanted ==
  root # NQ =>
    \A t \in wanted :
      t \in Range(terminals) \/ t \in in_tree \/ dist[<<root, t>>] >= Infinite

(* Branches end in terminals. *)
EndsIn(edges, ends) ==
  \A n \in 1 .. Len(edges) :
    edges[n][2] \in ends \/ \E m \in 1 .. Len(edges) : edges[m][1] = edges[n][2]

LeavesWanted == root # NQ => EndsIn(tree, wanted)

TreeInv == CallOK /\ InOrder /\ CostsRight /\ AllWanted /\ LeavesWanted

LEMMA BranchEnds ==
  ASSUME NEW edges \in Seq(Pairs), NEW part, NEW nodes, NEW end, NEW ends,
         IsBranch(part, nodes, end), Len(part) = 1 \/ end \in ends,
         EndsIn(edges, ends)
  PROVE  EndsIn(edges \o Edges(part), ends)
<1> DEFINE L == Len(edges)
           P == Len(part)
<1>1. PICK new : new = edges \o Edges(part)
  OBVIOUS
<1>2. /\ L \in Nat /\ P \in Nat \ {0} /\ Len(new) = L + P - 1
      /\ \A n \in 1 .. L : new[n] = edges[n]
      /\ \A n \in 1 .. P - 1 : new[L + n] = <<part[n], part[n + 1]>>
  <2>1. part \in Seq(Qubits) /\ P \in Nat \ {0}
    BY DEF IsBranch
  <2>2. QED
    BY <1>1, <2>1, EdgesAppended
<1>3. ASSUME NEW n \in 1 .. Len(new)
      PROVE  new[n][2] \in ends \/ \E m \in 1 .. Len(new) : new[m][1] = new[n][2]
  <2>1. CASE n <= L
    <3>1. n \in 1 .. L /\ new[n] = edges[n]
      BY <1>2, <2>1
    <3>2. SUFFICES ASSUME NEW m \in 1 .. L, edges[m][1] = edges[n][2]
                   PROVE  \E l \in 1 .. Len(new) : new[l][1] = new[n][2]
      BY <3>1 DEF EndsIn
    <3>3. m \in 1 .. Len(new) /\ new[m] = edges[m]
      BY <1>2
    <3>4. QED
      BY <3>1, <3>2, <3>3
  <2>2. CASE n > L
    <3>1. PICK l \in 1 .. P - 1 : n = L + l
      <4>1. n - L \in 1 .. P - 1 /\ n = L + (n - L)
        BY <1>2, <2>2
      <4>2. QED
        BY <4>1
    <3>2. new[n] = <<part[l], part[l + 1]>>
      BY <1>2, <3>1
    <3>3. CASE l = P - 1
      <4>1. P # 1 /\ l + 1 = P
        BY <1>2, <3>3
      <4>2. part[l + 1] = end /\ end \in ends
        BY <4>1 DEF IsBranch
      <4>3. QED
        BY <3>2, <4>2
    <3>4. CASE l # P - 1
      <4>1. l + 1 \in 1 .. P - 1 /\ L + (l + 1) \in 1 .. Len(new)
        BY <1>2, <3>4
      <4>2. new[L + (l + 1)] = <<part[l + 1], part[(l + 1) + 1]>>
        BY <1>2, <4>1
      <4>3. new[L + (l + 1)][1] = new[n][2]
        BY <3>2, <4>2
      <4>4. QED
        BY <4>1, <4>3
    <3>5. QED
      BY <3>3, <3>4
  <2>3. QED
    BY <1>2, <2>1, <2>2
<1>4. EndsIn(new, ends)
  BY <1>3 DEF EndsIn
<1>5. QED
  BY <1>1, <1>4

-----------------------------------------------------------------------------
(* One iteration of the while loop. *)

(* The terminal c leaves the list, the branch part is added to the tree,   *)
(* and the others are to be attached from it where that is cheaper.  The   *)
(* branch ends in c, unless c cannot be reached from the root.             *)
Attached(c, part, left) ==
  /\ terminals' = left
  /\ tree' = tree \o Edges(part)
  /\ in_tree' = in_tree \cup Range(part)
  /\ c \in Range(terminals)
  /\ IsBranch(part, in_tree, part[Len(part)])
  /\ part[Len(part)] = c \/ (Len(part) = 1 /\ dist[<<root, c>>] >= Infinite)
  /\ left \in Seq(Qubits) /\ Range(left) \subseteq Range(terminals)
  /\ \A t \in Range(terminals) : t = c \/ t \in Range(left)
  /\ vertex_cost' \in [Qubits -> Nat] /\ edge_in' \in [Qubits -> Qubits]
  /\ \A t \in Range(left) :
       \/ vertex_cost'[t] = vertex_cost[t] /\ edge_in'[t] = edge_in[t]
       \/ /\ edge_in'[t] \in Range(part)
          /\ vertex_cost'[t] = dist[<<edge_in'[t], t>>]
          /\ vertex_cost'[t] < vertex_cost[t]

LEMMA BranchInQubits ==
  ASSUME NEW part, NEW nodes, NEW end, IsBranch(part, nodes, end)
  PROVE  Range(part) \in SUBSET Qubits /\ part[Len(part)] \in Range(part) /\ part[1] \in Range(part)
<1>1. part \in Seq(Qubits) /\ Len(part) \in Nat \ {0} /\ DOMAIN part = 1 .. Len(part)
  BY LenProperties DEF IsBranch
<1>2. \A n \in 1 .. Len(part) : part[n] \in Qubits
  BY <1>1, ElementOfSeq
<1>3. Len(part) \in 1 .. Len(part) /\ 1 \in 1 .. Len(part)
  BY <1>1
<1>4. QED
  BY <1>1, <1>2, <1>3 DEF Range

LEMMA RootIsQubit ==
  ASSUME CallOK, root # NQ
  PROVE  root \in Qubits
BY SizeAssumption DEF CallOK, Qubits

LEMMA AttachFacts ==
  ASSUME TableInv, RankInv, CallOK, CostsRight, Attach, root # NQ
  PROVE  \E c, part, left : Attached(c, part, left)
<1> DEFINE k == MinNode
<1>1. /\ Computed /\ terminals \in Seq(Qubits) /\ vertex_cost \in [Qubits -> Nat]
      /\ edge_in \in [Qubits -> Qubits] /\ in_tree \in SUBSET Qubits
      /\ root \in Qubits /\ terminals # <<>>
  BY RootIsQubit DEF CallOK, Attach
<1>2. dist \in [Pairs -> Nat] /\ Infinite \in Nat
  BY CostAssumption DEF TableInv, TableOK
<1>3. k \in 1 .. Len(terminals)
  BY <1>1, MinNodeOnList
<1>4. PICK c : c = terminals[k]
  OBVIOUS
<1>5. c \in Qubits /\ c \in Range(terminals)
  <2>1. DOMAIN terminals = 1 .. Len(terminals)
    BY <1>1, LenProperties
  <2>2. QED
    BY <1>1, <1>3, <1>4, <2>1, ElementOfSeq DEF Range
<1>6. PICK from : from = edge_in[c]
  OBVIOUS
<1>7. from \in in_tree /\ from \in Qubits /\ dist[<<from, c>>] <= dist[<<root, c>>]
  BY <1>1, <1>5, <1>6 DEF CostsRight
<1>8. PICK path : path = PathTo(from, c)
  OBVIOUS
<1>9. IsWalk(path, from, c)
  BY <1>1, <1>5, <1>7, <1>8, PathToWalks
<1>10. PICK part : part = NewPart(path)
  OBVIOUS
<1>11. PICK end : end = path[Len(path)]
  OBVIOUS
<1>12. IsBranch(part, in_tree, end)
  BY <1>7, <1>9, <1>10, <1>11, NewPartIsBranch
<1>13. part[Len(part)] = end
  BY <1>12 DEF IsBranch
<1>14. end = c \/ (Len(part) = 1 /\ dist[<<root, c>>] >= Infinite)
  <2>1. SUFFICES ASSUME Len(path) = 1, dist[<<from, c>>] = Infinite
                 PROVE  Len(part) = 1 /\ dist[<<root, c>>] >= Infinite
    BY <1>9, <1>11 DEF IsWalk
  <2>2. end \in in_tree
    BY <1>7, <1>9, <1>11, <2>1 DEF IsWalk
  <2>3. Len(part) \notin 2 .. Len(part)
    BY <1>12, <1>13, <2>2 DEF IsBranch
  <2>4. Len(part) = 1
    <3>1. Len(part) \in Nat \ {0}
      BY <1>12 DEF IsBranch
    <3>2. \A N \in Nat \ {0} : N \notin 2 .. N => N = 1
      OBVIOUS
    <3>3. QED
      BY <2>3, <3>1, <3>2
  <2>5. dist[<<root, c>>] \in Nat
    BY <1>1, <1>2, <1>5 DEF Pairs
  <2>6. QED
    BY <1>2, <1>7, <2>1, <2>4, <2>5
<1>15. PICK left : left = RemoveAt(terminals, k)
  OBVIOUS
<1>16. /\ left \in Seq(Qubits) /\ Range(left) \subseteq Range(terminals)
       /\ \A t \in Range(terminals) : t = c \/ t \in Range(left)
  <2> HIDE DEF k
  <2>1. QED
    BY <1>1, <1>3, <1>4, <1>15, OneRemoved
<1> DEFINE Closer(q) == \E node \in Range(part) : dist[<<node, q>>] < vertex_cost[q]
           near(q) == Nearest(Range(part), q)
<1>17. /\ terminals' = left
       /\ tree' = tree \o Edges(part)
       /\ in_tree' = in_tree \cup Range(part)
       /\ vertex_cost' = [q \in Qubits |->
            IF q \in Range(left) /\ Closer(q) THEN dist[<<near(q), q>>] ELSE vertex_cost[q]]
       /\ edge_in' = [q \in Qubits |->
            IF q \in Range(left) /\ Closer(q) THEN near(q) ELSE edge_in[q]]
  BY <1>4, <1>6, <1>8, <1>10, <1>15 DEF Attach
<1>18. Range(part) \in SUBSET Qubits /\ Range(part) # {}
  BY <1>12, BranchInQubits
<1>19. ASSUME NEW q \in Qubits
       PROVE  /\ near(q) \in Range(part) /\ near(q) \in Qubits
              /\ dist[<<near(q), q>>] \in Nat
              /\ Closer(q) => dist[<<near(q), q>>] < vertex_cost[q]
  <2>1. /\ near(q) \in Range(part)
        /\ \A m \in Range(part) : dist[<<near(q), q>>] <= dist[<<m, q>>]
    BY <1>2, <1>18, NearestIsNear
  <2> HIDE DEF near
  <2>2. near(q) \in Qubits
    BY <1>18, <2>1
  <2>3. \A m \in Qubits : dist[<<m, q>>] \in Nat
    BY <1>2 DEF Pairs
  <2>4. ASSUME NEW m \in Range(part), dist[<<m, q>>] < vertex_cost[q]
        PROVE  dist[<<near(q), q>>] < vertex_cost[q]
    <3>1. dist[<<near(q), q>>] <= dist[<<m, q>>] /\ m \in Qubits
      BY <1>18, <2>1
    <3>2. dist[<<m, q>>] \in Nat /\ dist[<<near(q), q>>] \in Nat /\ vertex_cost[q] \in Nat
      BY <1>1, <2>2, <2>3, <3>1
    <3>3. QED
      BY <2>4, <3>1, <3>2
  <2>5. QED
    BY <2>1, <2>2, <2>3, <2>4
<1> HIDE DEF Closer, near
<1>20. vertex_cost' \in [Qubits -> Nat] /\ edge_in' \in [Qubits -> Qubits]
  BY <1>1, <1>17, <1>19
<1>21. ASSUME NEW t \in Range(left)
       PROVE  \/ vertex_cost'[t] = vertex_cost[t] /\ edge_in'[t] = edge_in[t]
              \/ /\ edge_in'[t] \in Range(part)
                 /\ vertex_cost'[t] = dist[<<edge_in'[t], t>>]
                 /\ vertex_cost'[t] < vertex_cost[t]
  <2>1. t \in Qubits
    <3>1. Range(terminals) \in SUBSET Qubits
      BY DEF CallOK
    <3>2. QED
      BY <1>16, <3>1
  <2>2. CASE Closer(t)
    <3>1. vertex_cost'[t] = dist[<<near(t), t>>] /\ edge_in'[t] = near(t)
      BY <1>17, <1>21, <2>1, <2>2
    <3>2. near(t) \in Range(part) /\ dist[<<near(t), t>>] < vertex_cost[t]
      BY <1>19, <2>1, <2>2
    <3>3. QED
      BY <3>1, <3>2
  <2>3. CASE ~Closer(t)
    BY <1>17, <2>1, <2>3
  <2>4. QED
    BY <2>2, <2>3
<1>22. Attached(c, part, left)
  BY <1>5, <1>12, <1>13, <1>14, <1>16, <1>17, <1>20, <1>21 DEF Attached
<1>23. QED
  BY <1>22

(* Attach keeps the invariant. *)
LEMMA AttachTree ==
  ASSUME TableInv, RankInv, TreeInv, Attach
  PROVE  TreeInv'
<1>1. root' = root /\ wanted' = wanted /\ UNCHANGED vars
  BY DEF Attach
<1>2. /\ dist' = dist /\ at' = at /\ couplings' = couplings
      /\ Computed' = Computed
      /\ \A a, b : Linked(a, b)' = Linked(a, b)
  BY <1>1 DEF vars, Computed, Linked
<1>3. root # NQ
  BY DEF TreeInv, CallOK, Attach
<1>4. PICK c, part, left : Attached(c, part, left)
  BY <1>3, AttachFacts DEF TreeInv
<1>5. /\ Computed /\ wanted \in SUBSET Qubits /\ terminals \in Seq(Qubits)
      /\ Range(terminals) \subseteq wanted /\ vertex_cost \in [Qubits -> Nat]
      /\ edge_in \in [Qubits -> Qubits] /\ in_tree \in SUBSET Qubits /\ tree \in Seq(Pairs)
      /\ root \in Qubits /\ root \in 0 .. NQ
  BY <1>3, RootIsQubit DEF TreeInv, CallOK
<1>6. dist \in [Pairs -> Nat] /\ Infinite \in Nat
  BY CostAssumption DEF TableInv, TableOK
<1>7. Range(part) \in SUBSET Qubits /\ part[Len(part)] \in Range(part)
  BY <1>4, BranchInQubits DEF Attached
<1>8. CallOK'
  <2>1. part \in Seq(Qubits) /\ Len(part) \in Nat \ {0}
    BY <1>4 DEF Attached, IsBranch
  <2>2. tree' \in Seq(Pairs)
    <3>1. tree \o Edges(part) \in Seq(Pairs)
      BY <1>5, <2>1, EdgesAppended
    <3>2. QED
      BY <1>4, <3>1 DEF Attached
  <2>3. /\ terminals' \in Seq(Qubits) /\ Range(terminals') \subseteq wanted'
        /\ vertex_cost' \in [Qubits -> Nat] /\ edge_in' \in [Qubits -> Qubits]
    BY <1>1, <1>4, <1>5 DEF Attached
  <2>4. in_tree' \in SUBSET Qubits
    BY <1>4, <1>5, <1>7 DEF Attached
  <2>5. QED
    BY <1>1, <1>2, <1>3, <1>5, <2>2, <2>3, <2>4 DEF CallOK
<1>9. InOrder'
  <2>1. IsTopological(root, tree, in_tree)
    BY <1>3 DEF TreeInv, InOrder
  <2>2. IsBranch(part, in_tree, part[Len(part)])
    BY <1>4 DEF Attached
  <2>3. IsTopological(root, tree \o Edges(part), in_tree \cup Range(part))
    <3>1. PICK edges \in Seq(Pairs) : edges = tree
      BY <1>5
    <3>2. PICK r, nodes, end : r = root /\ nodes = in_tree /\ end = part[Len(part)]
      OBVIOUS
    <3>3. IsTopological(r, edges, nodes) /\ IsBranch(part, nodes, end)
      BY <2>1, <2>2, <3>1, <3>2
    <3>4. IsTopological(r, edges \o Edges(part), nodes \cup Range(part))
      BY <3>3, TreeGrows
    <3>5. QED
      BY <3>1, <3>2, <3>4
  <2>4. IsTopological(root, tree', in_tree')
    BY <1>4, <2>3 DEF Attached
  <2>5. QED
    BY <1>1, <1>2, <2>4 DEF InOrder, IsTopological, KidsOf
<1>10. CostsRight'
  <2>1. ASSUME NEW t \in Range(left)
        PROVE  /\ edge_in'[t] \in in_tree'
               /\ vertex_cost'[t] = dist[<<edge_in'[t], t>>]
               /\ vertex_cost'[t] <= dist[<<root, t>>]
    <3>1. t \in Range(terminals) /\ t \in Qubits /\ in_tree' = in_tree \cup Range(part)
      BY <1>4, <1>5 DEF Attached
    <3>2. /\ edge_in[t] \in in_tree
          /\ vertex_cost[t] = dist[<<edge_in[t], t>>]
          /\ vertex_cost[t] <= dist[<<root, t>>]
      BY <1>3, <3>1 DEF TreeInv, CostsRight
    <3>3. CASE vertex_cost'[t] = vertex_cost[t] /\ edge_in'[t] = edge_in[t]
      BY <3>1, <3>2, <3>3
    <3>4. CASE /\ edge_in'[t] \in Range(part)
               /\ vertex_cost'[t] = dist[<<edge_in'[t], t>>]
               /\ vertex_cost'[t] < vertex_cost[t]
      <4>1. /\ vertex_cost'[t] \in Nat /\ vertex_cost[t] \in Nat /\ dist[<<root, t>>] \in Nat
        BY <1>4, <1>5, <1>6, <3>1 DEF Attached, Pairs
      <4>2. vertex_cost'[t] <= dist[<<root, t>>]
        BY <3>2, <3>4, <4>1
      <4>3. QED
        BY <3>1, <3>4, <4>2
    <3>5. QED
      BY <1>4, <3>3, <3>4 DEF Attached
  <2>2. terminals' = left
    BY <1>4 DEF Attached
  <2>3. QED
    BY <1>1, <1>2, <2>1, <2>2 DEF CostsRight
<1>11. AllWanted'
  <2>1. ASSUME NEW t \in wanted
        PROVE  t \in Range(left) \/ t \in in_tree' \/ dist[<<root, t>>] >= Infinite
    <3>1. t \in Range(terminals) \/ t \in in_tree \/ dist[<<root, t>>] >= Infinite
      BY <1>3 DEF TreeInv, AllWanted
    <3>2. in_tree' = in_tree \cup Range(part)
      BY <1>4 DEF Attached
    <3>3. CASE t \in Range(terminals)
      <4>1. t = c \/ t \in Range(left)
        BY <1>4, <3>3 DEF Attached
      <4>2. part[Len(part)] = c \/ dist[<<root, c>>] >= Infinite
        BY <1>4 DEF Attached
      <4>3. QED
        BY <1>7, <3>2, <4>1, <4>2
    <3>4. QED
      BY <3>1, <3>2, <3>3
  <2>2. terminals' = left
    BY <1>4 DEF Attached
  <2>3. QED
    BY <1>1, <1>2, <2>1, <2>2 DEF AllWanted
<1>12. LeavesWanted'
  <2>1. EndsIn(tree, wanted)
    BY <1>3 DEF TreeInv, LeavesWanted
  <2>2. IsBranch(part, in_tree, part[Len(part)])
    BY <1>4 DEF Attached
  <2>3. Len(part) = 1 \/ part[Len(part)] \in wanted
    BY <1>4, <1>5 DEF Attached
  <2>4. EndsIn(tree \o Edges(part), wanted)
    <3>1. PICK edges \in Seq(Pairs) : edges = tree
      BY <1>5
    <3>2. PICK ends, nodes, end : ends = wanted /\ nodes = in_tree /\ end = part[Len(part)]
      OBVIOUS
    <3>3. EndsIn(edges, ends) /\ IsBranch(part, nodes, end) /\ (Len(part) = 1 \/ end \in ends)
      BY <2>1, <2>2, <2>3, <3>1, <3>2
    <3>4. EndsIn(edges \o Edges(part), ends)
      BY <3>3, BranchEnds
    <3>5. QED
      BY <3>1, <3>2, <3>4
  <2>5. tree' = tree \o Edges(part)
    BY <1>4 DEF Attached
  <2>6. QED
    BY <1>1, <2>4, <2>5 DEF LeavesWanted, EndsIn
<1>13. QED
  BY <1>8, <1>9, <1>10, <1>11, <1>12 DEF TreeInv

-----------------------------------------------------------------------------
(* The other actions. *)

LEMMA NobodyWaits ==
  Range(<<>>) = {} /\ Len(<<>>) = 0
BY DEF Range

LEMMA StartedTree ==
  ASSUME TableInv, NEW r \in Qubits, NEW list \in Ascending(Qubits \ {r}), StartTree(r, list)
  PROVE  TreeInv'
<1>1. NQ \in Nat \ {0} /\ r # NQ /\ r \in 0 .. NQ
  BY SizeAssumption DEF Qubits
<1>2. list \in Seq(Qubits) /\ Range(list) \in SUBSET Qubits
  <2>1. PICK m \in 0 .. NQ : list \in [1 .. m -> Qubits \ {r}]
    BY DEF Ascending, SeqOf
  <2>2. m \in Nat /\ list \in [1 .. m -> Qubits]
    BY <1>1, <2>1
  <2>3. list \in Seq(Qubits)
    BY <2>2
  <2>4. QED
    BY <2>2, <2>3 DEF Range
<1>3. /\ Computed' /\ root' = r /\ wanted' = Range(list) /\ terminals' = list
      /\ in_tree' = {r} /\ tree' = <<>> /\ dist' = dist
      /\ vertex_cost' = [q \in Qubits |-> IF q \in Range(list) THEN dist[<<r, q>>] ELSE 0]
      /\ edge_in' = [q \in Qubits |-> IF q \in Range(list) THEN r ELSE 0]
  BY DEF StartTree, vars, Computed
<1>4. \A q \in Qubits : dist[<<r, q>>] \in Nat
  BY DEF TableInv, TableOK, Pairs
<1>5. vertex_cost' \in [Qubits -> Nat] /\ edge_in' \in [Qubits -> Qubits]
  <2>1. 0 \in Qubits /\ 0 \in Nat
    BY <1>1 DEF Qubits
  <2>2. QED
    BY <1>3, <1>4, <2>1
<1>6. CallOK'
  <2>1. <<>> \in Seq(Pairs)
    OBVIOUS
  <2>2. QED
    BY <1>1, <1>2, <1>3, <1>5, <2>1 DEF CallOK
<1>7. InOrder'
  <2>1. KidsOf(<<>>, 0) = {} /\ 1 .. 0 = {}
    BY DEF KidsOf
  <2>2. {r} = {r} \cup KidsOf(<<>>, 0)
    BY <2>1
  <2>3. IsTopological(r, <<>>, {r})'
    BY <2>1, <2>2, NobodyWaits DEF IsTopological
  <2>4. QED
    BY <1>3, <2>3 DEF InOrder
<1>8. CostsRight'
  <2>1. ASSUME NEW t \in Range(list)
        PROVE  edge_in'[t] = r /\ vertex_cost'[t] = dist[<<r, t>>] /\ dist[<<r, t>>] \in Nat
    BY <1>2, <1>3, <1>4
  <2>2. \A t \in Range(list) : dist[<<r, t>>] <= dist[<<r, t>>]
    BY <2>1
  <2>3. QED
    BY <1>3, <2>1, <2>2 DEF CostsRight
<1>9. AllWanted'
  BY <1>3 DEF AllWanted
<1>10. LeavesWanted'
  <2>1. EndsIn(<<>>, Range(list))
    BY NobodyWaits DEF EndsIn
  <2>2. QED
    BY <1>3, <2>1 DEF LeavesWanted
<1>11. QED
  BY <1>6, <1>7, <1>8, <1>9, <1>10 DEF TreeInv

LEMMA NoTree ==
  ASSUME root' = NQ, terminals' = <<>>
  PROVE  TreeInv'
<1>1. NQ \in 0 .. NQ
  BY SizeAssumption
<1>2. QED
  BY <1>1 DEF TreeInv, CallOK, InOrder, CostsRight, AllWanted, LeavesWanted

(* Between two calls anything may happen; during one, only what leaves the *)
(* table as it is.                                                         *)
LEMMA TreeUntouched ==
  ASSUME TreeInv, UNCHANGED call,
         root = NQ \/ UNCHANGED <<couplings, dist, at>>
  PROVE  TreeInv'
<1>1. /\ root' = root /\ wanted' = wanted /\ terminals' = terminals
      /\ vertex_cost' = vertex_cost /\ edge_in' = edge_in
      /\ in_tree' = in_tree /\ tree' = tree
  BY DEF call
<1>2. CASE root = NQ
  <2>1. terminals = <<>>
    BY <1>2 DEF TreeInv, CallOK
  <2>2. QED
    BY <1>1, <1>2, <2>1, NoTree
<1>3. CASE UNCHANGED <<couplings, dist, at>>
  <2>1. dist' = dist /\ Computed' = Computed
    BY <1>3 DEF Computed
  <2>2. \A a, b : Linked(a, b)' = Linked(a, b)
    BY <1>3 DEF Linked
  <2>3. CallOK'
    BY <1>1, <2>1 DEF TreeInv, CallOK
  <2>4. InOrder'
    BY <1>1, <2>2 DEF TreeInv, InOrder, IsTopological, KidsOf
  <2>5. CostsRight' /\ AllWanted' /\ LeavesWanted'
    BY <1>1, <2>1 DEF TreeInv, CostsRight, AllWanted, LeavesWanted, EndsIn
  <2>6. QED
    BY <2>3, <2>4, <2>5 DEF TreeInv
<1>4. QED
  BY <1>2, <1>3

LEMMA TreeStep ==
  ASSUME TableInv, RankInv, TreeInv, [SteinerNext]_svars
  PROVE  TreeInv'
<1>1. CASE ComputeTable
  <2>1. root = NQ
    BY <1>1 DEF ComputeTable, Relax, TreeInv, CallOK
  <2>2. QED
    BY <1>1, <2>1, TreeUntouched DEF ComputeTable
<1>2. CASE AskPath
  <2>1. UNCHANGED <<couplings, dist, at>> /\ UNCHANGED call
    BY <1>2 DEF AskPath, StartPath
  <2>2. QED
    BY <2>1, TreeUntouched
<1>3. CASE FollowPath
  <2>1. UNCHANGED <<couplings, dist, at>> /\ UNCHANGED call
    BY <1>3 DEF FollowPath, Hop
  <2>2. QED
    BY <2>1, TreeUntouched
<1>4. CASE ReturnPath
  <2>1. UNCHANGED <<couplings, dist, at>> /\ UNCHANGED call
    BY <1>4 DEF ReturnPath, Return
  <2>2. QED
    BY <2>1, TreeUntouched
<1>5. ASSUME NEW r \in Qubits, NEW list \in Ascending(Qubits \ {r}), StartTree(r, list)
      PROVE  TreeInv'
  BY <1>5, StartedTree
<1>6. CASE Attach
  BY <1>6, AttachTree
<1>7. CASE ReturnTree
  <2>1. root' = NQ /\ terminals' = <<>>
    BY <1>7 DEF ReturnTree
  <2>2. QED
    BY <2>1, NoTree
<1>8. CASE UNCHANGED svars
  <2>1. UNCHANGED <<couplings, dist, at>> /\ UNCHANGED call
    BY <1>8 DEF svars, vars
  <2>2. QED
    BY <2>1, TreeUntouched
<1>9. QED
  BY <1>1, <1>2, <1>3, <1>4, <1>5, <1>6, <1>7, <1>8 DEF SteinerNext

-----------------------------------------------------------------------------
(* What SteinerTree does to the tables and to the path of a query is what  *)
(* ShortestPaths allows, so its theorems hold of the two together:         *)
(* building trees never disturbs Device::distance and shortest_path.       *)
THEOREM TreesLeaveTheTables == SteinerSpec => Spec
<1>1. SteinerInit => Init
  BY DEF SteinerInit
<1>2. [SteinerNext]_svars => [Next]_vars
  <2> SUFFICES ASSUME [SteinerNext]_svars PROVE [Next]_vars
    OBVIOUS
  <2>1. CASE ComputeTable
    BY <2>1 DEF ComputeTable, Next
  <2>2. CASE AskPath
    BY <2>2 DEF AskPath, Next
  <2>3. CASE FollowPath
    BY <2>3 DEF FollowPath, Next
  <2>4. CASE ReturnPath
    BY <2>4 DEF ReturnPath, Next
  <2>5. ASSUME NEW r \in Qubits, NEW list \in Ascending(Qubits \ {r}), StartTree(r, list)
        PROVE  UNCHANGED vars
    BY <2>5 DEF StartTree
  <2>6. CASE Attach
    BY <2>6 DEF Attach
  <2>7. CASE ReturnTree
    BY <2>7 DEF ReturnTree
  <2>8. CASE UNCHANGED svars
    BY <2>8 DEF svars
  <2>9. QED
    BY <2>1, <2>2, <2>3, <2>4, <2>5, <2>6, <2>7, <2>8 DEF SteinerNext
<1>3. QED
  BY <1>1, <1>2, PTL DEF SteinerSpec, Spec

LEMMA TableAndRank ==
  ASSUME CostsBelowInfinite
  PROVE  Spec => [](TableInv /\ RankInv)
<1>1. Spec => []TableInv
  BY TableConsistent
<1>2. Init => RankInv
  BY InitRank
<1>3. TableInv /\ RankInv /\ [Next]_vars => RankInv'
  BY RankStep
<1>4. QED
  BY <1>1, <1>2, <1>3, PTL DEF Spec

LEMMA TreeInvariant ==
  ASSUME CostsBelowInfinite
  PROVE  SteinerSpec => []TreeInv
<1>1. SteinerInit => TreeInv
  <2> SUFFICES ASSUME SteinerInit PROVE TreeInv
    OBVIOUS
  <2>1. root = NQ /\ terminals = <<>> /\ NQ \in 0 .. NQ
    BY SizeAssumption DEF SteinerInit, NoCall
  <2>2. QED
    BY <2>1 DEF TreeInv, CallOK, InOrder, CostsRight, AllWanted, LeavesWanted
<1>2. TableInv /\ RankInv /\ TreeInv /\ [SteinerNext]_svars => TreeInv'
  BY TreeStep
<1>3. SteinerSpec => [](TableInv /\ RankInv)
  BY TreesLeaveTheTables, TableAndRank, PTL
<1>4. QED
  BY <1>1, <1>2, <1>3, PTL DEF SteinerSpec

(* Whatever the device and the terminals, the edges that steiner has       *)
(* inserted are couplings, and form a tree that lists each node after its  *)
(* parent, after every iteration.                                          *)
THEOREM TreesAreTopological ==
  ASSUME CostsBelowInfinite
  PROVE  SteinerSpec => []TopologicalTree
<1>1. TreeInv => TopologicalTree
  <2> SUFFICES ASSUME TreeInv, root # NQ PROVE TopologicalTree
    BY DEF TopologicalTree
  <2>1. tree \in Seq(Pairs) /\ IsTopological(root, tree, in_tree)
    BY DEF TreeInv, CallOK, InOrder
  <2>2. DOMAIN tree = 1 .. Len(tree)
    BY <2>1, LenProperties
  <2>3. \A n : Children(n) = KidsOf(tree, n)
    BY DEF Children, KidsOf
  <2>4. QED
    BY <2>1, <2>2, <2>3 DEF TopologicalTree, IsTopological
<1>2. SteinerSpec => []TreeInv
  BY TreeInvariant
<1>3. QED
  BY <1>1, <1>2, PTL

(* When the call returns, every terminal that can be reached from the root *)
(* is in the tree, and the tree has no branch that ends anywhere else.     *)
THEOREM TreesSpan ==
  ASSUME CostsBelowInfinite
  PROVE  SteinerSpec => []SpansTerminals
<1>1. TableInv /\ TreeInv => SpansTerminals
  <2> SUFFICES ASSUME TableInv, TreeInv, root # NQ, terminals = <<>> PROVE SpansTerminals
    BY DEF SpansTerminals
  <2>1. /\ tree \in Seq(Pairs) /\ wanted \in SUBSET Qubits /\ root \in Qubits
        /\ EndsIn(tree, wanted)
    BY RootIsQubit DEF TreeInv, CallOK, LeavesWanted
  <2>2. DOMAIN tree = 1 .. Len(tree)
    BY <2>1, LenProperties
  <2>3. ASSUME NEW t \in wanted, dist[<<root, t>>] < Infinite
        PROVE  t \in in_tree
    <3>1. t \notin Range(terminals)
      BY NobodyWaits
    <3>2. dist[<<root, t>>] \in Nat /\ Infinite \in Nat
      BY <2>1, CostAssumption DEF TableInv, TableOK, Pairs
    <3>3. t \in in_tree \/ dist[<<root, t>>] >= Infinite
      BY <3>1 DEF TreeInv, AllWanted
    <3>4. QED
      BY <2>3, <3>2, <3>3
  <2>4. QED
    BY <2>1, <2>2, <2>3 DEF SpansTerminals, EndsIn
<1>2. SteinerSpec => []TreeInv
  BY TreeInvariant
<1>3. SteinerSpec => [](TableInv /\ RankInv)
  BY TreesLeaveTheTables, TableAndRank, PTL
<1>4. QED
  BY <1>1, <1>2, <1>3, PTL

=============================================================================
