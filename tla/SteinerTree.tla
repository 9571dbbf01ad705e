---------------------------- MODULE SteinerTree ----------------------------
(***************************************************************************)
(* Device::steiner and add_to_tree (mapping/device.hpp): the tree of       *)
(* couplings along which the synthesis of CNOTs gathers parities.          *)
(*                                                                         *)
(* The terminal that is cheapest to reach is attached to the tree by the   *)
(* tail of a shortest path from the tree node it is cheapest to reach      *)
(* from, and the costs of the others are brought up to date, until every   *)
(* terminal is attached.  The tables it reads are those ShortestPaths has  *)
(* filled.                                                                 *)
(***************************************************************************)
EXTENDS ShortestPaths, FiniteSetsExt, SequencesExt

VARIABLES
  root,         \* argument of the call; NQ between two calls
  wanted,       \* the set of terminals the call was given
  terminals,    \* those not yet attached, in the order of the list
  vertex_cost,  \* cost of attaching each terminal
  edge_in,      \* the tree node to attach it from
  in_tree,      \* nodes of the tree
  tree          \* ret: its edges <<parent, child>>

call  == <<root, wanted, terminals, vertex_cost, edge_in, in_tree, tree>>
svars == <<vars, call>>

NoCall ==
  /\ root = NQ
  /\ wanted = {}
  /\ terminals = <<>>
  /\ vertex_cost = [q \in Qubits |-> 0]
  /\ edge_in = [q \in Qubits |-> 0]
  /\ in_tree = {}
  /\ tree = <<>>

SteinerInit == Init /\ NoCall

ComputeTable == Relax /\ UNCHANGED call

(* shortest_path and distance, between two calls of steiner *)
AskPath    == root = NQ /\ (\E i, j \in Qubits : StartPath(i, j)) /\ UNCHANGED call
FollowPath == Hop /\ UNCHANGED call
ReturnPath == Return /\ UNCHANGED call

(* The callers list the terminals in increasing order and never name the   *)
(* root among them.                                                        *)
Ascending(set) ==
  {list \in SeqOf(set, NQ) : \A m, n \in DOMAIN list : m < n => list[m] < list[n]}

(* steiner(list, r) *)
StartTree(r, list) ==
  /\ Computed
  /\ root = NQ /\ walk = <<>>
  /\ root' = r
  /\ wanted' = Range(list)
  /\ terminals' = list
  /\ vertex_cost' = [q \in Qubits |-> IF q \in Range(list) THEN dist[<<r, q>>] ELSE 0]
  /\ edge_in' = [q \in Qubits |-> IF q \in Range(list) THEN r ELSE 0]
  /\ in_tree' = {r}
  /\ tree' = <<>>
  /\ UNCHANGED vars

(* min_node: the first terminal of the list that costs least *)
MinNode ==
  LET Cost(n) == vertex_cost[terminals[n]]
  IN  CHOOSE n \in DOMAIN terminals :
        \A m \in DOMAIN terminals :
          Cost(n) < Cost(m) \/ (Cost(n) = Cost(m) /\ n <= m)

(* shortest_path(i, j), as a whole *)
PathTo(i, j) ==
  LET node[n \in 0 .. NQ] ==
        IF n = 0 THEN i
        ELSE IF node[n - 1] = j \/ shortest_paths[<<node[n - 1], j>>] = NQ
             THEN node[n - 1]
        ELSE shortest_paths[<<node[n - 1], j>>]
      length == Min({n \in 0 .. NQ : n = NQ \/ node[n + 1] = node[n]})
  IN  [n \in 1 .. length + 1 |-> node[n - 1]]

(* Mutants of add_to_tree: the path is inserted up to its beginning; the   *)
(* last node of the path is left out.                                      *)
NewPartNoBreak(path) == path

NewPartEndsEarly(path) ==
  LET joint == Max({n \in DOMAIN path : n = 1 \/ path[n] \in in_tree})
  IN  SubSeq(path, joint, Max({joint, Len(path) - 1}))

(* add_to_tree walks the path backwards and stops at the first node that   *)
(* the tree already has: what it inserts is the rest of the path.          *)
NewPart(path) ==
  LET joint == Max({n \in DOMAIN path : n = 1 \/ path[n] \in in_tree})
  IN  SubSeq(path, joint, Len(path))

Edges(path) == [n \in 1 .. Len(path) - 1 |-> <<path[n], path[n + 1]>>]

(* the first of the nodes, in increasing order, from which t is cheapest *)
Nearest(nodes, t) ==
  CHOOSE n \in nodes :
    \A m \in nodes : \/ dist[<<n, t>>] < dist[<<m, t>>]
                     \/ dist[<<n, t>>] = dist[<<m, t>>] /\ n <= m

(* Mutant: the costs are left as they are. *)
AttachStaleCosts ==
  /\ terminals # <<>>
  /\ LET current == terminals[MinNode]
         part    == NewPart(PathTo(edge_in[current], current))
     IN  /\ terminals' = RemoveAt(terminals, MinNode)
         /\ tree' = tree \o Edges(part)
         /\ in_tree' = in_tree \cup Range(part)
  /\ UNCHANGED <<vars, root, wanted, vertex_cost, edge_in>>

(* One iteration of the while loop *)
Attach ==
  /\ terminals # <<>>
  /\ LET current == terminals[MinNode]
         part    == NewPart(PathTo(edge_in[current], current))
         left    == RemoveAt(terminals, MinNode)
         Closer(q) == \E node \in Range(part) : dist[<<node, q>>] < vertex_cost[q]
     IN  /\ terminals' = left
         /\ tree' = tree \o Edges(part)
         /\ in_tree' = in_tree \cup Range(part)
         /\ vertex_cost' = [q \in Qubits |->
              IF q \in Range(left) /\ Closer(q)
              THEN dist[<<Nearest(Range(part), q), q>>] ELSE vertex_cost[q]]
         /\ edge_in' = [q \in Qubits |->
              IF q \in Range(left) /\ Closer(q)
              THEN Nearest(Range(part), q) ELSE edge_in[q]]
  /\ UNCHANGED <<vars, root, wanted>>

(* the tree is returned, and the next call can come *)
ReturnTree ==
  /\ root # NQ
  /\ terminals = <<>>
  /\ root' = NQ
  /\ wanted' = {}
  /\ vertex_cost' = [q \in Qubits |-> 0]
  /\ edge_in' = [q \in Qubits |-> 0]
  /\ in_tree' = {}
  /\ tree' = <<>>
  /\ UNCHANGED <<vars, terminals>>

SteinerNext ==
  \/ ComputeTable
  \/ AskPath
  \/ FollowPath
  \/ ReturnPath
  \/ \E r \in Qubits : \E list \in Ascending(Qubits \ {r}) : StartTree(r, list)
  \/ Attach
  \/ ReturnTree

SteinerSpec == SteinerInit /\ [][SteinerNext]_svars

(* The program is sequential: a computation that has begun runs on. *)
FairSteinerSpec == SteinerSpec /\ WF_svars(ComputeTable) /\ WF_svars(FollowPath)

-----------------------------------------------------------------------------
Children(n) == {tree[m][2] : m \in 1 .. n}

(* "edges are not duplicated, and [it] maintains the spanning tree         *)
(* property & the topological order": each edge is a coupling and leads    *)
(* from the root, or from the child of an earlier edge, to a new node.     *)
(* steiner_gauss walks the list forwards to fill a column and backwards to *)
(* clear it, and is wrong for any other order.                             *)
TopologicalTree ==
  root # NQ =>
    /\ in_tree = {root} \cup Children(Len(tree))
    /\ \A n \in DOMAIN tree :
         /\ Linked(tree[n][1], tree[n][2])
         /\ tree[n][1] \in {root} \cup Children(n - 1)
         /\ tree[n][2] \notin {root} \cup Children(n - 1)

(* The terminals that the root can be connected to are connected, and no   *)
(* branch of the tree ends anywhere else.                                  *)
SpansTerminals ==
  root # NQ /\ terminals = <<>> =>
    /\ \A t \in wanted : dist[<<root, t>>] < Infinite => t \in in_tree
    /\ \A n \in DOMAIN tree :
         tree[n][2] \in wanted \/ \E m \in DOMAIN tree : tree[m][1] = tree[n][2]

=============================================================================
