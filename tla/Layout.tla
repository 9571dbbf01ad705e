------------------------------- MODULE Layout -------------------------------
(***************************************************************************)
(* Choice of the physical qubits that a program starts on: BasicLayout,    *)
(* EagerLayout and BestFit (mapping/layout/), and the hill climb that      *)
(* improves their answer for the Steiner mapper (optimize_steiner_layout   *)
(* of mapping/mapping/steiner.hpp).                                        *)
(*                                                                         *)
(* A device is represented by its couplings in the order of decreasing     *)
(* fidelity, which is all that the layouts use of it.                      *)
(***************************************************************************)
EXTENDS Integers, Sequences, FiniteSets

CONSTANTS
  NQ,                \* qubits_ of the device
  Names,             \* the qubits that programs may declare, as <<register, index>>
  Programs,          \* the programs: declarations of registers, and CNOTs
  CouplingOrders,    \* the devices
  CNOTCount(_, _)    \* what a dry run of a program with a layout counts

Qubits   == 0 .. NQ - 1
Nowhere  == -1
Layouts  == [Names -> Qubits \cup {Nowhere}]

QubitsOf(s) == {<<s.register, i>> : i \in 0 .. s.size - 1}

Statements == [op : {"qreg"}, register : Int, size : Nat]
                \cup [op : {"CX"}, ctrl : Names, tgt : Names]

DeclaredBefore(p, n) ==
  UNION {QubitsOf(p[m]) : m \in {k \in DOMAIN p : k < n /\ p[k].op = "qreg"}}

(* What the semantic checker lets through: registers are declared once and *)
(* before they are used, and no gate has one qubit twice.                  *)
WellFormed(p) ==
  /\ p \in Seq(Statements)
  /\ \A n \in DOMAIN p :
       CASE p[n].op = "qreg" -> /\ QubitsOf(p[n]) \subseteq Names
                                /\ QubitsOf(p[n]) \cap DeclaredBefore(p, n) = {}
         [] p[n].op = "CX"   -> /\ p[n].ctrl # p[n].tgt
                                /\ {p[n].ctrl, p[n].tgt} \subseteq DeclaredBefore(p, n)

ASSUME DeviceAssumption == NQ \in Nat /\ IsFiniteSet(Names) /\ Names \subseteq Int \X Int
ASSUME ProgramAssumption == \A p \in Programs : WellFormed(p)
ASSUME CouplingAssumption ==
  \A o \in CouplingOrders :
    /\ o \in Seq({c \in Qubits \X Qubits : c[1] # c[2]})
    /\ \A m, n \in DOMAIN o : o[m] = o[n] => m = n
ASSUME CountAssumption  == \A p \in Programs : \A l \in Layouts : CNOTCount(p, l) \in Nat

VARIABLES
  alg,        \* "linear", "eager" or "bestfit"
  program,    \* the program
  at,         \* the statement to be visited next
  pc,         \* "visit", "fit", "rest", "climb", "done" or "threw"
  declared,   \* access_paths_: the qubits declared so far
  layout,     \* layout_: where they are
  allocated,  \* allocated_: the physical qubits taken
  couplings,  \* couplings_: those that are left, best first
  pairs,      \* the pairs of the histogram, those with most CNOTs first
  count       \* current_min

vars == <<alg, program, at, pc, declared, layout, allocated, couplings, pairs, count>>

Init ==
  /\ alg \in {"linear", "eager", "bestfit"}
  /\ program \in Programs
  /\ at = 1
  /\ pc = "visit"
  /\ declared = {}
  /\ layout = [q \in Names |-> Nowhere]
  /\ allocated = {}
  /\ couplings \in CouplingOrders
  /\ pairs = <<>>
  /\ count = 0

-----------------------------------------------------------------------------
(* Mutant: the last qubit is never used. *)
FitsBelow(n) == n < NQ

Fits(n) == n <= NQ

(* BasicLayout::visit(RegisterDecl); n_ is the number of qubits declared.  *)
DeclareLinear(s) ==
  /\ s.op = "qreg" /\ alg = "linear"
  /\ LET n == Cardinality(declared)
     IN  IF Fits(n + s.size)
         THEN /\ layout' = [q \in Names |->
                              IF q \in QubitsOf(s) THEN n + q[2] ELSE layout[q]]
              /\ allocated' = allocated \cup n .. n + s.size - 1
              /\ declared' = declared \cup QubitsOf(s)
              /\ UNCHANGED pc
         ELSE /\ pc' = "threw"
              /\ UNCHANGED <<layout, allocated, declared>>
  /\ UNCHANGED couplings

(* EagerLayout::visit(RegisterDecl), BestFit::visit(RegisterDecl) *)
Declare(s) ==
  /\ s.op = "qreg" /\ alg # "linear"
  /\ declared' = declared \cup QubitsOf(s)
  /\ UNCHANGED <<pc, layout, allocated, couplings>>

(* Mutant: a qubit that has its place already is not looked at. *)
CanBeNew(q, p) == layout[q] = Nowhere /\ p \notin allocated

(* q is at p, or can be put there *)
CanBe(q, p) == layout[q] = p \/ (layout[q] = Nowhere /\ p \notin allocated)

Usable(c, t, n) == CanBe(c, couplings[n][1]) /\ CanBe(t, couplings[n][2])

(* the first coupling that can be used, if there is one *)
Best(c, t) ==
  {n \in DOMAIN couplings : Usable(c, t, n) /\ \A m \in 1 .. n - 1 : ~Usable(c, t, m)}

(* The loop over the couplings, in both EagerLayout and BestFit: a         *)
(* coupling is used for one CNOT, or pair, only.                           *)
Assign(c, t) ==
  IF Best(c, t) = {} THEN UNCHANGED <<layout, allocated, couplings>>
  ELSE \E n \in Best(c, t) :
         /\ layout' = [layout EXCEPT ![c] = couplings[n][1], ![t] = couplings[n][2]]
         /\ allocated' = allocated \cup {couplings[n][1], couplings[n][2]}
         /\ couplings' = SubSeq(couplings, 1, n - 1) \o SubSeq(couplings, n + 1, Len(couplings))

(* EagerLayout::visit(CNOTGate); BestFit counts, and BasicLayout ignores. *)
VisitCNOT(s) ==
  /\ s.op = "CX"
  /\ IF alg = "eager" THEN Assign(s.ctrl, s.tgt)
     ELSE UNCHANGED <<layout, allocated, couplings>>
  /\ UNCHANGED <<declared, pc>>

Visit ==
  /\ pc = "visit" /\ at <= Len(program)
  /\ LET s == program[at] IN DeclareLinear(s) \/ Declare(s) \/ VisitCNOT(s)
  /\ at' = at + 1
  /\ UNCHANGED <<alg, program, pairs, count>>

-----------------------------------------------------------------------------
(* histogram_, as what it counts, and the order of its keys *)
CountOf(pair) == Cardinality({n \in DOMAIN program :
                   program[n].op = "CX" /\ <<program[n].ctrl, program[n].tgt>> = pair})

Histogram == {<<program[n].ctrl, program[n].tgt>> :
                n \in {m \in DOMAIN program : program[m].op = "CX"}}

Before(p, q) == p[1] < q[1] \/ (p[1] = q[1] /\ p[2] < q[2])

(* list::sort is stable: pairs with as many CNOTs stay in their order.     *)
ComesFirst(a, b) ==
  \/ CountOf(a) > CountOf(b)
  \/ CountOf(a) = CountOf(b) /\ (Before(a[1], b[1]) \/ (a[1] = b[1] /\ Before(a[2], b[2])))

Sorted(S) == {s \in [1 .. Cardinality(S) -> S] :
                \A m, n \in DOMAIN s : m < n => ComesFirst(s[m], s[n])}

(* The hill climb is for the Steiner mapper, and may be disabled.          *)
AfterLayout == {"climb", "done"}

EndVisit ==
  /\ pc = "visit" /\ at > Len(program)
  /\ CASE alg = "linear"  -> pc' \in AfterLayout
       [] alg = "eager"   -> pc' = "rest"
       [] alg = "bestfit" -> pc' = "fit"
  /\ pairs' \in Sorted(IF alg = "bestfit" THEN Histogram ELSE {})
  /\ count' = IF alg = "linear" THEN CNOTCount(program, layout) ELSE 0
  /\ UNCHANGED <<alg, program, at, declared, layout, allocated, couplings>>

(* One iteration of the loop of fit_histogram *)
FitPair ==
  /\ pc = "fit" /\ pairs # <<>>
  /\ Assign(Head(pairs)[1], Head(pairs)[2])
  /\ pairs' = Tail(pairs)
  /\ UNCHANGED <<alg, program, at, pc, declared, count>>

EndFit ==
  /\ pc = "fit" /\ pairs = <<>>
  /\ pc' = "rest"
  /\ UNCHANGED <<alg, program, at, declared, layout, allocated, couplings, pairs, count>>

Unplaced == {q \in declared : layout[q] = Nowhere}
Free     == Qubits \ allocated

(* Mutant: the qubit is not marked as taken. *)
TakenNot(p) == allocated

Taken(p) == allocated \cup {p}

(* The access paths in order: those not placed yet get the first qubit     *)
(* that is free.                                                           *)
PlaceRest ==
  /\ pc = "rest" /\ Unplaced # {}
  /\ \/ /\ Free = {}
        /\ pc' = "threw"
        /\ UNCHANGED <<layout, allocated>>
     \/ \E q \in Unplaced : \E p \in Free :
          /\ \A r \in Unplaced : q = r \/ Before(q, r)
          /\ \A r \in Free : p <= r
          /\ layout' = [layout EXCEPT ![q] = p]
          /\ allocated' = Taken(p)
          /\ UNCHANGED pc
  /\ UNCHANGED <<alg, program, at, declared, couplings, pairs, count>>

EndRest ==
  /\ pc = "rest" /\ Unplaced = {}
  /\ pc' \in AfterLayout
  /\ count' = CNOTCount(program, layout)
  /\ UNCHANGED <<alg, program, at, declared, layout, allocated, couplings, pairs>>

-----------------------------------------------------------------------------
(* optimize_steiner_layout                                                 *)
Swapped(x, y) == [layout EXCEPT ![x] = layout[y], ![y] = layout[x]]

(* Mutant: a swap that changes nothing is taken too. *)
ImprovesOrEqual(x, y) == CNOTCount(program, Swapped(x, y)) <= count

Improves(x, y) == CNOTCount(program, Swapped(x, y)) < count

(* The pairs are tried in the order of a hash table; the first swap that   *)
(* improves the layout is kept, and the loops start again.                 *)
Climb ==
  /\ pc = "climb"
  /\ \E x, y \in declared :
       /\ x # y /\ Improves(x, y)
       /\ layout' = Swapped(x, y)
       /\ count' = CNOTCount(program, Swapped(x, y))
  /\ UNCHANGED <<alg, program, at, pc, declared, allocated, couplings, pairs>>

EndClimb ==
  /\ pc = "climb"
  /\ \A x, y \in declared : x # y => ~Improves(x, y)
  /\ pc' = "done"
  /\ UNCHANGED <<alg, program, at, declared, layout, allocated, couplings, pairs, count>>

Next == Visit \/ EndVisit \/ FitPair \/ EndFit \/ PlaceRest \/ EndRest \/ Climb \/ EndClimb

Spec     == Init /\ [][Next]_vars
FairSpec == Spec /\ WF_vars(Next)

-----------------------------------------------------------------------------
Placed == {q \in Names : layout[q] # Nowhere}

(* No two qubits of the program are ever put on one physical qubit, and    *)
(* what is marked as taken is what is taken: LayoutTransformer would make  *)
(* one qubit of two.                                                       *)
OnePlaceEach ==
  /\ \A q, r \in Placed : layout[q] = layout[r] => q = r
  /\ allocated = {layout[q] : q \in Placed}

(* The layout is complete, and is refused only to a program that declares  *)
(* more qubits than the device has.                                        *)
PlacedIfRoom ==
  /\ pc \in {"climb", "done"} => Placed = declared
  /\ pc = "threw" => Cardinality(DeclaredBefore(program, Len(program) + 1)) > NQ

(* When a CNOT cannot have a coupling it is passed over for good: no       *)
(* coupling that is left at the end could still serve any CNOT of the      *)
(* program, so one pass is enough.                                         *)
NoCouplingWasted ==
  alg # "linear" /\ pc = "rest" =>
    \A pair \in Histogram : \A n \in DOMAIN couplings : \E e \in {1, 2} :
      IF pair[e] \in Placed THEN layout[pair[e]] # couplings[n][e]
      ELSE couplings[n][e] \in allocated

(* The layout ends: every swap of the hill climb lowers the count of the   *)
(* dry run.                                                                *)
LayoutEnds == <>(pc \in {"done", "threw"})

=============================================================================
