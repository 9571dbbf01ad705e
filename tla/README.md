# staq, specified in TLA+

This directory specifies and verifies parts of [staq](../src), a compiler for
quantum circuits in C++17: TLA+ modules translated from the source, TLC
configurations that check them on small instances, and TLAPS proofs for
instances of every size. `PROJECT.json` says which lines each definition models.

staq is sequential and keeps nothing between two invocations: there are no
threads, no messages and no crashes to recover from. What is hard in it is that
its passes carry state along a program - a permutation, a table of last uses, a
linear operator, a stack of partitions - and that what a pass emits now relies on
what it has recorded, or changed, many steps ago. The state machines below are
those passes and algorithms, one action per handler or loop body.

## The system

| component (under `src/`) | state | operations | interacts with | what makes it correct |
|---|---|---|---|---|
| `Device` (`include/mapping/device.hpp`) | coupling digraph, fidelities; cached `dist` and `shortest_paths` | `compute_shortest_paths`, `shortest_path`, `distance`, `steiner`, `coupled`, `couplings`, `parse_json` | mappers, layouts, constrained synthesis | paths are cheapest simple paths, trees are topological and small |
| `SwapMapper` (`mapping/mapping/swap.hpp`) | `permutation_` | `replace(VarAccess)`, `replace(CNOTGate)` | `Device`, `Replacer` | CNOTs only on couplings, the program's effect up to the permutation |
| `SteinerMapper`, `SteinerDry` (`mapping/mapping/steiner.hpp`) | phases and linear operator of the current chunk | one `replace` per kind of statement, `flush`; hill climb over dry runs | CNOT-dihedral synthesis, `Replacer` | each chunk is replaced by an equal one on couplings, nothing moves across a flush; the climb ends |
| `CNOTOptimizer` (`optimization/cnot_resynthesis.hpp`) | the same, with a growing qubit numbering | the same, and local state per gate declaration | `gray_synth`, `Replacer` | equal chunks |
| CNOT-dihedral synthesis (`synthesis/cnot_dihedral.hpp`) | stack of partitions of parities, operator left | `gray_synth`, `gray_steiner` | `Device::steiner`, linear synthesis | every phase is applied at its parity, once; it ends |
| Linear synthesis (`synthesis/linear_reversible.hpp`) | matrix under reduction, CNOT list, dependences | `gauss_jordan`, `gaussian_elim`, `steiner_gauss` | `Device::shortest_path`, `distance`, `steiner` | the CNOTs are the operator; those of `steiner_gauss` are on couplings |
| `Simplifier` (`optimization/simplify.hpp`) | `last_` per argument, `erasures_` | a handler per statement, `run`, `reset` | `replace_gates` | erasing never changes the meaning, nothing is left to cancel, it ends |
| `RotationOptimizer`, channel representation (`optimization/rotation_folding.hpp`, `gates/channel.hpp`) | list of rotations, Cliffords and barriers to commutation | accumulate, `fold`, `fold_forward` | `replace_gates` | merged rotations commute with what lies between, signs and global phase |
| `Replacer` (`qasmtools/.../ast/replacer.hpp`) | pending replacement | post-order visit, splice, ifs cloned around replacements | all passes | each statement is replaced once, in its place |
| Layouts (`mapping/layout/*.hpp`) | allocated qubits, couplings not used | `BasicLayout`, `EagerLayout`, `BestFit`, `LayoutTransformer` | `Device::couplings`, substitution | the layout is injective and total, or an error |
| Inliner, substitution (`transformations/inline.hpp`, `substitution.hpp`) | bodies of gates, ancillas in use, scopes | `replace(DeclaredGate)`, ... | `Replacer` | arguments reach the right parameters, ancillas are not shared |
| Desugar, barrier merging (`transformations/desugar.hpp`, `barrier_merge.hpp`) | symbol table; pending barriers | a `replace` per statement | `Replacer` | the statements of the expansion are those of the register |
| Semantic checker (`qasmtools/.../ast/semantic.hpp`) | scopes, errors | a visit per node | parser | what passes is well-typed |
| Expression simplifier, angles; oracle synthesis; parser; output; estimators; driver; tools and Python binding | | | | see "Not modelled" |

The driver (`src/staq/main.cpp`) parses, checks and then applies a list of passes
to one AST. Expression rewriting and desugaring come first unless disabled. The
map pass inlines everything, builds a layout, applies it, and runs one of the two
mappers on the device.

The hazards of this code - state that is stale when used, order of undoing,
loops without a bound, conditional statements in passes that assume
unconditional ones, limits of finite costs - are listed with their lines in
`PROJECT.json`, each with the properties that cover it or the reason that none
does yet.

## Modules

**`ShortestPaths`** - `Device::compute_shortest_paths`, `shortest_path` and
`distance`. `couplings` and `cost` are the device; `dist`, `shortest_paths` and
the loop indices `at` are the triple loop, one `Relax` step per cell, in place, as
in the code; `walk` is the `ret` of `shortest_path`, one `Hop` per iteration of
its `while`. The code's costs are `-log(fidelity)` in floating point. Here they
are natural numbers, so sums are exact, and `Infinite` is the code's finite cost
of "no coupling". `distance` makes the same walk and counts it. The module also has
the reference for an answer, the cheapest of all simple paths.

**`SteinerTree`** extends it with `Device::steiner` and `add_to_tree`: `StartTree`
is the first loop (over the terminals in ascending order, as both callers
list them), `Attach` an iteration of the second, with `vertex_cost`,
`edge_in`, `in_tree` and the list of edges as in the code; ties are broken by list
and set order as the code's strict comparisons do. `MCSteinerTree` defines the
reference optimum. `AskPath`, `FollowPath` and `ReturnPath` are the queries of
`ShortestPaths`, between two calls of `steiner`, so that one run checks both.

**`LinearReversible`** - the three eliminations. A row is the set of its columns,
so `^=` is symmetric difference. `Column` and `BackColumn` are loop bodies of
`gauss_jordan` and `gaussian_elim`. The body of `steiner_gauss` has one action per
phase: `FillPath` (0 and 1), `ClearPath` and `UndoPath` (2), `FillTree` (3 and 4),
`ClearTree` (5), `UndoTree` (6). `NoPivot` is where the three give up: "linear
operator is not invertible". The device is not composed in: what it may answer
are two constants, of which `DeviceAssumption` only says that paths are simple and
trees topological over the terminals, which is what `WalkIsPath`, `TopologicalTree`
and `SpansTerminals` of the modules above establish. `MCLinearReversible` gives
every such path and tree, and any candidate may be the pivot; the choice the
fidelities would make is among them.

**`GraySynth`** - `gray_synth` and `gray_steiner`, which differ in how a single
parity is computed on its target. `stack` is the list of partitions, its front
first; `DropEmpty`, `TakeSingle`, `Split` and `Restart` are the branches of the
`while` (the exception in place of `Restart` in `gray_synth` is the property
`NeverThrows`). `Control` is an iteration over the controls in `gray_synth`, `Fill`
and `Zero` are iterations over the tree in `gray_steiner`, `EmitPhase` the end of
the branch, `LinearTrans` the end of the function. A vector is the set of its ones.
Two history variables stand for the list returned: `state` says which parity of the
inputs each qubit is in after the CNOTs so far, `applied` which phases met which
parity. The callers merge phases at equal parities, so the parity stands for the
angle. `Device::steiner` is any tree that satisfies `IsTree` (the properties
`TopologicalTree` and `SpansTerminals` of `SteinerTree`), and the linear synthesis
at the end is what `Synthesized` of `LinearReversible` says of operators that are
invertible, as `OperatorInvertible` of `Resynthesis` shows those of the callers to be.

**`Circuit`** says what a gate list does: CNOT and Hadamard rewrite a frame of
Pauli operators (signs dropped), any other statement is recorded as an event with
the frames of its qubits; `Executed` does that to a list of gates. **`IdealCircuit`** is the abstract specification of a
mapper: the program's gates, one by one, on the qubits it names.
**`SwapMapper`** is the pass: `todo` the statements to visit, `out` those emitted,
`permutation` the code's `permutation_`, and `chain`, `cur`, `tgt` the loop over
`cnot_chain`. A replaced statement under an if has its replacement under the if
(`Emit`, `NewGate`), as `Replacer::visit(IfStmt)` does. A gate `"h"` is always one
that the pass made (`generate_hadamard`), which is why no gate of a program has that
name (`HadamardAssumption`); a Hadamard of the program is an event like any other. `ImplementsProgram` is
`IdealCircuit` under the mapping `frame[permutation[q]]`.

**`Simplifier`** - a pass over main body and gate bodies: `VisitStatement`,
`EnterGate` and `LeaveGate` (the local state of `visit(GateDecl)`), `EndPass`,
`NextPass` (`replace_gates`, `reset`, and again). All gates whose angles are zero
are the operation `"zero"`; the rules for pairs are `CancelsWith`. `Reduced` is
the reference, what every qubit sees of a program: a stack of statements per qubit,
where a gate that meets its inverse on top of the stacks of all its qubits takes it
off; nothing else is known about gates. Two things the code takes for granted are
stated as operators, so that the theorems can name them, and hold on the instance
that passes (`GrantedAssumption` of `MCSimplifier`): arguments are qubits
(`Desugared`) and no gate under an if is the inverse of one under none
(`NoInverseUnderIf`).

**`Resynthesis`** - `CNOTOptimizer` and `SteinerMapper`, which are one machine
(`pass` says which). `permutation` and `pending` are `permutation_` and `phases_`,
`outer` their copies while a gate body is visited; `CollectCNOT`, `CollectPhase`,
`Flush`, `Enter`, `Leave` and `End` are the handlers. The circuits that are
synthesized are not listed but executed: `value`, `phases` and `events` are what the
emitted program has done so far, in terms of parities (`Parities`), and what
`gray_synth` and `gray_steiner` return does what `Synthesized` and `PhasesAtParity`
of `GraySynth` say. An angle is the set of statements that it is the sum of.
**`PathSum`** is the abstract specification: statements are executed one by one,
nothing is held back. `ImplementsProgram` is `PathSum` under the mapping that adds
to what was emitted what would be emitted now, in every scope.

**`RotationFolding`** - `RotationOptimizer`. `accum`, `clifford` and `replaced` are
`accum_`, `current_clifford_` and `replacement_list_`; `it` and `forward` are the
two reverse iterators, counted from the front. `Visit*` are the handlers,
`SkipElement`, `TakeRotation`, `EndFold` the outer loop, `Merge`, `Pass`, `Stop` the
visitor in the inner one. Qubits are `1 .. NQ`. Programs are those of the parser and
the semantic checker: gate bodies do not nest and end, and no gate is given a qubit
twice (`WellFormed`). The main program and every gate body is a `Scope` with a
meaning of its own. `Moved` is the Pauli of a rotation once it has come to an
element further in front, and `Mergeable` the pairs that `fold_forward` is for.
**`Paulis`** is the algebra of `gates/channel.hpp`
(signed Paulis, Clifford maps, `conjugate`, products). **`HeisenbergFrame`** is the
reference: what gates do to the X and Z of every qubit, written from the
definition of the gates and without these tables, with unknown gates as events.

**`Layout`** - `BasicLayout`, `EagerLayout`, `BestFit` (`alg`), each from the visit
(`DeclareLinear`, `Declare`, `VisitCNOT`) through the histogram (`FitPair`) and the
rest (`PlaceRest`), and then `optimize_steiner_layout` (`Climb`), for which the
count of CNOTs by a dry run is any function of program and layout. The device is
the list of its couplings, best first; the programs are those the semantic checker
accepts (`WellFormed`).

**`Desugaring`** - `DesugarImpl` and `BarrierMerger`, walking over the program in
place: `at` is the statement being visited, `Splice` what `Replacer` does with a
replacement, in the program and in gate bodies. `scopes` is the symbol table,
`uids`, `args` and `plan` the barriers collected and their replacements.
**`Inlining`** extends it with `Inliner`, `SubstAP` and the `Cleaner`, and with the
order of these passes in `main.cpp`; `MCFrontEnd` has the reference: a recursive
execution of calls in which every call has ancillas of its own.

`MC*` modules hold the instances and the reference definitions for TLC,
`*Proofs` the theorems. Operators marked *Mutant* are deliberate errors, used to
see that each property notices one; no specification uses them.

## Runs

| run | instance | shows |
|---|---|---|
| `device` | 4 qubits; every digraph with couplings one way, 64, and some with both; costs 0 and 2, infinite cost 5; every query, root and terminal set | `HopsAgree` at every cell of the triple loop; paths are cheapest and simple (`WalkIsPath`, `AnswerIsCheapest`) and every query ends (`EveryQueryAnswered`); trees in topological order, spanning, within the approximation factor |
| `dead_coupling` (violation) | 3 qubits, a cost above the infinite one | `shortest_path` answers an index that is no qubit |
| `swap_mapper` | 4 qubits; a directed line, a star and a ring (the ring answering longest paths); every program of up to 3 statements, gates under an if included | permutation, couplings and direction, effect of the output, refinement |
| `islands` (violation) | two pairs of qubits not connected | a CNOT is dropped without a message |
| `linear_reversible` | 4 qubits; a line in scrambled order and a ring; the 9 permutations without fixed point, alone and followed by 3 CNOTs, and 4 operators that are not invertible; every path, tree and pivot | the operator is synthesized on couplings, or refused if and only if it is not invertible; done columns stay done; it ends |
| `gray_synth` | 5 qubits; every subset of six parities, and one set of nine; two operators; a ring of four with a tail, every tree whose leaves are terminals | phases at their parity, none lost, no exception, CNOTs on couplings, the restarts end |
| `simplifier` | 2 qubits, 8 statements, bodies of up to 4; the same around a gate declaration | meaning preserved at any time, nothing left to cancel at the end, the loop ends |
| `simplifier_if` (violation) | a gate and the same gate under an if | both are erased |
| `resynthesis` | 3 qubits, both passes; every program of up to 4 statements out of 8; bodies of up to 3 between others; an if where nothing is collected | the program's phases, CNOTs and other statements in order; parities different and not zero; rows independent |
| `rotation_folding` | 2 qubits; every program of up to 3 statements out of 14, up to 5 out of 5; gate bodies of up to 2 between others, and two declarations in turn | the list built is the program, every merge leaves the meaning, what is deleted stays deleted, no merge is overlooked when none is made |
| `layouts` | 3 qubits; two registers in either order, of 3 or 4 qubits together; up to 3 CNOTs; couplings of six digraphs in every order; the climb over the costs of a one-way ring | injective, total, refused only without room, no coupling wasted, it ends |
| `front_end` | registers of 2 qubits, a gate in terms of `CX`, one with clean and one with dirty ancillas, one that calls others; up to 3 statements before and after a later register; `cx` inlined or not | same gates on the same qubits after each pass, ancillas apart, barriers over all their qubits, output closed |

Why the bounds are enough. Four qubits give paths of three hops, so that a
distance improves through two pivots in turn, a tree has a Steiner point and a
path can enter the tree in its middle, and a CNOT path can cross done rows both
ways. `gray_synth` needs five: with fewer no restart occurs. The six parities are
ones of which some trees around the ring mangle a partition already split; with the
nine, the program restarts on the trees that `Device::steiner` answers on that ring
for costs 3, 3, 2, 2 and 2 on the tail. That the restarts always end is shown for
these sets only. Zero-cost couplings (fidelity 1) give ties and are the hard case for
termination of the walk; every digraph in the subset includes the disconnected
ones. Three statements are a swap chain, one on top of another, and a gate that
reads the permutation. Four statements on two qubits are a nested cancellation
that needs a second pass, with a statement in between. For the properties that are
proved the bounds do not matter.

Four statements on three qubits are a phase, a CNOT that changes its parity, and a
kept statement with something collected before and after it; gate bodies have all
of it twice. Two qubits have commuting and anticommuting products of Paulis, and
five statements a rotation that moves over two things to merge. On three qubits a
CNOT can find its coupling taken, one of its qubits placed elsewhere, or the other
direction only. The front end's letters are chosen so that a parameter has the
name of a register, a call leaves no qubit, one, or two to be borrowed, and a gate
with ancillas is called from a body, from an if and on whole registers.

Two properties are stronger than they need to be on purpose: `AnswerIsCheapest`
demands that "no path" is answered exactly when the cheapest path costs
`Infinite` or more, which is what the code means by its sentinel; and the run
`swap_mapper` lets the device answer longest paths on the ring, since with
fidelities the shortest path need not be the one of fewest hops.

Instances leave out what the code is known to get wrong, and say so. `swap_mapper`
has no CNOTs under an if (a TODO of `swap.hpp`), `simplifier` no gate under an if
next to its inverse (the run `simplifier_if`), `resynthesis` no if where something
is collected, and `front_end` none of the cases listed under "Findings".

**Fairness.** The program is one thread that runs on, so a computation in
progress takes its next step: `WF(ComputeTable)` and `WF(FollowPath)` for the device
(nothing obliges a caller to ask), `WF(Next)` for an algorithm that is a call. Nothing
stronger is used.

**Deadlock** is checked where the component serves forever (device, mapper with a
final stutter) and not for algorithms that return.

## Proofs

`DeviceProofs`, for every `NQ`, digraph and set of costs below `Infinite`
(`CostsBelowInfinite`; `dead_coupling` shows why), connected or not:

- `TableConsistent`: `Spec => []TableInv`. `TableInv` is `TableOK` (types, a 0
  diagonal, a mark exactly where the distance is infinite), `HopsAgree` and
  `Triangle`. `HopsAgree`, which is `NextHopsAgree` on its own, is not inductive:
  when cell (i, j) is improved through k, the new distance is paid for by the
  *remaining* distance from the next hop, which may be a cell that phase k has yet to
  improve. `Settled` is the value such a cell will have at the end of the phase, and
  `Triangle` says that row and column k do not change during phase k.
- `WalksAreSimplePaths`: `Spec => []WalkIsPath`. With couplings of cost 0 distances
  need not decrease along a walk. `RankInv` says that there is a rank of the cells,
  by the phase that lowered them last, such that distance and rank together do: a
  history variable that exists only in the invariant. `WalkInv` says that the
  walk goes down in it, hence no repetition.
- `AnswersAreCheapest`: `Spec => []AnswerIsCheapest`. The triangle inequality through
  a pivot, once its phase is over, survives all later phases (`PivotInv`, about
  `TableToBe`, the table as it will be at the end of the phase); at the end it holds
  through every qubit, so the distance is no more than the cost of any path; and the
  walk pays for every hop by the difference of two distances (`FollowsHops`), so its
  cost is the distance.
- `TreesLeaveTheTables`: `SteinerSpec => Spec`, the refinement that carries the
  above to `SteinerTree`.
- `TreesAreTopological`, `TreesSpan`: `TopologicalTree` and `SpansTerminals`, from
  `TreeInv`. A branch is a walk of `HopsAgree` cut at the node where it meets the
  tree (`IsBranch`), and appending it keeps the tree topological although it may
  enter it in its middle. `CostsRight` says that what a terminal costs is never more
  than from the root, so when the loop ends because nothing left can be reached,
  nothing left can be reached from the root.

The assumptions of `LinearReversible` and `GraySynth` on the answers of a device are
these theorems, for a connected device.

`LinearReversibleProofs`, for every number of qubits, operator, coupling graph and
answers within `DeviceAssumption`:

- `Invariance`: `Spec => []IInv`, of which `DoneStaysDone` (`ColumnsDone`),
  `SynthesisIsCorrect` (`Synthesized`) and `OnlyOnCouplings` are consequences.
- The columns that are done are *not* done while a path or a tree is cleared: its
  CNOTs may add rows above the diagonal to rows below. `Tracked` says of such a state
  that there is a history of matrices since they were done, and that the CNOTs that
  will not be repeated (those into rows outside `above_diagonal_dep`, or from the
  pivot) added nothing to these columns. `UndoRestores`: repeating the list backwards
  would take back everything; leaving those out then makes no difference to the
  columns that are done.
- `SynthesisIsCorrect` is about refusal, too. CNOTs change nothing about which sets
  of columns add up to nothing (`SameInvertible`), and a column in which all rows
  from the diagonal down have a 0 is a sum of columns before it (`NothingToPivot`).
  Which ones is found row by row upwards from the diagonal, since gaussian_elim has
  not cleared what is above it.
- The loops inside an action are recursive functions. Their facts are proved by the
  least element of the set of counterexamples (`Induction`), for a set in place of
  a predicate.

`SwapMapperProofs`, for every device, program and path answer:

- `Safety`: `Spec => []SafetyInv`, where `SafetyInv` adds to type correctness,
  `PermutationIsBijection` and `RespectsCouplings` the `ChainInv` that what is
  left of the chain is a path of couplings from `cur`. Its parts are
  `PermutationBijective` and `OutputRespectsCouplings`.
- `Refinement`: `Spec => Ideal!Spec`, if the device is connected (`Connected`;
  `islands` shows why) and CNOTs are not under an if (`CNOTsOutsideIf`). `RouteInv`
  says in addition that the chain ends in `tgt` and where the control and target
  of the CNOT in hand are. A swap is a stutter because three CNOTs exchange two
  frames, and a CNOT between Hadamards is a CNOT turned around: both are lemmas
  about `Circuit` for arbitrary frames.
- `OutputIsFrame`: `Spec => []OutputDoesFrame`, the frame that the two above speak of
  is that of the gates emitted, executed one by one. Executing a list and then
  another is executing both (`ExecutedConcat`).

`GraySynthProofs`, for every number of qubits, set of phases, operator, device and
answer of `steiner`:

- `Invariance`: `Spec => []IInv`; its parts that a reader should know are
  `VectorsTrackParities`, `OperatorLeftIsRight`, `PhasesMeetTheirParities`,
  `TargetsSurvive` and `ResultCorrect`. The tracking of vectors is one lemma about
  parities, `ParityAfterCNOT`: a CNOT and the adjustment of a vector cancel. The
  vector in hand is not adjusted by the program, so the invariant has to say what
  it would be, `Current`: the nodes of the tree once it is filled, and then fewer
  and fewer of them, down to the root.
- `TargetsKept` holds only between two partitions, and in between the bits at the
  targets are wrong. `TargetInv` says of what they are then: `Bit` adds to the bit
  at a qubit the bit of its parent in the tree, as long as its edge is `Open`
  (filled and not yet zeroed). `BitAfterCNOT` shows that each CNOT changes bit and
  open edges together, in the order the program zeroes them and in no other.
- `CouplingsRespected`: `Spec => CNOTsOnCouplings`.
- `PhasesKept`: `Spec => []NoPhaseLost`. `Kept` in `IInv` is that no phase
  disappears, `Once` that none is there twice, in two partitions, on the stack and
  in hand, or waiting and applied.
- `AlwaysAPivot`: `Spec => []NeverThrows`. `Pieces` says that the vectors of a
  partition agree in all indices it was split on, and that what is synthesized before
  it, for other targets, has a 1 only in indices that remain to it; so the CNOTs
  in between change its vectors in no other, two vectors that differ still differ in
  an index that is left, and one without an index left is alone. Steiner points break
  this, which is why `gray_steiner` restarts.

`ResynthesisProofs`, for every number of qubits, program and gate declaration, and
both passes:

- `Invariance`: `Spec => []IInv`, of which `PhasesCanBeSplit` and
  `OperatorStaysInvertible` are parts. That parities are different and not zero
  needs that the rows are independent, and that is an invariant because adding one
  row to another adds, for any set of rows, a row of the set or nothing.
- `Refinement`: `Spec => Ideal!Spec`, if no statement is under an if
  (`Unconditional`). The one fact it rests on is `Parity` being linear: the value of
  a row after a row was added is the symmetric difference of the two values, so
  collecting a CNOT or a phase is a step of `PathSum` although nothing is emitted
  (`CNOTRefines`, `PhaseRefines`), and emitting what was collected is not a step at
  all (`EmptiedScope`). A kept statement is both at once (`FlushRefines`).

`LayoutProofs`, for every device and order of its couplings, every well-formed
program, every count of CNOTs and the three layouts:

- `Invariance`: `Spec => []IInv`, of which `PlacesAreDistinct` and
  `EveryQubitPlaced` are parts. The visitors put one qubit at a time where it may be
  (`PlaceOne`), the hill climb exchanges two (`ExchangePlaces`), and a layout without a
  free place has as many qubits placed as the device has (`PlacesTaken`, `NoRoom`);
  `LinearInv` says that `BasicLayout` fills the device from 0, so that counting the
  declared qubits is enough. It needs that a CNOT has two qubits, declared before it,
  and that no register is declared twice: `ProgramAssumption`.
- `OnePassIsEnough`: `CouplingInv` says that no coupling left serves a pair that had
  its pass. It is kept because places are only taken (`Grows`, `ServesOnlyOnce`), a
  coupling is on the list once, and the sorted histogram has every pair
  (`SortedHasAll`). Ties in fidelity or count play no part.

`SimplifierProofs`, for every well-formed program, set of gates and qubits:

- `TablesAreRight`: `Spec => []Inv`. `last` holds for every argument the last
  statement on it that is not erased, in the body visited, and its copy in `outer`
  does so for the main body; erased statements were visited and are no declarations.
- `ErasuresCancel`: `Spec => []MeaningPreserved`, if the program is `Desugared` and
  `NoInverseUnderIf` holds. Without the first the tables miss a statement on a
  register (the hazard at `simplify.hpp:130`); without the second a gate is erased
  that is only sometimes undone (`simplifier_if`). Between the two gates of a pair
  nothing that is kept touches their qubits, so both executions, with the pair and
  without, agree on all other qubits and at the end on these: gates on different
  qubits commute, and a gate and then its inverse is nothing. That last fact fails
  for stacks in general and holds for those that laying gates can lead to (`Good`):
  what is on top on all the qubits of a gate was laid last.
- `NothingIsLeft`: `Spec => []NothingLeftToCancel`, with neither hypothesis.
  `NothingPassedOver` says that a pass that has erased nothing has not come by a
  statement that could have been (`Removable`).

`RotationFoldingProofs`, for every number of qubits and every well-formed program:

- `ListsAreRight`: `Spec => []Inv`. The list that `fold` works on shrinks and is
  rewritten while two iterators stand in it, and elements of it stay behind when
  their gate is deleted. `Inv` says that identifiers in it differ and are apart from
  those of the main program put aside (`Apart`), and that every rotation that `fold`
  has yet to come to is in the program (`KeptIn`), except perhaps the first, which it
  does not come to.
- `DeletionIsFinal`: `Spec => DeletedStaysDeleted`, from that invariant: a settlement
  writes for the rotation in hand, which is one that is kept.
- `EveryMergeIsTried`: `Spec => []NothingOverlooked`. `TriedInv` says that the Pauli in
  hand is `Moved` and that no pair behind the outer iterator is `Mergeable`, as long
  as nothing was deleted. Of Paulis it uses only that `Conjugate` is a function.
- `ListIsProgram`: `Spec => []ChannelMatches`. The reference (`HeisenbergFrame`) knows
  words, the code Paulis. In a frame that gates can lead to (`Canonical`) the words of
  the qubits obey the relations of X, Y and Z, so that a product of Paulis is a product
  of words, a Pauli and its word commute with the same things, and a Clifford operator
  as the optimizer keeps it is a change of frame (`After`), composed as `Compose`
  composes and given for every gate by `Dagger`: every sign and order in the tables of
  `channel.hpp` is used. `ChannelInv` says that the list and the current Clifford do
  what the statements visited do, for the scope that is being visited and for the main
  program that waits for it. It says so for all angles that `fold` may give to
  rotations later (`Angles`), because `fold` changes the program and not the list.
- `FoldingPreserves`: `Spec => []MeaningPreserved`. `FoldingInv` says that the list,
  with any angles that leave deleted what is deleted, does what its scope does
  (`FoldAll`), that the rotation in hand is the one of the list `Moved`, and that all
  it has passed let it pass (`Clear`). A rotation and what it passes may be exchanged
  (`PassClifford`, `PassRotation`, `PassOther`), so two that meet are one
  (`MergedMeaning`). The first element of the list is not erased when a rotation is
  merged into it; `Guards` is the invariant that makes this harmless: no rotation
  still to be taken has a Pauli that becomes that of the first one on the way, since
  the rotation that was merged would have been merged with it before.
  Other scopes have other statements (`OneScope`).

Only model-checked: liveness (the prover has no fairness); `NearlyMinimal`, a bound
over all trees; and `Desugaring` and `Inlining`. The reference of `front_end` is a
recursive operator over nested calls, which is why it is in an MC module and not in
one to be proved about. The theorems of `RotationFolding` are, like the model, about
angles that are multiples of pi/2.

## Findings

`PROJECT.json` states three, each shown by a violation run: a dead coupling
breaks `shortest_path` (`device.hpp:171`), `SwapMapper` drops CNOTs between
unconnected qubits (`swap.hpp:97`), and `Simplifier` cancels a conditional gate
with an unconditional one (`simplify.hpp:87`).

Others were met while modelling. The models do what the code does; the instances
leave these programs out, and the hazards in `PROJECT.json` say where:

- `CNOTOptimizer` and `SteinerMapper` put what they flush under the if of the
  statement that makes them flush, and collect a CNOT under an if as one that is
  not (`replacer.hpp:188`).
- A gate with ancillas that calls a gate with ancillas shares them with it
  (`inline.hpp:144`); a dirty ancilla that is chosen inside a gate body may be the
  argument of the call (`inline.hpp:153`).
- A barrier of the program is merged into a gate body when a declaration stands
  between it and the next gate (`barrier_merge.hpp:78`).
- A measurement of registers under an if becomes ifs that read what the
  measurements before them wrote (`desugar.hpp:206`).
- `optimize_CNOT` replaces the body of the gate `cx` by a call of `cx`
  (`cnot_resynthesis.hpp:358`).
- Inlining removes the declarations of opaque gates and keeps their calls
  (`inline.hpp:232`).

## Not modelled

- Global phases: `Circuit` drops the signs of Paulis, which CNOTs and the paired
  Hadamards of `SwapMapper` do not need, and `RotationFolding` the correction of
  the phase at the end of `fold`. Its angles are multiples of pi/2, because then
  the meaning of a program is a table of Paulis; a rotation by pi/4 that becomes a
  Clifford gate when merged is therefore not told apart from one that does not.
- The circuits that `gray_synth` lists, in `Resynthesis`: their effect is
  `GraySynth`'s subject. A CNOT against its coupling is `SwapMapper`'s.
- `LayoutTransformer`, and the map pass as one machine: its parts are modelled each
  on programs of its own.
- `SteinerDry`: it repeats the mapper to count CNOTs; the climb is right for any
  count.
- Floating-point rounding of costs and fidelities.
- `Device` construction from JSON, printing of layouts.
- The semantic checker, but for `WellFormed` in `Layout`: its verdicts are the
  preconditions of the programs here.
- Expression simplifier: pure functions of trees.
- Parser, lexer, AST classes, output formats, estimators, tools: text, data
  classes and counting.
- Oracle synthesis: its algorithms are in vendored libraries.

## Plan

What is left, most important first; theorems in brackets.

1. *Proofs* of the front end: that calls in progress never share a borrowed
   ancilla [`AncillasKeptApart`] and that what is left calls only what is declared
   [`OutputIsClosed`], both for `Inlining`.
2. *The map pass*: inlining, layout, `LayoutTransformer` and mapper composed [the
   composed pass implements the program].
