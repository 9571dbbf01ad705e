----------------------------- MODULE Desugaring -----------------------------
(***************************************************************************)
(* The first passes of the compiler over a program:                        *)
(*   DesugarImpl (transformations/desugar.hpp) replaces a statement on     *)
(*   whole registers by one statement per qubit, and                       *)
(*   BarrierMerger (transformations/barrier_merge.hpp) puts the barriers   *)
(*   together again that this takes apart.                                 *)
(*                                                                         *)
(* Both walk over the program, and over the body of every gate declared,   *)
(* in place.  Classical arguments are left out; an if statement is a flag  *)
(* of the statement under it.                                              *)
(***************************************************************************)
EXTENDS Integers, Sequences, SequencesExt, FiniteSetsExt, Functions, TLC

CONSTANT Programs   \* the programs considered

VARIABLES
  program,   \* the body of the program
  pass,      \* "desugar", "merge", and then what follows
  at,        \* the statement being visited: its number, and that in the body
             \* of a declaration (0 outside)
  scopes,    \* symbol_table, the innermost scope first
  uids,      \* uids_: the barriers collected,
  args,      \* args_: and their arguments
  plan       \* replacement_list_

vars == <<program, pass, at, scopes, uids, args, plan>>

Whole == -1   \* the offset of an access to a whole register
Bit   == -1   \* the size of what is not a register

Access(x, i) == [var |-> x, off |-> i]

(* What follows a pass starts at the beginning of the program again. *)
Beginning == <<1, 0>>

Init ==
  /\ program \in Programs
  /\ pass = "desugar"
  /\ at = Beginning
  /\ scopes = << <<>> >>
  /\ uids = <<>>
  /\ args = <<>>
  /\ plan = <<>>

-----------------------------------------------------------------------------
(* The walk *)
AtEnd   == at[1] > Len(program)
InBody  == at[2] > 0
AtLeave == InBody /\ at[2] > Len(program[at[1]].body)

Here == IF InBody THEN program[at[1]].body[at[2]] ELSE program[at[1]]

AtStatement == ~AtEnd /\ ~AtLeave

StepOver(n) == IF InBody THEN <<at[1], at[2] + n>> ELSE <<at[1] + n, 0>>

Spliced(seq, n, new) == SubSeq(seq, 1, n - 1) \o new \o SubSeq(seq, n + 1, Len(seq))

(* The statement visited is replaced; what replaces it is not visited.     *)
Splice(new) ==
  /\ program' = IF InBody
                THEN [program EXCEPT ![at[1]].body = Spliced(@, at[2], new)]
                ELSE Spliced(program, at[1], new)
  /\ at' = StepOver(Len(new))

-----------------------------------------------------------------------------
(* Mutant: the outermost scope counts. *)
LookupOutermost(x) ==
  LET n == Max({m \in DOMAIN scopes : x \in DOMAIN scopes[m]}) IN scopes[n][x]

Lookup(x) ==
  LET n == Min({m \in DOMAIN scopes : x \in DOMAIN scopes[m]}) IN scopes[n][x]

(* the arguments that stand for several *)
Uniform(s) == {k \in DOMAIN s.args : s.args[k].off = Whole /\ Lookup(s.args[k].var) # Bit}

Repeats(s) == Lookup(s.args[Min(Uniform(s))].var)

Expand(s, i) ==
  [s EXCEPT !.args = [k \in DOMAIN @ |->
                        IF k \in Uniform(s) THEN Access(@[k].var, i) ELSE @[k]]]

DesugarDecl ==
  /\ Here.op \in {"qreg", "creg", "ancilla"}
  /\ scopes' = [scopes EXCEPT ![1] = (Here.name :> Here.size) @@ @]
  /\ at' = StepOver(1)
  /\ UNCHANGED program

DesugarEnter ==
  /\ Here.op = "gate"
  /\ scopes' = << [x \in Range(Here.params) |-> Bit] >> \o scopes
  /\ at' = <<at[1], 1>>
  /\ UNCHANGED program

DesugarLeave ==
  /\ AtLeave
  /\ scopes' = Tail(scopes)
  /\ at' = <<at[1] + 1, 0>>
  /\ UNCHANGED program

(* replace, for gates, barriers, measurements and resets *)
DesugarStatement ==
  /\ Here.op \notin {"qreg", "creg", "ancilla", "gate"}
  /\ IF Uniform(Here) = {} THEN Splice(<<Here>>)
     ELSE Splice([i \in 1 .. Repeats(Here) |-> Expand(Here, i - 1)])
  /\ UNCHANGED scopes

DesugarEnd ==
  /\ AtEnd
  /\ pass' = "merge"
  /\ at' = Beginning
  /\ scopes' = Tail(scopes)
  /\ UNCHANGED program

Desugar ==
  /\ pass = "desugar"
  /\ \/ AtStatement /\ (DesugarDecl \/ DesugarEnter \/ DesugarStatement) /\ UNCHANGED pass
     \/ DesugarLeave /\ UNCHANGED pass
     \/ DesugarEnd
  /\ UNCHANGED <<uids, args, plan>>

-----------------------------------------------------------------------------
(* Mutant: the arguments are those of the last barrier. *)
CollectLastOnly ==
  /\ uids' = Append(uids, at)
  /\ args' = Here.args
  /\ UNCHANGED plan

CollectBarrier ==
  /\ uids' = Append(uids, at)
  /\ args' = args \o SelectSeq(Here.args, LAMBDA a : a \notin Range(args))
  /\ UNCHANGED plan

(* clear_barrier: all that were collected become one, in place of the last *)
Cleared ==
  [u \in Range(uids) |->
     IF u = Last(uids) THEN <<[op |-> "barrier", args |-> args, cond |-> FALSE]>> ELSE <<>>]

ClearBarrier ==
  /\ plan' = Cleared @@ plan
  /\ uids' = <<>>
  /\ args' = <<>>

(* What replace_gates makes of statements, of which uid says where they stand *)
Replaced(seq, uid, all) ==
  FlattenSeq([n \in DOMAIN seq |-> IF uid[n] \in DOMAIN all THEN all[uid[n]] ELSE <<seq[n]>>])

BodiesReplaced(all) ==
  [n \in DOMAIN program |->
     IF program[n].op = "gate"
     THEN [program[n] EXCEPT !.body = Replaced(@, [m \in DOMAIN @ |-> <<n, m>>], all)]
     ELSE program[n]]

(* BarrierMerger has no handler for declarations. *)
MergeStatement ==
  /\ AtStatement
  /\ CASE Here.op = "barrier" -> CollectBarrier
       [] Here.op \in {"qreg", "creg", "ancilla", "gate"} -> UNCHANGED <<uids, args, plan>>
       [] OTHER -> ClearBarrier
  /\ at' = IF Here.op = "gate" THEN <<at[1], 1>> ELSE StepOver(1)
  /\ UNCHANGED <<program, pass>>

MergeLeave ==
  /\ AtLeave
  /\ at' = <<at[1] + 1, 0>>
  /\ UNCHANGED <<program, pass, uids, args, plan>>

MergeEnd ==
  /\ AtEnd
  /\ LET all == Cleared @@ plan
     IN  program' = Replaced(BodiesReplaced(all), [n \in DOMAIN program |-> <<n, 0>>], all)
  /\ pass' = "inline"
  /\ at' = Beginning
  /\ uids' = <<>> /\ args' = <<>> /\ plan' = <<>>

MergeBarriers ==
  /\ pass = "merge"
  /\ MergeStatement \/ MergeLeave \/ MergeEnd
  /\ UNCHANGED scopes

=============================================================================
