----------------------------- MODULE Simplifier -----------------------------
(***************************************************************************)
(* optimization::Simplifier (optimization/simplify.hpp): cancellation of   *)
(* adjacent inverse gates.                                                 *)
(*                                                                         *)
(* A pass visits the statements of the program in order.  It remembers,    *)
(* per argument, the last statement that used it (last_); when a gate's    *)
(* arguments were all last used by its inverse, on the same arguments,     *)
(* both are marked for erasure.  The marked gates are then removed from    *)
(* the AST, and passes are repeated until one marks nothing.               *)
(*                                                                         *)
(* A program is a main body and the bodies of its gate declarations, each  *)
(* a sequence of statements; the statement "decl" is the place of a        *)
(* declaration in the main body.                                           *)
(***************************************************************************)
EXTENDS Integers, Sequences, SequencesExt

CONSTANTS
  Programs,   \* the programs: functions from "main" and gate names to bodies
  Arguments,  \* the VarAccesses that occur in them
  Touches     \* the qubits (or gate parameters) that each of them stands for

(* A statement has a uid, an operation and arguments; cond tells whether   *)
(* it is a gate, measurement or reset under an if.  The operation "zero"   *)
(* is any gate with zero angles, id and u0; "barrier", "measure", "reset"  *)
(* and the gates without a rule are operations that cancel nothing.        *)
NoStatement == [uid |-> 0, op |-> "", args |-> <<>>, cond |-> FALSE]

(* the operation that a gate cancels with, if it cancels at all *)
CancelsWith(op) ==
  CASE op \in {"cx", "ccx", "h", "x", "y", "z"} -> op
    [] op = "s"   -> "sdg"
    [] op = "sdg" -> "s"
    [] op = "t"   -> "tdg"
    [] op = "tdg" -> "t"
    [] OTHER      -> "none"

(* What the parser and the semantic checker let pass: arguments where they *)
(* are needed, every gate declared once, and a uid per statement.          *)
WellFormed(p) ==
  /\ "main" \in DOMAIN p
  /\ \A b \in DOMAIN p :
       /\ p[b] \in Seq(Range(p[b]))
       /\ \A s \in Range(p[b]) :
            /\ s.uid \in Nat /\ s.op \in STRING \ {"none"} /\ s.cond \in BOOLEAN
            /\ IF s.op = "decl" THEN b = "main" /\ s.args[1] \in DOMAIN p \ {"main"}
               ELSE s.args \in Seq(Arguments) \ {<<>>}
  /\ \A b, c \in DOMAIN p : \A m \in DOMAIN p[b], n \in DOMAIN p[c] :
       p[b][m].uid = p[c][n].uid => b = c /\ m = n
  /\ \A g \in DOMAIN p \ {"main"} :
       \E n \in DOMAIN p["main"] : p["main"][n].op = "decl" /\ p["main"][n].args[1] = g
  /\ \A m, n \in DOMAIN p["main"] :
       p["main"][m].op = "decl" /\ p["main"][n].op = "decl"
         /\ p["main"][m].args[1] = p["main"][n].args[1] => m = n

ASSUME ProgramAssumption == \A p \in Programs : WellFormed(p)
ASSUME TouchesAssumption == \A a \in Arguments : Touches[a] # {}

VARIABLES
  program,   \* the program as it was parsed
  bodies,    \* the AST now
  where,     \* the body being visited
  at,        \* index in it of the statement to be visited
  last,      \* last_, per argument
  outer,     \* <<at, last>> of the main body, while a gate is visited
  erasures,  \* uids of the gates to be erased
  visiting   \* between the start of a pass and its end

ast  == <<program, bodies>>
vars == <<ast, where, at, last, outer, erasures, visiting>>

NothingLast == [a \in Arguments |-> NoStatement]

Init ==
  /\ program \in Programs
  /\ bodies = program
  /\ where = "main"
  /\ at = 1
  /\ last = NothingLast
  /\ outer = <<1, NothingLast>>
  /\ erasures = {}
  /\ visiting = TRUE

AtEnd == at > Len(bodies[where])

(* Mutant: only the first argument is looked at. *)
MergesFirstArgument(s) ==
  /\ ~s.cond
  /\ last[s.args[1]].op = CancelsWith(s.op)
  /\ last[s.args[1]].args = s.args

(* mergeable_, and the inverse of s was the last to use its arguments *)
Merges(s) ==
  /\ ~s.cond
  /\ \A n \in DOMAIN s.args :
       /\ last[s.args[n]].uid = last[s.args[1]].uid
       /\ last[s.args[n]].op = CancelsWith(s.op)
       /\ last[s.args[n]].args = s.args

(* s and the gate it cancels with are erased from last_. *)
Forget(s) == [a \in Arguments |-> IF a \in Range(s.args) THEN NoStatement ELSE last[a]]

(* the handlers of gates, measurements and resets *)
VisitStatement ==
  /\ visiting
  /\ ~AtEnd
  /\ LET s == bodies[where][at]
     IN  /\ s.op # "decl"
         /\ \/ /\ s.op = "zero"
               /\ erasures' = erasures \cup {s.uid}
               /\ UNCHANGED last
            \/ /\ s.op # "zero"
               /\ Merges(s)
               /\ erasures' = erasures \cup {s.uid, last[s.args[1]].uid}
               /\ last' = Forget(s)
            \/ /\ s.op # "zero"
               /\ ~Merges(s)
               /\ last' = [a \in Arguments |-> IF a \in Range(s.args) THEN s ELSE last[a]]
               /\ UNCHANGED erasures
  /\ at' = at + 1
  /\ UNCHANGED <<ast, where, outer, visiting>>

(* visit(GateDecl): a new local state for the body *)
EnterGate ==
  /\ visiting
  /\ ~AtEnd
  /\ bodies[where][at].op = "decl"
  /\ where' = bodies[where][at].args[1]
  /\ at' = 1
  /\ last' = NothingLast
  /\ outer' = <<at + 1, last>>
  /\ UNCHANGED <<ast, erasures, visiting>>

LeaveGate ==
  /\ visiting
  /\ AtEnd
  /\ where # "main"
  /\ where' = "main"
  /\ at' = outer[1]
  /\ last' = outer[2]
  /\ outer' = <<1, NothingLast>>
  /\ UNCHANGED <<ast, erasures, visiting>>

EndPass ==
  /\ visiting
  /\ AtEnd
  /\ where = "main"
  /\ visiting' = FALSE
  /\ UNCHANGED <<ast, where, at, last, outer, erasures>>

(* replace_gates: the body without the statements of these uids *)
Without(body, uids) ==
  LET kept[n \in 0 .. Len(body)] ==
        IF n = 0 THEN <<>>
        ELSE IF body[n].uid \in uids THEN kept[n - 1]
        ELSE Append(kept[n - 1], body[n])
  IN  kept[Len(body)]

(* Mutant: erasures_ is not cleared. *)
NextPassKeepsErasures ==
  /\ ~visiting
  /\ erasures # {}
  /\ bodies' = [b \in DOMAIN bodies |-> Without(bodies[b], erasures)]
  /\ at' = 1
  /\ last' = NothingLast
  /\ visiting' = TRUE
  /\ UNCHANGED <<program, where, outer, erasures>>

(* Mutant: the marked gates are removed, without another pass. *)
NextPassIsNone ==
  /\ ~visiting
  /\ erasures # {}
  /\ bodies' = [b \in DOMAIN bodies |-> Without(bodies[b], erasures)]
  /\ erasures' = {}
  /\ UNCHANGED <<program, where, at, last, outer, visiting>>

(* while (!erasures_.empty()): replace_gates, reset and the next pass *)
NextPass ==
  /\ ~visiting
  /\ erasures # {}
  /\ bodies' = [b \in DOMAIN bodies |-> Without(bodies[b], erasures)]
  /\ at' = 1
  /\ last' = NothingLast
  /\ erasures' = {}
  /\ visiting' = TRUE
  /\ UNCHANGED <<program, where, outer>>

Next ==
  \/ VisitStatement
  \/ EnterGate
  \/ LeaveGate
  \/ EndPass
  \/ NextPass

Spec == Init /\ [][Next]_vars

(* run() goes on to its end. *)
FairSpec == Spec /\ WF_vars(Next)

Done == ~visiting /\ erasures = {}

-----------------------------------------------------------------------------
(* What a program means, to cancel gates in it: statements on disjoint     *)
(* qubits commute, unconditional inverse gates on the same arguments       *)
(* cancel, and nothing else is known of the operations.  A body is reduced *)
(* to what every qubit sees.  If all qubits of a gate have seen its        *)
(* inverse last, they have seen the same one: its uses come in the same    *)
(* order on all of them.  Two reduced bodies differ by commutations only   *)
(* if and only if every qubit sees the same.                               *)

Qubits == UNION {Touches[a] : a \in Arguments}

QubitsOf(s) == IF s.op = "decl" THEN {} ELSE UNION {Touches[a] : a \in Range(s.args)}

Undoes(s, t) ==
  /\ ~s.cond /\ ~t.cond
  /\ t.op = CancelsWith(s.op)
  /\ t.args = s.args

Seen(s) == [op |-> s.op, args |-> s.args, cond |-> s.cond]

Cancels(wires, s) ==
  \A q \in QubitsOf(s) : wires[q] # <<>> /\ Undoes(s, Last(wires[q]))

Push(wires, s) ==
  IF s.op \in {"zero", "decl"} THEN wires
  ELSE [q \in Qubits |->
          IF q \notin QubitsOf(s) THEN wires[q]
          ELSE IF Cancels(wires, s) THEN Front(wires[q])
          ELSE Append(wires[q], Seen(s))]

Reduced(body) ==
  LET upTo[n \in 0 .. Len(body)] ==
        IF n = 0 THEN [q \in Qubits |-> <<>>] ELSE Push(upTo[n - 1], body[n])
  IN  upTo[Len(body)]

(* Two things that run() takes for granted.  Arguments are qubits: a pass  *)
(* that desugars the program came before.                                  *)
Desugared == \A a, b \in Arguments : a # b => Touches[a] \cap Touches[b] = {}

(* No gate under an if would undo one that is under none. *)
NoInverseUnderIf(p) ==
  \A b \in DOMAIN p : \A m, n \in DOMAIN p[b] :
    ~p[b][m].cond /\ p[b][n].op = CancelsWith(p[b][m].op) /\ p[b][n].args = p[b][m].args
      => ~p[b][n].cond

(* Erasing what is marked leaves the meaning of the program, at any time:  *)
(* between two visits, and so at the end of every pass.                    *)
MeaningPreserved ==
  \A b \in DOMAIN bodies :
    Reduced(Without(bodies[b], erasures)) = Reduced(program[b])

(* When run() returns, no two adjacent gates cancel any more, however      *)
(* deeply they were nested in the program.                                 *)
NothingLeftToCancel ==
  Done =>
    \A b \in DOMAIN bodies : \A q \in Qubits :
      Len(Reduced(bodies[b])[q]) = Cardinality({n \in DOMAIN bodies[b] : q \in QubitsOf(bodies[b][n])})

(* The loop ends. *)
FixpointReached == <>Done

=============================================================================
