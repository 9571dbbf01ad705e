----------------------------- MODULE MCFrontEnd -----------------------------
(***************************************************************************)
(* Instances of Inlining for TLC, and the reference meaning of a program:  *)
(* the list of gates executed when every call is executed, in which each   *)
(* call has ancillas of its own.                                           *)
(***************************************************************************)
EXTENDS Inlining

CONSTANT MaxLength   \* bound on the number of statements that are not declarations

-----------------------------------------------------------------------------
Decl(op, name, size) ==
  [op |-> op, args |-> <<>>, cond |-> FALSE, name |-> name, size |-> size, dirty |-> FALSE]
Dirty(name, size) == [Decl("ancilla", name, size) EXCEPT !.dirty = TRUE]
Gate(name, params, body) ==
  [op |-> "gate", args |-> <<>>, cond |-> FALSE, name |-> name, params |-> params, body |-> body]
Do(op, accesses) == [op |-> op, args |-> accesses, cond |-> FALSE]
If(s) == [s EXCEPT !.cond = TRUE]

q == Access("q", Whole)  q0 == Access("q", 0)  q1 == Access("q", 1)
r == Access("r", Whole)  r0 == Access("r", 0)
a == Access("a", Whole)  b  == Access("b", Whole)
w == Access("w", Whole)  w0 == Access("w", 0)

(* The parameters of a gate may have the names of registers.  Gates that   *)
(* have ancillas call none that has, and dirty ones are in no nested call. *)
Declarations ==
  << Decl("qreg", "q", 2), Decl("creg", "c", 2),
     Gate("cx", <<"a", "b">>, <<Do("CX", <<a, b>>)>>),
     Gate("clean", <<"q", "b">>,
          <<Decl("ancilla", "w", 2), Do("cx", <<q, w0>>), Do("U", <<w>>), Do("cx", <<w0, b>>)>>),
     Gate("dirty", <<"a">>,
          <<Dirty("w", 2), Decl("ancilla", "v", 1), Do("CX", <<a, w>>),
            Do("CX", <<w0, Access("v", 0)>>)>>),
     Gate("calls", <<"a", "q">>,
          <<Do("barrier", <<a, q>>), Do("clean", <<q, a>>), Do("barrier", <<q>>),
            Do("U", <<q>>)>>) >>

Letters ==
  {Do("U", <<q>>), Do("CX", <<q0, q1>>), If(Do("clean", <<q1, q0>>)), Do("dirty", <<q0>>),
   Do("calls", <<q1, q0>>), Do("barrier", <<q>>), Do("barrier", <<q0>>),
   Do("measure", <<q, Access("c", Whole)>>)}

LettersWithR ==
  {Do("CX", <<q, r>>), Do("CX", <<q, r0>>), Do("clean", <<q, r>>), Do("dirty", <<q>>),
   Do("calls", <<r0, q1>>), Do("barrier", <<q, r>>), Do("barrier", <<r>>), If(Do("dirty", <<r>>))}

SomePrograms ==
  {Declarations \o before \o <<Decl("qreg", "r", 2)>> \o after :
     before \in SeqOf(Letters, 2), after \in SeqOf(LettersWithR \cup Letters, 1)}
  \cup {Declarations \o before \o <<Decl("qreg", "r", 2)>> \o after :
     before \in SeqOf(Letters, 1), after \in SeqOf(LettersWithR, MaxLength - 1)}

SomeOverrides == {{}, {"cx"}}

-----------------------------------------------------------------------------
(* Reference.  A wire is a qubit or bit of the program, or an ancilla of   *)
(* one call; env says what names stand for in a body.                      *)
Global(acc) == [var |-> acc.var, off |-> acc.off, call |-> <<>>, dirty |-> FALSE]

SizesOf(stmts) ==
  LET decls == {s \in Range(stmts) : s.op \in {"qreg", "creg", "ancilla"}}
  IN  [x \in {s.name : s \in decls} |-> (CHOOSE s \in decls : s.name = x).size]

Wire(env, acc) == IF acc \in DOMAIN env.wire THEN env.wire[acc] ELSE Global(acc)

(* A parameter hides the register that has its name. *)
IsMany(env, acc) ==
  acc.off = Whole /\ acc \notin DOMAIN env.wire /\ acc.var \in DOMAIN env.size

WiresOf(env, acc) ==
  IF IsMany(env, acc)
  THEN [i \in 1 .. env.size[acc.var] |-> Wire(env, Access(acc.var, i - 1))]
  ELSE <<Wire(env, acc)>>

Locals(decl, call) ==
  LET ancillas == {s \in Range(decl.body) : s.op = "ancilla"}
  IN  UNION {[var : {s.name}, off : 0 .. s.size - 1, call : {call}, dirty : {s.dirty}] :
                s \in ancillas}

EnvOf(decl, wires, call) ==
  LET locals == Locals(decl, call)
      params == {Access(p, Whole) : p \in Range(decl.params)}
      names  == {Access(l.var, l.off) : l \in locals}
  IN  [wire |-> [acc \in params |->
                   wires[CHOOSE k \in DOMAIN wires : decl.params[k] = acc.var]]
                @@ [acc \in names |-> CHOOSE l \in locals : Access(l.var, l.off) = acc],
       size |-> SizesOf(decl.body)]

RECURSIVE Run(_, _, _, _, _, _)
Run(stmts, decls, env, call, live, cond) ==
  FlattenSeq([n \in DOMAIN stmts |->
    LET s    == stmts[n]
        many == {k \in DOMAIN s.args : IsMany(env, s.args[k])}
        copies == IF many = {} THEN 1 ELSE env.size[s.args[Min(many)].var]
        wires(i) == [k \in DOMAIN s.args |->
                       LET all == WiresOf(env, s.args[k])
                       IN  IF k \in many THEN all[i] ELSE all[1]]
        under == cond \/ s.cond
    IN  CASE s.op \in {"qreg", "creg", "ancilla", "gate"} -> <<>>
          [] s.op = "barrier" ->
               <<[op |-> "barrier", live |-> live, cond |-> under,
                  wires |-> FlattenSeq([k \in DOMAIN s.args |-> WiresOf(env, s.args[k])])]>>
          [] s.op \in DOMAIN decls ->
               FlattenSeq([i \in 1 .. copies |->
                 Run(decls[s.op].body, decls, EnvOf(decls[s.op], wires(i), Append(call, <<n, i>>)),
                     Append(call, <<n, i>>), live \cup Locals(decls[s.op], Append(call, <<n, i>>)),
                     under)])
          [] OTHER ->
               [i \in 1 .. copies |->
                  [op |-> s.op, live |-> live, cond |-> under, wires |-> wires(i)]]])

Meaning(stmts) ==
  LET gs == {s \in Range(stmts) : s.op = "gate"}
      decls == [x \in {s.name : s \in gs} |-> CHOOSE s \in gs : s.name = x]
  IN  Run(stmts, decls, [wire |-> <<>>, size |-> SizesOf(stmts)], <<>>, {}, FALSE)

-----------------------------------------------------------------------------
VARIABLE meaning   \* that of the program as it was

MCInit == InlineInit /\ meaning = Meaning(program)
MCSpec == MCInit /\ [][Next /\ UNCHANGED meaning]_<<ivars, meaning>>

Ops(events) == SelectSeq(events, LAMBDA e : e.op # "barrier")

(* which wires of the program as it was are which of the program as it is *)
Places(old, new) ==
  UNION {{<<old[n].wires[k], new[n].wires[k]>> : k \in DOMAIN old[n].wires} : n \in DOMAIN old}

BetweenPasses == at = Beginning \/ pass = "done"

(* After every pass the program does what it did: the same gates in the    *)
(* same order, under the same ifs, on the same qubits - an ancilla being   *)
(* some qubit, the same throughout its call.                               *)
MeaningPreserved ==
  BetweenPasses =>
  LET old == Ops(meaning)
      new == Ops(Meaning(program))
  IN  /\ Len(old) = Len(new)
      /\ \A n \in DOMAIN old : /\ old[n].op = new[n].op /\ old[n].cond = new[n].cond
                               /\ Len(old[n].wires) = Len(new[n].wires)
      /\ LET places == Places(old, new)
         IN  /\ \A p \in places : p[1].call = <<>> => p[1] = p[2]
             /\ \A p, p2 \in places : p[1] = p2[1] => p[2] = p2[2]

(* While a call is executed nothing but the call uses the qubits that are  *)
(* its ancillas, and a clean ancilla is never a qubit of the program.      *)
AncillasKeptApart ==
  pass = "done" =>
    LET old == Ops(meaning)
        new == Ops(Meaning(program))
        places == Places(old, new)
    IN  /\ \A n \in DOMAIN old : \A p \in places : \A k \in DOMAIN old[n].wires :
             p[1] \in old[n].live /\ new[n].wires[k] = p[2] => old[n].wires[k] = p[1]
        /\ \A p \in places :
             p[1].call # <<>> /\ ~p[1].dirty => p[2].var = AncillaName

(* the barriers, each with the number of gates before it *)
Barriers(events) ==
  {<<Len(Ops(SubSeq(events, 1, n))), Range(events[n].wires)>> :
     n \in {m \in DOMAIN events : events[m].op = "barrier"}}

(* A barrier over several qubits is still one over all of them, and no     *)
(* gate has changed sides.                                                 *)
BarriersKept ==
  BetweenPasses /\ pass # "merge" =>
    LET new == Barriers(Meaning(program))
    IN  \A old \in Barriers(meaning) : \E kept \in new :
          kept[1] = old[1] /\ {x \in old[2] : x.call = <<>>} \subseteq kept[2]

Statements(stmts) ==
  Range(stmts) \cup UNION {Range(s.body) : s \in {t \in Range(stmts) : t.op = "gate"}}

(* The program that comes out stands on its own: its statements are on     *)
(* declared qubits, and call gates that are still declared.                *)
OutputIsClosed ==
  pass = "done" =>
    LET size == SizesOf(program)
    IN  /\ \A s \in Range(program) : \A n \in DOMAIN s.args :
             s.args[n].var \in DOMAIN size /\ s.args[n].off \in 0 .. size[s.args[n].var] - 1
        /\ \A s \in Statements(program) :
             s.op \in DOMAIN gates => \E t \in Range(program) : t.op = "gate" /\ t.name = s.op
        /\ \A s \in Range(program) : s.op # "ancilla"
=============================================================================
