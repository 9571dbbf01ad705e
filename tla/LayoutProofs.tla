---------------------------- MODULE LayoutProofs ----------------------------
(***************************************************************************)
(* Proofs about Layout: for every device, every well-formed program, every *)
(* count of CNOTs and each of the three algorithms.                        *)
(***************************************************************************)
EXTENDS Layout, FiniteSetTheorems, FunctionTheorems, SequenceTheorems, WellFoundedInduction, TLAPS

Coupling == {c \in Qubits \X Qubits : c[1] # c[2]}
CNOTPair == {p \in Names \X Names : p[1] # p[2]}

Phases == {"visit", "fit", "rest", "climb", "done", "threw"}

TypeInv ==
  /\ alg \in {"linear", "eager", "bestfit"}
  /\ program \in Programs
  /\ at \in 1 .. Len(program) + 1
  /\ pc \in Phases
  /\ declared \in SUBSET Names
  /\ layout \in Layouts
  /\ allocated \in SUBSET Qubits
  /\ couplings \in Seq(Coupling)
  /\ pairs \in Seq(CNOTPair)

(* what is declared, and where the program counter can be *)
ProgressInv ==
  /\ pc # "threw" => declared = DeclaredBefore(program, at)
  /\ pc \in {"fit", "rest", "climb", "done"} => at = Len(program) + 1
  /\ pc = "fit" => alg = "bestfit"
  /\ pc = "rest" => alg # "linear"
  /\ \A n \in DOMAIN pairs : {pairs[n][1], pairs[n][2]} \subseteq declared

(* BasicLayout takes the first qubits of the device *)
LinearInv ==
  alg = "linear" => /\ Placed = declared
                    /\ allocated = 0 .. Cardinality(declared) - 1

PlaceInv ==
  /\ OnePlaceEach
  /\ Placed \subseteq declared
  /\ LinearInv
  /\ PlacedIfRoom

IInv == TypeInv /\ ProgressInv /\ PlaceInv

-----------------------------------------------------------------------------
(* Programs.                                                               *)

LEMMA StatementTypes ==
  ASSUME NEW p \in Programs, NEW n \in DOMAIN p
  PROVE  /\ Len(p) \in Nat /\ n \in 1 .. Len(p)
         /\ p[n].op \in {"qreg", "CX"}
         /\ p[n].op = "qreg" => /\ p[n].register \in Int /\ p[n].size \in Nat
                                /\ QubitsOf(p[n]) \subseteq Names
                                /\ QubitsOf(p[n]) \cap DeclaredBefore(p, n) = {}
         /\ p[n].op = "CX" => /\ <<p[n].ctrl, p[n].tgt>> \in CNOTPair
                              /\ {p[n].ctrl, p[n].tgt} \subseteq DeclaredBefore(p, n)
<1>1. WellFormed(p)
  BY ProgramAssumption
<1>2. p \in Seq(Statements)
  BY <1>1 DEF WellFormed
<1>3. /\ Len(p) \in Nat /\ n \in 1 .. Len(p) /\ p[n] \in Statements
  BY <1>2, LenProperties, ElementOfSeq
<1>4. p[n].op \in {"qreg", "CX"}
  BY <1>3 DEF Statements
<1>5. CASE p[n].op = "qreg"
  <2>1. p[n].register \in Int /\ p[n].size \in Nat
    BY <1>3, <1>5 DEF Statements
  <2>2. QubitsOf(p[n]) \subseteq Names /\ QubitsOf(p[n]) \cap DeclaredBefore(p, n) = {}
    BY <1>1, <1>5 DEF WellFormed
  <2>3. QED
    BY <1>3, <1>5, <2>1, <2>2
<1>6. CASE p[n].op = "CX"
  <2>1. p[n].ctrl \in Names /\ p[n].tgt \in Names
    BY <1>3, <1>6 DEF Statements
  <2>2. p[n].ctrl # p[n].tgt /\ {p[n].ctrl, p[n].tgt} \subseteq DeclaredBefore(p, n)
    BY <1>1, <1>6 DEF WellFormed
  <2>3. QED
    BY <1>3, <1>6, <2>1, <2>2 DEF CNOTPair
<1>7. QED
  BY <1>4, <1>5, <1>6

LEMMA ProgramLength ==
  ASSUME NEW p \in Programs
  PROVE  Len(p) \in Nat /\ DOMAIN p = 1 .. Len(p)
<1>1. p \in Seq(Statements)
  BY ProgramAssumption DEF WellFormed
<1>2. QED
  BY <1>1, LenProperties

LEMMA DeclaredInNames ==
  ASSUME NEW p \in Programs, NEW n
  PROVE  DeclaredBefore(p, n) \subseteq Names
<1>1. ASSUME NEW m \in DOMAIN p, p[m].op = "qreg" PROVE QubitsOf(p[m]) \subseteq Names
  BY <1>1, StatementTypes
<1>2. QED
  BY <1>1 DEF DeclaredBefore

LEMMA DeclaredGrows ==
  ASSUME NEW p \in Programs, NEW n \in 1 .. Len(p)
  PROVE  /\ p[n].op = "qreg" => DeclaredBefore(p, n + 1) = DeclaredBefore(p, n) \cup QubitsOf(p[n])
         /\ p[n].op # "qreg" => DeclaredBefore(p, n + 1) = DeclaredBefore(p, n)
<1>1. Len(p) \in Nat /\ DOMAIN p = 1 .. Len(p)
  BY ProgramLength
<1>2. \A k \in DOMAIN p : k < n + 1 <=> k < n \/ k = n
  BY <1>1
<1>3. QED
  BY <1>1, <1>2 DEF DeclaredBefore

LEMMA DeclaredByEnd ==
  ASSUME NEW p \in Programs, NEW n \in 1 .. Len(p) + 1
  PROVE  DeclaredBefore(p, n) \subseteq DeclaredBefore(p, Len(p) + 1)
<1>1. Len(p) \in Nat /\ DOMAIN p = 1 .. Len(p)
  BY ProgramLength
<1>2. \A k \in DOMAIN p : k < Len(p) + 1
  BY <1>1
<1>3. QED
  BY <1>2 DEF DeclaredBefore

LEMMA FirstNaturals ==
  ASSUME NEW n \in Nat
  PROVE  IsFiniteSet(0 .. n - 1) /\ Cardinality(0 .. n - 1) = n
<1>1. n - 1 \in Int /\ 0 \in Int /\ (0 > n - 1 <=> n = 0) /\ n - 1 - 0 + 1 = n
  OBVIOUS
<1>2. \A a, b \in Int : IsFiniteSet(a .. b) /\ Cardinality(a .. b) = IF a > b THEN 0 ELSE b - a + 1
  BY FS_Interval
<1>3. QED
  BY <1>1, <1>2

LEMMA SizeOfRegister ==
  ASSUME NEW s, s.register \in Int, s.size \in Nat
  PROVE  IsFiniteSet(QubitsOf(s)) /\ Cardinality(QubitsOf(s)) = s.size
<1> DEFINE f == [i \in 0 .. s.size - 1 |-> <<s.register, i>>]
<1>1. f \in Bijection(0 .. s.size - 1, QubitsOf(s))
  <2>1. f \in [0 .. s.size - 1 -> QubitsOf(s)]
    BY DEF QubitsOf
  <2>2. \A i, j \in 0 .. s.size - 1 : f[i] = f[j] => i = j
    OBVIOUS
  <2>3. \A x \in QubitsOf(s) : \E i \in 0 .. s.size - 1 : f[i] = x
    BY DEF QubitsOf
  <2>4. QED
    BY <2>1, <2>2, <2>3, Fun_IsBij
<1>2. IsFiniteSet(0 .. s.size - 1) /\ Cardinality(0 .. s.size - 1) = s.size
  BY FirstNaturals
<1>3. ExistsBijection(0 .. s.size - 1, QubitsOf(s))
  <2>1. \A A, B, g : g \in Bijection(A, B) => ExistsBijection(A, B)
    BY DEF ExistsBijection
  <2>2. QED
    BY <1>1, <2>1
<1>4. QED
  BY <1>2, <1>3, FS_Bijection

-----------------------------------------------------------------------------
(* Places.                                                                 *)

PlacedBy(l) == {q \in Names : l[q] # Nowhere}

OneEach(l, a) ==
  /\ \A q, r \in PlacedBy(l) : l[q] = l[r] => q = r
  /\ a = {l[q] : q \in PlacedBy(l)}

(* A qubit can be put where it is already, or from nowhere to a free place. *)
LEMMA PlaceOne ==
  ASSUME NEW l \in Layouts, NEW a, OneEach(l, a), NEW q \in Names, NEW p \in Qubits,
         l[q] = p \/ (l[q] = Nowhere /\ p \notin a),
         NEW m, m = [l EXCEPT ![q] = p]
  PROVE  /\ m \in Layouts
         /\ OneEach(m, a \cup {p})
         /\ PlacedBy(m) = PlacedBy(l) \cup {q}
<1>1. m \in Layouts /\ m[q] = p /\ \A r \in Names : r # q => m[r] = l[r]
  BY DEF Layouts
<1>2. p # Nowhere
  BY DeviceAssumption DEF Qubits, Nowhere
<1>3. PlacedBy(m) = PlacedBy(l) \cup {q}
  BY <1>1, <1>2 DEF PlacedBy
<1>4. \A r \in PlacedBy(l) : r # q => m[r] = l[r] /\ l[r] # p
  <2>1. CASE l[q] = p
    BY <1>1, <1>2, <2>1 DEF PlacedBy, OneEach
  <2>2. CASE p \notin a
    BY <1>1, <2>2 DEF PlacedBy, OneEach
  <2>3. QED
    BY <2>1, <2>2
<1>5. ASSUME NEW r \in PlacedBy(m), NEW s \in PlacedBy(m), m[r] = m[s] PROVE r = s
  <2>1. CASE r # q /\ s # q
    BY <1>3, <1>4, <1>5, <2>1 DEF OneEach
  <2>2. CASE r = q \/ s = q
    BY <1>1, <1>3, <1>4, <1>5, <2>2
  <2>3. QED
    BY <2>1, <2>2
<1>6. a \cup {p} = {m[r] : r \in PlacedBy(m)}
  <2>1. a = {l[r] : r \in PlacedBy(l)}
    BY DEF OneEach
  <2>2. CASE q \in PlacedBy(l)
    <3>1. l[q] = p
      BY <2>1, <2>2 DEF PlacedBy
    <3>2. \A r \in PlacedBy(l) : m[r] = l[r]
      BY <1>1, <1>4, <3>1
    <3>3. PlacedBy(m) = PlacedBy(l) /\ p \in a
      BY <1>3, <2>1, <2>2, <3>1
    <3>4. QED
      BY <2>1, <3>2, <3>3
  <2>3. CASE q \notin PlacedBy(l)
    <3>1. \A r \in PlacedBy(l) : m[r] = l[r]
      BY <1>4, <2>3
    <3>2. {m[r] : r \in PlacedBy(m)} = {m[r] : r \in PlacedBy(l)} \cup {m[q]}
      BY <1>3
    <3>3. {m[r] : r \in PlacedBy(l)} = {l[r] : r \in PlacedBy(l)}
      BY <3>1
    <3>4. QED
      BY <1>1, <2>1, <3>2, <3>3
  <2>4. QED
    BY <2>2, <2>3
<1>7. \A r, s \in PlacedBy(m) : m[r] = m[s] => r = s
  BY <1>5
<1>8. QED
  BY <1>1, <1>3, <1>6, <1>7 DEF OneEach

(* Exchanging the places of two qubits takes no other place. *)
LEMMA ExchangePlaces ==
  ASSUME NEW l \in Layouts, NEW a, OneEach(l, a),
         NEW x \in PlacedBy(l), NEW y \in PlacedBy(l), x # y,
         NEW m \in Layouts, m[x] = l[y], m[y] = l[x],
         \A r \in Names : r # x /\ r # y => m[r] = l[r]
  PROVE  /\ OneEach(m, a)
         /\ PlacedBy(m) = PlacedBy(l)
<1>1. x \in Names /\ y \in Names /\ l[x] # Nowhere /\ l[y] # Nowhere
  BY DEF PlacedBy
<1>2. /\ m[x] = l[y] /\ m[y] = l[x]
      /\ \A r \in Names : r # x /\ r # y => m[r] = l[r]
  OBVIOUS
<1>3. PlacedBy(m) = PlacedBy(l)
  BY <1>1, <1>2 DEF PlacedBy
<1>4. \A r \in PlacedBy(l) : r \in Names
  BY DEF PlacedBy
<1>5. ASSUME NEW r \in PlacedBy(m), NEW s \in PlacedBy(m), m[r] = m[s] PROVE r = s
  <2>1. \A u, v \in PlacedBy(l) : l[u] = l[v] => u = v
    BY DEF OneEach
  <2>2. r \in PlacedBy(l) /\ s \in PlacedBy(l)
    BY <1>3
  <2>3. CASE r = x
    BY <1>2, <1>4, <1>5, <2>1, <2>2, <2>3
  <2>4. CASE r = y
    BY <1>2, <1>4, <1>5, <2>1, <2>2, <2>4
  <2>5. CASE r # x /\ r # y
    BY <1>2, <1>4, <1>5, <2>1, <2>2, <2>5
  <2>6. QED
    BY <2>3, <2>4, <2>5
<1>6. \A p : (\E r \in PlacedBy(l) : p = l[r]) <=> (\E r \in PlacedBy(l) : p = m[r])
  BY <1>2, <1>4
<1>7. {l[r] : r \in PlacedBy(l)} = {m[r] : r \in PlacedBy(l)}
  BY <1>6
<1>8. \A r, s \in PlacedBy(m) : m[r] = m[s] => r = s
  BY <1>5
<1>9. QED
  BY <1>2, <1>3, <1>7, <1>8 DEF OneEach

(* As many qubits have a place as places are taken. *)
LEMMA PlacesTaken ==
  ASSUME NEW l \in Layouts, NEW a, OneEach(l, a)
  PROVE  /\ IsFiniteSet(PlacedBy(l))
         /\ Cardinality(PlacedBy(l)) = Cardinality(a)
<1> DEFINE f == [q \in PlacedBy(l) |-> l[q]]
<1>1. IsFiniteSet(PlacedBy(l))
  BY DeviceAssumption, FS_Subset DEF PlacedBy
<1>2. f \in Bijection(PlacedBy(l), a)
  <2>1. f \in [PlacedBy(l) -> a]
    BY DEF OneEach
  <2>2. \A q, r \in PlacedBy(l) : f[q] = f[r] => q = r
    BY DEF OneEach
  <2>3. \A p \in a : \E q \in PlacedBy(l) : f[q] = p
    BY DEF OneEach
  <2>4. QED
    BY <2>1, <2>2, <2>3, Fun_IsBij
<1>3. ExistsBijection(PlacedBy(l), a)
  <2>1. \A A, B, g : g \in Bijection(A, B) => ExistsBijection(A, B)
    BY DEF ExistsBijection
  <2>2. QED
    BY <1>2, <2>1
<1>4. QED
  BY <1>1, <1>3, FS_Bijection

(* A sequence without its element number n *)
Without(s, n) == SubSeq(s, 1, n - 1) \o SubSeq(s, n + 1, Len(s))

LEMMA WithoutOne ==
  ASSUME NEW S, NEW s \in Seq(S), NEW n \in 1 .. Len(s),
         NEW t, t = Without(s, n)
  PROVE  /\ t \in Seq(S) /\ Len(t) = Len(s) - 1
         /\ \A i \in 1 .. Len(t) : /\ i < n => t[i] = s[i]
                                   /\ ~(i < n) => t[i] = s[i + 1]
<1> DEFINE u == SubSeq(s, 1, n - 1)
           v == SubSeq(s, n + 1, Len(s))
<1>1. Len(s) \in Nat /\ \A i \in 1 .. Len(s) : s[i] \in S
  BY LenProperties, ElementOfSeq
<1>2. /\ u \in Seq(S) /\ Len(u) = n - 1
      /\ \A i \in 1 .. n - 1 : u[i] = s[i]
  <2>1. /\ u \in Seq(S) /\ Len(u) = IF 1 <= n - 1 THEN (n - 1) - 1 + 1 ELSE 0
        /\ \A i \in 1 .. (n - 1) - 1 + 1 : u[i] = s[1 + i - 1]
    BY <1>1, SubSeqProperties
  <2>2. QED
    BY <1>1, <2>1
<1>3. /\ v \in Seq(S) /\ Len(v) = Len(s) - n
      /\ \A i \in 1 .. Len(s) - n : v[i] = s[n + i]
  <2>1. /\ v \in Seq(S) /\ Len(v) = IF n + 1 <= Len(s) THEN Len(s) - (n + 1) + 1 ELSE 0
        /\ \A i \in 1 .. Len(s) - (n + 1) + 1 : v[i] = s[n + 1 + i - 1]
    BY <1>1, SubSeqProperties
  <2>2. QED
    BY <1>1, <2>1
<1>4. /\ t \in Seq(S) /\ Len(t) = Len(u) + Len(v)
      /\ \A i \in 1 .. Len(u) + Len(v) : t[i] = IF i <= Len(u) THEN u[i] ELSE v[i - Len(u)]
  BY <1>2, <1>3, ConcatProperties DEF Without
<1> HIDE DEF u, v
<1>5. Len(t) = Len(s) - 1
  <2>1. Len(t) = (n - 1) + (Len(s) - n)
    BY <1>2, <1>3, <1>4, Zenon
  <2>2. \A j, k \in Int : (k - 1) + (j - k) = j - 1
    OBVIOUS
  <2>3. n \in Int /\ Len(s) \in Int
    BY <1>1
  <2>4. QED
    BY <2>1, <2>2, <2>3, Zenon
<1>6. ASSUME NEW i \in 1 .. Len(t)
      PROVE  (i < n => t[i] = s[i]) /\ (~(i < n) => t[i] = s[i + 1])
  <2>1. CASE i < n
    <3>1. i <= Len(u) /\ i \in 1 .. n - 1 /\ i \in 1 .. Len(u) + Len(v)
      BY <1>1, <1>2, <1>3, <1>5, <2>1
    <3>2. QED
      BY <1>2, <1>4, <2>1, <3>1
  <2>2. CASE ~(i < n)
    <3>1. /\ ~(i <= n - 1) /\ i - (n - 1) \in 1 .. Len(s) - n /\ i \in 1 .. (n - 1) + (Len(s) - n)
          /\ n + (i - (n - 1)) = i + 1
      <4>1. \A j \in Nat : \A k \in 1 .. j : \A h \in 1 .. j - 1 : ~(h < k) =>
              /\ ~(h <= k - 1) /\ h - (k - 1) \in 1 .. j - k /\ h \in 1 .. (k - 1) + (j - k)
              /\ k + (h - (k - 1)) = h + 1
        OBVIOUS
      <4>2. i \in 1 .. Len(s) - 1
        BY <1>5, Zenon
      <4>3. QED
        BY <1>1, <2>2, <4>1, <4>2, Zenon
    <3>2. t[i] = v[i - (n - 1)]
      <4>1. \A k \in 1 .. (n - 1) + (Len(s) - n) :
              t[k] = IF k <= n - 1 THEN u[k] ELSE v[k - (n - 1)]
        BY <1>2, <1>3, <1>4, Zenon
      <4>2. QED
        BY <3>1, <4>1, Zenon
    <3>3. v[i - (n - 1)] = s[n + (i - (n - 1))]
      BY <1>3, <3>1
    <3>4. QED
      BY <2>2, <3>1, <3>2, <3>3
  <2>3. QED
    BY <2>1, <2>2
<1>7. QED
  BY <1>4, <1>5, <1>6

-----------------------------------------------------------------------------
(* What the loop over the couplings does, in terms of these lemmas         *)
LEMMA AssignKeeps ==
  ASSUME TypeInv, OneEach(layout, allocated),
         NEW c, NEW t, <<c, t>> \in CNOTPair,
         Assign(c, t)
  PROVE  /\ layout' \in Layouts
         /\ allocated' \in SUBSET Qubits
         /\ couplings' \in Seq(Coupling)
         /\ OneEach(layout', allocated')
         /\ PlacedBy(layout) \subseteq PlacedBy(layout')
         /\ PlacedBy(layout') \subseteq PlacedBy(layout) \cup {c, t}
<1>1. layout \in Layouts /\ allocated \in SUBSET Qubits /\ couplings \in Seq(Coupling)
  BY DEF TypeInv
<1>2. c \in Names /\ t \in Names /\ c # t
  BY DEF CNOTPair
<1>3. CASE Best(c, t) = {}
  <2>1. layout' = layout /\ allocated' = allocated /\ couplings' = couplings
    BY <1>3 DEF Assign
  <2>2. QED
    BY <1>1, <2>1
<1>4. CASE Best(c, t) # {}
  <2>1. PICK n \in Best(c, t) :
          /\ layout' = [layout EXCEPT ![c] = couplings[n][1], ![t] = couplings[n][2]]
          /\ allocated' = allocated \cup {couplings[n][1], couplings[n][2]}
          /\ couplings' = SubSeq(couplings, 1, n - 1) \o SubSeq(couplings, n + 1, Len(couplings))
    BY <1>4 DEF Assign
  <2>2. n \in 1 .. Len(couplings) /\ Usable(c, t, n)
    BY <1>1, LenProperties DEF Best
  <2>3. PICK p, r : p = couplings[n][1] /\ r = couplings[n][2]
    OBVIOUS
  <2>4. p \in Qubits /\ r \in Qubits /\ p # r
    BY <1>1, <2>2, <2>3, ElementOfSeq DEF Coupling
  <2>5. /\ layout[c] = p \/ (layout[c] = Nowhere /\ p \notin allocated)
        /\ layout[t] = r \/ (layout[t] = Nowhere /\ r \notin allocated)
    BY <2>2, <2>3 DEF Usable, CanBe
  <2>6. PICK l, a : l = [layout EXCEPT ![c] = p] /\ a = allocated \cup {p}
    OBVIOUS
  <2>7. layout' = [l EXCEPT ![t] = r] /\ allocated' = a \cup {r} /\ l[t] = layout[t]
    BY <1>1, <1>2, <2>1, <2>3, <2>6 DEF Layouts
  <2>8. /\ l \in Layouts /\ OneEach(l, a)
        /\ PlacedBy(l) = PlacedBy(layout) \cup {c}
    BY <1>1, <1>2, <2>4, <2>5, <2>6, PlaceOne
  <2>9. /\ layout' \in Layouts /\ OneEach(layout', allocated')
        /\ PlacedBy(layout') = PlacedBy(l) \cup {t}
    <3>1. l[t] = r \/ (l[t] = Nowhere /\ r \notin a)
      BY <2>4, <2>5, <2>6, <2>7
    <3>2. l \in Layouts /\ OneEach(l, a) /\ t \in Names /\ r \in Qubits
      BY <1>2, <2>4, <2>8
    <3>3. PICK m : m = [l EXCEPT ![t] = r]
      OBVIOUS
    <3>4. m \in Layouts /\ OneEach(m, a \cup {r}) /\ PlacedBy(m) = PlacedBy(l) \cup {t}
      BY <3>1, <3>2, <3>3, PlaceOne
    <3>5. m = layout' /\ allocated' = a \cup {r}
      BY <2>7, <3>3
    <3>6. QED
      BY <3>4, <3>5, Zenon
  <2>10. allocated' \in SUBSET Qubits
    BY <1>1, <2>4, <2>6, <2>7
  <2>11. couplings' \in Seq(Coupling)
    <3>1. n \in 1 .. Len(couplings) /\ couplings \in Seq(Coupling)
      BY <1>1, <2>2
    <3>2. couplings' = Without(couplings, n)
      BY <2>1 DEF Without
    <3>3. QED
      BY <3>1, <3>2, WithoutOne, Zenon
  <2>12. QED
    BY <2>8, <2>9, <2>10, <2>11
<1>5. QED
  BY <1>3, <1>4

(* A pass over couplings keeps what PlaceInv says if the pair is declared. *)
LEMMA AssignPlaces ==
  ASSUME TypeInv, PlaceInv, alg # "linear", alg' = alg, declared' = declared,
         NEW c, NEW t, <<c, t>> \in CNOTPair, {c, t} \subseteq declared,
         Assign(c, t)
  PROVE  OnePlaceEach' /\ (Placed \subseteq declared)' /\ LinearInv'
<1>1. OneEach(layout, allocated) /\ PlacedBy(layout) \subseteq declared
  BY DEF PlaceInv, OnePlaceEach, OneEach, Placed, PlacedBy
<1>2. OneEach(layout', allocated') /\ PlacedBy(layout') \subseteq declared
  BY <1>1, AssignKeeps
<1>3. OnePlaceEach' /\ (Placed \subseteq declared)'
  BY <1>2 DEF OnePlaceEach, OneEach, Placed, PlacedBy
<1>4. QED
  BY <1>3 DEF LinearInv

-----------------------------------------------------------------------------
(* The invariant, action by action.                                        *)

LEMMA InitInv ==
  ASSUME Init
  PROVE  IInv
<1>1. program \in Programs /\ Len(program) \in Nat /\ DOMAIN program = 1 .. Len(program)
  BY ProgramLength DEF Init
<1>2. TypeInv
  <2>1. layout \in Layouts
    BY DEF Init, Layouts
  <2>2. couplings \in Seq(Coupling)
    BY CouplingAssumption DEF Init, Coupling
  <2>3. at \in 1 .. Len(program) + 1
    BY <1>1 DEF Init
  <2>4. QED
    BY <2>1, <2>2, <2>3 DEF Init, TypeInv, Phases
<1>3. ProgressInv
  <2>1. DeclaredBefore(program, 1) = {}
    <3>1. \A k \in DOMAIN program : ~(k < 1)
      BY <1>1
    <3>2. QED
      BY <3>1 DEF DeclaredBefore
  <2>2. QED
    BY <2>1 DEF Init, ProgressInv
<1>4. PlaceInv
  <2>1. Placed = {}
    BY DEF Init, Placed
  <2>2. OnePlaceEach
    BY <2>1 DEF Init, OnePlaceEach
  <2>3. 0 .. Cardinality({}) - 1 = {}
    BY FS_EmptySet
  <2>4. LinearInv
    BY <2>1, <2>3 DEF Init, LinearInv
  <2>5. QED
    BY <2>1, <2>2, <2>4 DEF Init, PlaceInv, PlacedIfRoom
<1>5. QED
  BY <1>2, <1>3, <1>4 DEF IInv

(* What is left to show of a step that does not end the layout *)
LEMMA StillGoing ==
  ASSUME pc' \notin {"climb", "done", "threw"}
  PROVE  PlacedIfRoom'
BY DEF PlacedIfRoom

LEMMA VisitsRegisterInOrder ==
  ASSUME IInv, pc = "visit", at <= Len(program), DeclareLinear(program[at]),
         at' = at + 1, UNCHANGED <<alg, program, pairs, count>>
  PROVE  IInv'
<1> DEFINE s == program[at]
           n == Cardinality(declared)
<1>1. /\ TypeInv /\ ProgressInv /\ PlaceInv
      /\ s.op = "qreg" /\ alg = "linear" /\ couplings' = couplings
  BY DEF IInv, DeclareLinear
<1>2. /\ program \in Programs /\ Len(program) \in Nat /\ at \in 1 .. Len(program)
      /\ at \in DOMAIN program
  BY <1>1, ProgramLength DEF TypeInv
<1>3. /\ s.register \in Int /\ s.size \in Nat /\ QubitsOf(s) \subseteq Names
      /\ QubitsOf(s) \cap DeclaredBefore(program, at) = {}
  BY <1>1, <1>2, StatementTypes
<1>4. declared = DeclaredBefore(program, at)
  BY <1>1 DEF ProgressInv
<1>5. declared \cup QubitsOf(s) = DeclaredBefore(program, at + 1)
  BY <1>1, <1>2, <1>4, DeclaredGrows
<1>6. /\ IsFiniteSet(declared) /\ n \in Nat
      /\ IsFiniteSet(declared \cup QubitsOf(s))
      /\ Cardinality(declared \cup QubitsOf(s)) = n + s.size
  <2>1. IsFiniteSet(declared) /\ n \in Nat
    BY <1>1, DeviceAssumption, FS_Subset, FS_CardinalityType DEF TypeInv
  <2>2. IsFiniteSet(QubitsOf(s)) /\ Cardinality(QubitsOf(s)) = s.size
    BY <1>3, SizeOfRegister
  <2>3. /\ IsFiniteSet(declared \cup QubitsOf(s))
        /\ Cardinality(declared \cup QubitsOf(s))
             = n + Cardinality(QubitsOf(s)) - Cardinality(declared \cap QubitsOf(s))
    BY <2>1, <2>2, FS_Union
  <2>4. Cardinality(declared \cap QubitsOf(s)) = 0
    <3>1. declared \cap QubitsOf(s) = {}
      BY <1>3, <1>4
    <3>2. QED
      BY <3>1, FS_EmptySet
  <2>5. QED
    BY <1>3, <2>1, <2>2, <2>3, <2>4
<1>7. Placed = declared /\ allocated = 0 .. n - 1
  BY <1>1 DEF PlaceInv, LinearInv
<1> HIDE DEF s, n
<1>8. CASE Fits(n + s.size)
  <2>1. /\ layout' = [q \in Names |-> IF q \in QubitsOf(s) THEN n + q[2] ELSE layout[q]]
        /\ allocated' = allocated \cup n .. n + s.size - 1
        /\ declared' = declared \cup QubitsOf(s)
        /\ pc' = pc
    BY <1>8 DEF DeclareLinear, s, n
  <2>2. \A q \in QubitsOf(s) : /\ layout'[q] = n + q[2] /\ q[2] \in 0 .. s.size - 1
                               /\ q = <<s.register, q[2]>>
    BY <1>3, <2>1 DEF QubitsOf
  <2>3. \A q \in Names \ QubitsOf(s) : layout'[q] = layout[q]
    BY <2>1
  <2>4. \A q \in declared : /\ q \in Names \ QubitsOf(s) /\ layout[q] \in 0 .. n - 1
                            /\ layout[q] # Nowhere
    <3>1. \A q \in declared : q \in Placed /\ q \in Names \ QubitsOf(s)
      BY <1>1, <1>3, <1>4, <1>7 DEF TypeInv
    <3>2. \A q \in Placed : layout[q] \in allocated /\ layout[q] # Nowhere
      BY <1>1 DEF PlaceInv, OnePlaceEach, Placed
    <3>3. QED
      BY <1>7, <3>1, <3>2
  <2>5. n + s.size <= NQ /\ NQ \in Nat
    BY <1>8, DeviceAssumption DEF Fits
  <2>6. layout' \in Layouts
    <3>1. \A q \in QubitsOf(s) : n + q[2] \in Qubits
      BY <1>3, <1>6, <2>2, <2>5 DEF Qubits
    <3>2. layout \in Layouts
      BY <1>1 DEF TypeInv
    <3>3. QED
      BY <2>1, <3>1, <3>2 DEF Layouts
  <2>7. allocated' = 0 .. (n + s.size) - 1
    BY <1>3, <1>6, <1>7, <2>1
  <2>8. Placed' = declared'
    <3>1. \A q \in QubitsOf(s) : layout'[q] # Nowhere
      BY <1>6, <2>2 DEF Nowhere
    <3>2. \A q \in Names : q \notin declared' => layout'[q] = Nowhere
      BY <1>7, <2>1, <2>3 DEF Placed
    <3>3. declared' \subseteq Names
      BY <1>1, <1>3, <2>1 DEF TypeInv
    <3>4. \A q \in declared : layout'[q] # Nowhere
      BY <2>3, <2>4
    <3>5. QED
      BY <2>1, <3>1, <3>2, <3>3, <3>4 DEF Placed
  <2>9. OnePlaceEach'
    <3>1. ASSUME NEW q \in declared', NEW r \in declared', layout'[q] = layout'[r]
          PROVE  q = r
      <4>1. CASE q \in declared /\ r \in declared
        <5>1. layout[q] = layout[r]
          BY <2>3, <2>4, <3>1, <4>1
        <5>2. QED
          BY <1>1, <1>7, <4>1, <5>1 DEF PlaceInv, OnePlaceEach
      <4>2. CASE q \in QubitsOf(s) /\ r \in QubitsOf(s)
        <5>1. q[2] = r[2]
          BY <1>6, <2>2, <3>1, <4>2
        <5>2. QED
          BY <2>2, <4>2, <5>1
      <4>3. CASE q \in declared /\ r \in QubitsOf(s)
        BY <1>6, <2>2, <2>3, <2>4, <3>1, <4>3
      <4>4. CASE r \in declared /\ q \in QubitsOf(s)
        BY <1>6, <2>2, <2>3, <2>4, <3>1, <4>4
      <4>5. QED
        BY <2>1, <4>1, <4>2, <4>3, <4>4
    <3>2. ASSUME NEW p PROVE p \in allocated' <=> \E q \in declared' : p = layout'[q]
      <4>1. ASSUME NEW q \in declared' PROVE layout'[q] \in allocated'
        <5>1. CASE q \in declared
          BY <1>6, <1>7, <2>1, <2>3, <2>4, <5>1
        <5>2. CASE q \in QubitsOf(s)
          BY <1>3, <1>6, <2>2, <2>7, <5>2
        <5>3. QED
          BY <2>1, <5>1, <5>2
      <4>2. ASSUME p \in allocated PROVE \E q \in declared' : p = layout'[q]
        <5>1. PICK q \in Placed : p = layout[q]
          BY <1>1, <4>2 DEF PlaceInv, OnePlaceEach
        <5>2. QED
          BY <1>7, <2>1, <2>3, <2>4, <5>1
      <4>3. ASSUME p \in n .. n + s.size - 1 PROVE \E q \in declared' : p = layout'[q]
        <5>1. p - n \in 0 .. s.size - 1 /\ n + (p - n) = p
          BY <1>3, <1>6, <4>3
        <5>2. <<s.register, p - n>> \in QubitsOf(s)
          BY <5>1 DEF QubitsOf
        <5>3. layout'[<<s.register, p - n>>] = p
          BY <2>2, <5>1, <5>2
        <5>4. QED
          BY <2>1, <5>2, <5>3
      <4>4. QED
        BY <2>1, <4>1, <4>2, <4>3
    <3>3. allocated' = {layout'[q] : q \in Placed'}
      BY <2>8, <3>2
    <3>4. \A q, r \in Placed' : layout'[q] = layout'[r] => q = r
      BY <2>8, <3>1
    <3>5. QED
      BY <3>3, <3>4 DEF OnePlaceEach
  <2>10. TypeInv'
    <3>1. at' \in 1 .. Len(program) + 1 /\ allocated' \in SUBSET Qubits
      BY <1>2, <1>3, <1>6, <2>5, <2>7 DEF Qubits
    <3>2. QED
      BY <1>1, <1>3, <2>1, <2>6, <3>1 DEF TypeInv
  <2>11. ProgressInv'
    <3>1. declared' = DeclaredBefore(program, at')
      BY <1>5, <2>1
    <3>2. \A k \in DOMAIN pairs : {pairs[k][1], pairs[k][2]} \subseteq declared'
      BY <1>1, <2>1 DEF ProgressInv
    <3>3. QED
      BY <2>1, <3>1, <3>2 DEF ProgressInv
  <2>12. LinearInv'
    BY <1>6, <2>1, <2>7, <2>8 DEF LinearInv
  <2>13. PlacedIfRoom'
    BY <2>1, StillGoing
  <2>14. QED
    BY <2>8, <2>9, <2>10, <2>11, <2>12, <2>13 DEF IInv, PlaceInv
<1>9. CASE ~Fits(n + s.size)
  <2>1. pc' = "threw" /\ layout' = layout /\ allocated' = allocated /\ declared' = declared
    BY <1>9 DEF DeclareLinear, s, n
  <2>2. PlacedIfRoom'
    <3>1. declared \cup QubitsOf(s) \subseteq DeclaredBefore(program, Len(program) + 1)
      <4>1. at + 1 \in 1 .. Len(program) + 1
        BY <1>2
      <4>2. QED
        BY <1>2, <1>5, <4>1, DeclaredByEnd
    <3>2. /\ IsFiniteSet(DeclaredBefore(program, Len(program) + 1))
          /\ Cardinality(DeclaredBefore(program, Len(program) + 1)) \in Nat
      BY <1>2, DeclaredInNames, DeviceAssumption, FS_Subset, FS_CardinalityType
    <3>3. n + s.size <= Cardinality(DeclaredBefore(program, Len(program) + 1))
      BY <1>6, <3>1, <3>2, FS_Subset
    <3>4. Cardinality(DeclaredBefore(program, Len(program) + 1)) > NQ
      BY <1>3, <1>6, <1>9, <3>2, <3>3, DeviceAssumption DEF Fits
    <3>5. QED
      BY <2>1, <3>4 DEF PlacedIfRoom
  <2>3. TypeInv'
    <3>1. at' \in 1 .. Len(program) + 1
      BY <1>2
    <3>2. QED
      BY <1>1, <2>1, <3>1 DEF TypeInv, Phases
  <2>4. ProgressInv'
    BY <1>1, <2>1 DEF ProgressInv
  <2>5. OnePlaceEach' /\ (Placed \subseteq declared)' /\ LinearInv'
    BY <1>1, <2>1 DEF PlaceInv, OnePlaceEach, Placed, LinearInv
  <2>6. QED
    BY <2>2, <2>3, <2>4, <2>5 DEF IInv, PlaceInv
<1>10. QED
  BY <1>8, <1>9

LEMMA VisitsRegister ==
  ASSUME IInv, pc = "visit", at <= Len(program), Declare(program[at]),
         at' = at + 1, UNCHANGED <<alg, program, pairs, count>>
  PROVE  IInv'
<1>1. /\ TypeInv /\ ProgressInv /\ PlaceInv
      /\ program[at].op = "qreg" /\ alg # "linear"
      /\ declared' = declared \cup QubitsOf(program[at])
      /\ UNCHANGED <<pc, layout, allocated, couplings>>
  BY DEF IInv, Declare
<1>2. /\ program \in Programs /\ Len(program) \in Nat /\ at \in 1 .. Len(program)
      /\ at \in DOMAIN program
  BY <1>1, ProgramLength DEF TypeInv
<1>3. TypeInv'
  <2>1. at' \in 1 .. Len(program) + 1
    BY <1>2
  <2>2. QubitsOf(program[at]) \subseteq Names
    BY <1>1, <1>2, StatementTypes
  <2>3. QED
    BY <1>1, <2>1, <2>2 DEF TypeInv
<1>4. ProgressInv'
  <2>1. declared' = DeclaredBefore(program, at')
    BY <1>1, <1>2, DeclaredGrows DEF ProgressInv
  <2>2. QED
    BY <1>1, <2>1 DEF ProgressInv
<1>5. PlaceInv'
  <2>1. OnePlaceEach' /\ (Placed \subseteq declared)' /\ LinearInv'
    BY <1>1 DEF PlaceInv, OnePlaceEach, Placed, LinearInv
  <2>2. QED
    BY <1>1, <2>1, StillGoing DEF PlaceInv
<1>6. QED
  BY <1>3, <1>4, <1>5 DEF IInv

LEMMA VisitsCNOT ==
  ASSUME IInv, pc = "visit", at <= Len(program), VisitCNOT(program[at]),
         at' = at + 1, UNCHANGED <<alg, program, pairs, count>>
  PROVE  IInv'
<1>1. /\ TypeInv /\ ProgressInv /\ PlaceInv
      /\ program[at].op = "CX" /\ UNCHANGED <<declared, pc>>
  BY DEF IInv, VisitCNOT
<1>2. /\ program \in Programs /\ Len(program) \in Nat /\ at \in 1 .. Len(program)
      /\ at \in DOMAIN program
  BY <1>1, ProgramLength DEF TypeInv
<1>3. declared = DeclaredBefore(program, at)
  BY <1>1 DEF ProgressInv
<1>4. PICK c, t : c = program[at].ctrl /\ t = program[at].tgt
  OBVIOUS
<1>5. <<c, t>> \in CNOTPair /\ {c, t} \subseteq declared
  BY <1>1, <1>2, <1>3, <1>4, StatementTypes
<1>6. at' \in 1 .. Len(program) + 1
  BY <1>2
<1>7. ProgressInv'
  <2>1. declared' = DeclaredBefore(program, at')
    BY <1>1, <1>2, <1>3, DeclaredGrows
  <2>2. QED
    BY <1>1, <2>1 DEF ProgressInv
<1>8. CASE alg = "eager"
  <2>1. Assign(c, t)
    BY <1>4, <1>8 DEF VisitCNOT
  <2>2. OneEach(layout, allocated)
    BY <1>1 DEF PlaceInv, OnePlaceEach, OneEach, Placed, PlacedBy
  <2>3. layout' \in Layouts /\ allocated' \in SUBSET Qubits /\ couplings' \in Seq(Coupling)
    BY <1>1, <1>5, <2>1, <2>2, AssignKeeps
  <2>4. TypeInv'
    BY <1>1, <1>6, <2>3 DEF TypeInv
  <2>5. OnePlaceEach' /\ (Placed \subseteq declared)' /\ LinearInv'
    BY <1>1, <1>5, <1>8, <2>1, AssignPlaces
  <2>6. QED
    BY <1>1, <1>7, <2>4, <2>5, StillGoing DEF IInv, PlaceInv
<1>9. CASE alg # "eager"
  <2>1. UNCHANGED <<layout, allocated, couplings>>
    BY <1>9 DEF VisitCNOT
  <2>2. TypeInv'
    BY <1>1, <1>6, <2>1 DEF TypeInv
  <2>3. OnePlaceEach' /\ (Placed \subseteq declared)' /\ LinearInv'
    BY <1>1, <2>1 DEF PlaceInv, OnePlaceEach, Placed, LinearInv
  <2>4. QED
    BY <1>1, <1>7, <2>2, <2>3, StillGoing DEF IInv, PlaceInv
<1>10. QED
  BY <1>8, <1>9

LEMMA HistogramPairs ==
  ASSUME IInv, pc = "visit", at > Len(program)
  PROVE  /\ IsFiniteSet(Histogram) /\ Histogram \subseteq CNOTPair
         /\ \A pair \in Histogram : {pair[1], pair[2]} \subseteq declared
<1>1. TypeInv /\ declared = DeclaredBefore(program, at)
  BY DEF IInv, ProgressInv
<1>2. /\ program \in Programs /\ Len(program) \in Nat /\ at = Len(program) + 1
      /\ DOMAIN program = 1 .. Len(program)
  BY <1>1, ProgramLength DEF TypeInv
<1>3. ASSUME NEW n \in DOMAIN program, program[n].op = "CX"
      PROVE  /\ <<program[n].ctrl, program[n].tgt>> \in CNOTPair
             /\ {program[n].ctrl, program[n].tgt} \subseteq declared
  <2>1. /\ <<program[n].ctrl, program[n].tgt>> \in CNOTPair
        /\ {program[n].ctrl, program[n].tgt} \subseteq DeclaredBefore(program, n)
    BY <1>2, <1>3, StatementTypes
  <2>2. DeclaredBefore(program, n) \subseteq DeclaredBefore(program, Len(program) + 1)
    BY <1>2, DeclaredByEnd
  <2>3. QED
    BY <1>1, <1>2, <2>1, <2>2
<1>4. Histogram \subseteq CNOTPair /\ \A pair \in Histogram : {pair[1], pair[2]} \subseteq declared
  BY <1>3 DEF Histogram
<1>5. IsFiniteSet(Histogram)
  <2>1. IsFiniteSet(Names \X Names) /\ Histogram \subseteq Names \X Names
    BY <1>4, DeviceAssumption, FS_Product DEF CNOTPair
  <2>2. QED
    BY <2>1, FS_Subset
<1>6. QED
  BY <1>4, <1>5

LEMMA SortedType ==
  ASSUME NEW S \in SUBSET CNOTPair, IsFiniteSet(S), NEW s \in Sorted(S)
  PROVE  s \in Seq(CNOTPair) /\ \A n \in DOMAIN s : s[n] \in S
<1>1. Cardinality(S) \in Nat
  BY FS_CardinalityType
<1>2. s \in [1 .. Cardinality(S) -> S]
  BY DEF Sorted
<1>3. QED
  BY <1>1, <1>2

LEMMA VisitEnds ==
  ASSUME IInv, EndVisit
  PROVE  IInv'
<1>1. /\ TypeInv /\ ProgressInv /\ PlaceInv /\ pc = "visit" /\ at > Len(program)
      /\ UNCHANGED <<alg, program, at, declared, layout, allocated, couplings>>
  BY DEF IInv, EndVisit
<1>2. /\ alg = "linear" => pc' \in {"climb", "done"}
      /\ alg = "eager" => pc' = "rest"
      /\ alg = "bestfit" => pc' = "fit"
      /\ alg \in {"linear", "eager", "bestfit"}
  BY <1>1 DEF EndVisit, AfterLayout, TypeInv
<1>3. pairs' \in Seq(CNOTPair) /\ \A n \in DOMAIN pairs' : {pairs'[n][1], pairs'[n][2]} \subseteq declared
  <2>1. PICK S : S = (IF alg = "bestfit" THEN Histogram ELSE {}) /\ pairs' \in Sorted(S)
    BY DEF EndVisit
  <2>2. /\ IsFiniteSet(S) /\ S \in SUBSET CNOTPair
        /\ \A pair \in S : {pair[1], pair[2]} \subseteq declared
    BY <1>1, <2>1, HistogramPairs, FS_EmptySet
  <2>3. pairs' \in Seq(CNOTPair) /\ \A n \in DOMAIN pairs' : pairs'[n] \in S
    BY <2>1, <2>2, SortedType
  <2>4. QED
    BY <2>2, <2>3
<1>4. TypeInv'
  BY <1>1, <1>2, <1>3 DEF TypeInv, Phases
<1>5. ProgressInv'
  <2>1. at = Len(program) + 1 /\ declared = DeclaredBefore(program, at)
    BY <1>1, ProgramLength DEF TypeInv, ProgressInv
  <2>2. QED
    BY <1>1, <1>2, <1>3, <2>1 DEF ProgressInv
<1>6. PlaceInv'
  <2>1. OnePlaceEach' /\ (Placed \subseteq declared)' /\ LinearInv'
    BY <1>1 DEF PlaceInv, OnePlaceEach, Placed, LinearInv
  <2>2. PlacedIfRoom'
    BY <1>1, <1>2 DEF PlaceInv, LinearInv, PlacedIfRoom, Placed
  <2>3. QED
    BY <2>1, <2>2 DEF PlaceInv
<1>7. QED
  BY <1>4, <1>5, <1>6 DEF IInv

LEMMA PairFits ==
  ASSUME IInv, FitPair
  PROVE  IInv'
<1>1. /\ TypeInv /\ ProgressInv /\ PlaceInv /\ pc = "fit" /\ pairs # <<>>
      /\ pairs' = Tail(pairs) /\ alg = "bestfit"
      /\ UNCHANGED <<alg, program, at, pc, declared, count>>
  BY DEF IInv, FitPair, ProgressInv
<1>2. PICK c, t : c = Head(pairs)[1] /\ t = Head(pairs)[2]
  OBVIOUS
<1>3. Assign(c, t)
  BY <1>2 DEF FitPair
<1>4. /\ <<c, t>> \in CNOTPair /\ {c, t} \subseteq declared
      /\ Tail(pairs) \in Seq(CNOTPair)
      /\ \A n \in DOMAIN Tail(pairs) : n + 1 \in DOMAIN pairs /\ Tail(pairs)[n] = pairs[n + 1]
  <2>1. pairs \in Seq(CNOTPair) /\ Len(pairs) \in Nat \ {0} /\ DOMAIN pairs = 1 .. Len(pairs)
    BY <1>1, EmptySeq, LenProperties DEF TypeInv
  <2>2. 1 \in DOMAIN pairs /\ Head(pairs) = pairs[1] /\ pairs[1] \in CNOTPair
    BY <2>1
  <2>3. <<c, t>> \in CNOTPair
    BY <1>2, <2>2 DEF CNOTPair
  <2>4. {c, t} \subseteq declared
    BY <1>1, <1>2, <2>2 DEF ProgressInv
  <2>5. Tail(pairs) \in Seq(CNOTPair) /\ Len(Tail(pairs)) = Len(pairs) - 1
        /\ \A i \in 1 .. Len(Tail(pairs)) : Tail(pairs)[i] = pairs[i + 1]
    BY <1>1, <2>1, HeadTailProperties
  <2>6. DOMAIN Tail(pairs) = 1 .. Len(pairs) - 1
    BY <2>5, LenProperties
  <2>7. QED
    BY <2>1, <2>3, <2>4, <2>5, <2>6
<1>5. OneEach(layout, allocated)
  BY <1>1 DEF PlaceInv, OnePlaceEach, OneEach, Placed, PlacedBy
<1>6. layout' \in Layouts /\ allocated' \in SUBSET Qubits /\ couplings' \in Seq(Coupling)
  BY <1>1, <1>3, <1>4, <1>5, AssignKeeps
<1>7. TypeInv'
  BY <1>1, <1>4, <1>6 DEF TypeInv
<1>8. ProgressInv'
  <2>1. \A n \in DOMAIN pairs' : {pairs'[n][1], pairs'[n][2]} \subseteq declared
    BY <1>1, <1>4 DEF ProgressInv
  <2>2. QED
    BY <1>1, <2>1 DEF ProgressInv
<1>9. OnePlaceEach' /\ (Placed \subseteq declared)' /\ LinearInv'
  BY <1>1, <1>3, <1>4, AssignPlaces
<1>10. QED
  BY <1>1, <1>7, <1>8, <1>9, StillGoing DEF IInv, PlaceInv

LEMMA FitEnds ==
  ASSUME IInv, EndFit
  PROVE  IInv'
<1>1. /\ TypeInv /\ ProgressInv /\ PlaceInv /\ pc = "fit" /\ pc' = "rest"
      /\ UNCHANGED <<alg, program, at, declared, layout, allocated, couplings, pairs, count>>
  BY DEF IInv, EndFit
<1>2. TypeInv'
  BY <1>1 DEF TypeInv, Phases
<1>3. ProgressInv'
  BY <1>1 DEF ProgressInv
<1>4. OnePlaceEach' /\ (Placed \subseteq declared)' /\ LinearInv'
  BY <1>1 DEF PlaceInv, OnePlaceEach, Placed, LinearInv
<1>5. QED
  BY <1>1, <1>2, <1>3, <1>4, StillGoing DEF IInv, PlaceInv

(* Without a free qubit, the program has more qubits than the device. *)
LEMMA NoRoom ==
  ASSUME IInv, pc = "rest", Unplaced # {}, Free = {}
  PROVE  Cardinality(DeclaredBefore(program, Len(program) + 1)) > NQ
<1>1. /\ declared = DeclaredBefore(program, Len(program) + 1)
      /\ declared \in SUBSET Names /\ layout \in Layouts /\ allocated \in SUBSET Qubits
      /\ Placed \subseteq declared
  BY DEF IInv, TypeInv, ProgressInv, PlaceInv
<1>2. OneEach(layout, allocated) /\ PlacedBy(layout) = Placed
  BY DEF IInv, PlaceInv, OnePlaceEach, OneEach, Placed, PlacedBy
<1>3. Cardinality(Placed) = NQ
  <2>1. allocated = 0 .. NQ - 1
    BY <1>1 DEF Free, Qubits
  <2>2. Cardinality(0 .. NQ - 1) = NQ
    BY DeviceAssumption, FirstNaturals
  <2>3. QED
    BY <1>1, <1>2, <2>1, <2>2, PlacesTaken
<1>4. IsFiniteSet(declared) /\ Cardinality(declared) \in Nat
  BY <1>1, DeviceAssumption, FS_Subset, FS_CardinalityType
<1>5. Placed # declared
  BY <1>1 DEF Unplaced, Placed
<1>6. Cardinality(Placed) <= Cardinality(declared) /\ Cardinality(declared) # Cardinality(Placed)
  BY <1>1, <1>4, <1>5, FS_Subset
<1>7. QED
  BY <1>1, <1>3, <1>4, <1>6, DeviceAssumption

LEMMA RestPlaces ==
  ASSUME IInv, PlaceRest
  PROVE  IInv'
<1>1. /\ TypeInv /\ ProgressInv /\ PlaceInv /\ pc = "rest" /\ Unplaced # {} /\ alg # "linear"
      /\ UNCHANGED <<alg, program, at, declared, couplings, pairs, count>>
  BY DEF IInv, PlaceRest, ProgressInv
<1>2. CASE Free = {} /\ pc' = "threw" /\ UNCHANGED <<layout, allocated>>
  <2>1. TypeInv'
    BY <1>1, <1>2 DEF TypeInv, Phases
  <2>2. ProgressInv'
    BY <1>1, <1>2 DEF ProgressInv
  <2>3. OnePlaceEach' /\ (Placed \subseteq declared)' /\ LinearInv'
    BY <1>1, <1>2 DEF PlaceInv, OnePlaceEach, Placed, LinearInv
  <2>4. PlacedIfRoom'
    BY <1>1, <1>2, NoRoom DEF PlacedIfRoom
  <2>5. QED
    BY <2>1, <2>2, <2>3, <2>4 DEF IInv, PlaceInv
<1>3. CASE \E q \in Unplaced : \E p \in Free :
             layout' = [layout EXCEPT ![q] = p] /\ allocated' = Taken(p) /\ UNCHANGED pc
  <2>1. PICK q \in Unplaced, p \in Free :
          layout' = [layout EXCEPT ![q] = p] /\ allocated' = Taken(p) /\ pc' = pc
    BY <1>3
  <2>2. /\ layout \in Layouts /\ OneEach(layout, allocated) /\ allocated' = allocated \cup {p}
        /\ PlacedBy(layout) \subseteq declared
    BY <1>1, <2>1 DEF TypeInv, Taken, PlaceInv, OnePlaceEach, OneEach, Placed, PlacedBy
  <2>3. /\ q \in Names /\ q \in declared /\ layout[q] = Nowhere
        /\ p \in Qubits /\ p \notin allocated
    BY <1>1 DEF TypeInv, Unplaced, Free
  <2>4. PICK m : m = [layout EXCEPT ![q] = p]
    OBVIOUS
  <2>5. m \in Layouts /\ OneEach(m, allocated \cup {p}) /\ PlacedBy(m) = PlacedBy(layout) \cup {q}
    BY <2>2, <2>3, <2>4, PlaceOne
  <2>6. layout' = m
    BY <2>1, <2>4
  <2>7. OnePlaceEach' /\ (Placed \subseteq declared)'
    <3>1. OneEach(layout', allocated') /\ PlacedBy(layout') \subseteq declared
      BY <2>2, <2>3, <2>5, <2>6
    <3>2. QED
      BY <1>1, <3>1 DEF OnePlaceEach, OneEach, Placed, PlacedBy
  <2>8. TypeInv'
    BY <1>1, <2>1, <2>2, <2>3, <2>5, <2>6 DEF TypeInv
  <2>9. ProgressInv'
    BY <1>1, <2>1 DEF ProgressInv
  <2>10. LinearInv' /\ PlacedIfRoom'
    BY <1>1, <2>1, StillGoing DEF LinearInv
  <2>11. QED
    BY <2>7, <2>8, <2>9, <2>10 DEF IInv, PlaceInv
<1>4. QED
  BY <1>2, <1>3 DEF PlaceRest

LEMMA RestEnds ==
  ASSUME IInv, EndRest
  PROVE  IInv'
<1>1. /\ TypeInv /\ ProgressInv /\ PlaceInv /\ pc = "rest" /\ pc' \in {"climb", "done"}
      /\ Unplaced = {}
      /\ UNCHANGED <<alg, program, at, declared, layout, allocated, couplings, pairs>>
  BY DEF IInv, EndRest, AfterLayout
<1>2. TypeInv'
  BY <1>1 DEF TypeInv, Phases
<1>3. ProgressInv'
  BY <1>1 DEF ProgressInv
<1>4. OnePlaceEach' /\ (Placed \subseteq declared)' /\ LinearInv'
  BY <1>1 DEF PlaceInv, OnePlaceEach, Placed, LinearInv
<1>5. Placed = declared
  BY <1>1 DEF TypeInv, PlaceInv, Placed, Unplaced
<1>6. PlacedIfRoom'
  <2>1. Placed' = declared'
    BY <1>1, <1>5 DEF Placed
  <2>2. QED
    BY <1>1, <2>1 DEF PlacedIfRoom
<1>7. QED
  BY <1>2, <1>3, <1>4, <1>6 DEF IInv, PlaceInv

LEMMA Climbs ==
  ASSUME IInv, Climb
  PROVE  IInv'
<1>1. /\ TypeInv /\ ProgressInv /\ PlaceInv /\ pc = "climb" /\ Placed = declared
      /\ UNCHANGED <<alg, program, at, pc, declared, allocated, couplings, pairs>>
  BY DEF IInv, Climb, PlaceInv, PlacedIfRoom
<1>2. PICK x \in declared, y \in declared : x # y /\ layout' = Swapped(x, y)
  BY DEF Climb
<1>3. layout \in Layouts /\ OneEach(layout, allocated) /\ PlacedBy(layout) = declared
  BY <1>1 DEF TypeInv, PlaceInv, OnePlaceEach, OneEach, Placed, PlacedBy
<1>4. PICK m : m = [layout EXCEPT ![x] = layout[y], ![y] = layout[x]]
  OBVIOUS
<1>5. m \in Layouts /\ OneEach(m, allocated) /\ PlacedBy(m) = declared
  <2>1. x \in PlacedBy(layout) /\ y \in PlacedBy(layout) /\ x # y
    BY <1>2, <1>3
  <2>2. layout \in Layouts /\ OneEach(layout, allocated)
    BY <1>3
  <2>3. /\ m \in Layouts /\ m[x] = layout[y] /\ m[y] = layout[x]
        /\ \A r \in Names : r # x /\ r # y => m[r] = layout[r]
    BY <1>4, <2>1, <2>2 DEF Layouts, PlacedBy
  <2>4. OneEach(m, allocated) /\ PlacedBy(m) = PlacedBy(layout)
    BY <2>1, <2>2, <2>3, ExchangePlaces
  <2>5. QED
    BY <1>3, <2>3, <2>4
<1>6. layout' = m
  BY <1>2, <1>4 DEF Swapped
<1>7. OnePlaceEach' /\ Placed' = declared'
  BY <1>1, <1>5, <1>6 DEF OnePlaceEach, OneEach, Placed, PlacedBy
<1>8. TypeInv'
  BY <1>1, <1>5, <1>6 DEF TypeInv
<1>9. ProgressInv'
  BY <1>1 DEF ProgressInv
<1>10. LinearInv' /\ PlacedIfRoom'
  BY <1>1, <1>7 DEF PlaceInv, LinearInv, PlacedIfRoom
<1>11. QED
  BY <1>7, <1>8, <1>9, <1>10 DEF IInv, PlaceInv

LEMMA ClimbEnds ==
  ASSUME IInv, EndClimb
  PROVE  IInv'
<1>1. /\ TypeInv /\ ProgressInv /\ PlaceInv /\ pc = "climb" /\ pc' = "done"
      /\ UNCHANGED <<alg, program, at, declared, layout, allocated, couplings, pairs, count>>
  BY DEF IInv, EndClimb
<1>2. TypeInv'
  BY <1>1 DEF TypeInv, Phases
<1>3. ProgressInv'
  BY <1>1 DEF ProgressInv
<1>4. OnePlaceEach' /\ (Placed \subseteq declared)' /\ LinearInv' /\ PlacedIfRoom'
  BY <1>1 DEF PlaceInv, OnePlaceEach, Placed, LinearInv, PlacedIfRoom
<1>5. QED
  BY <1>2, <1>3, <1>4 DEF IInv, PlaceInv

LEMMA StepInv ==
  ASSUME IInv, [Next]_vars
  PROVE  IInv'
<1>1. CASE Visit
  <2>1. /\ pc = "visit" /\ at <= Len(program) /\ at' = at + 1
        /\ UNCHANGED <<alg, program, pairs, count>>
    BY <1>1 DEF Visit
  <2>2. DeclareLinear(program[at]) \/ Declare(program[at]) \/ VisitCNOT(program[at])
    BY <1>1 DEF Visit
  <2>3. QED
    BY <2>1, <2>2, VisitsRegisterInOrder, VisitsRegister, VisitsCNOT
<1>2. CASE UNCHANGED vars
  BY <1>2 DEF vars, IInv, TypeInv, ProgressInv, PlaceInv, OnePlaceEach, Placed, LinearInv,
              PlacedIfRoom
<1>3. QED
  BY <1>1, <1>2, VisitEnds, PairFits, FitEnds, RestPlaces, RestEnds, Climbs, ClimbEnds DEF Next

(* Everything the invariant says, for every device and program *)
THEOREM Invariance == Spec => []IInv
<1>1. Init => IInv
  BY InitInv
<1>2. IInv /\ [Next]_vars => IInv'
  BY StepInv
<1>3. QED
  BY <1>1, <1>2, PTL DEF Spec

(* No two qubits of a program are ever put on one physical qubit: the      *)
(* guards on allocated_ in the visitors and the exchange in the hill climb *)
(* are enough, whatever the couplings and the count of the dry run.        *)
THEOREM PlacesAreDistinct == Spec => []OnePlaceEach
<1>1. IInv => OnePlaceEach
  BY DEF IInv, PlaceInv
<1>2. QED
  BY <1>1, Invariance, PTL

(* Every declared qubit gets a place, and a program is refused ("Not       *)
(* enough physical qubits") only if it declares more than the device has.  *)
THEOREM EveryQubitPlaced == Spec => []PlacedIfRoom
<1>1. IInv => PlacedIfRoom
  BY DEF IInv, PlaceInv
<1>2. QED
  BY <1>1, Invariance, PTL

-----------------------------------------------------------------------------
(* Couplings that are passed over.  A coupling that cannot serve a pair    *)
(* now never will: places are only ever taken, and a qubit goes only where *)
(* it could have gone before.                                              *)

CanBeIn(l, a, q, p) == l[q] = p \/ (l[q] = Nowhere /\ p \notin a)

Serves(l, a, e, pair) == CanBeIn(l, a, pair[1], e[1]) /\ CanBeIn(l, a, pair[2], e[2])

CNOTsBefore(n) == {<<program[k].ctrl, program[k].tgt>> :
                     k \in {m \in DOMAIN program : m < n /\ program[m].op = "CX"}}

(* the pairs that had their pass over the couplings *)
Seen ==
  IF alg = "eager" THEN CNOTsBefore(at)
  ELSE {pair \in Histogram : pc # "visit" /\ \A n \in DOMAIN pairs : pairs[n] # pair}

CouplingInv ==
  /\ \A m, n \in DOMAIN couplings : couplings[m] = couplings[n] => m = n
  /\ pc = "rest" /\ alg = "bestfit" => DOMAIN pairs = {}
  /\ alg # "linear" /\ pc \in {"visit", "fit", "rest"} =>
       \A pair \in Seen : \A n \in DOMAIN couplings :
         ~Serves(layout, allocated, couplings[n], pair)

(* what a step may do to the places of qubits *)
Grows(l, a, m, b) ==
  /\ a \subseteq b
  /\ \A q \in Names : m[q] = l[q] \/ (l[q] = Nowhere /\ m[q] \notin a)

LEMMA ServesOnlyOnce ==
  ASSUME NEW l, NEW a, NEW m, NEW b, Grows(l, a, m, b),
         NEW pair \in CNOTPair, NEW e, Serves(m, b, e, pair)
  PROVE  Serves(l, a, e, pair)
<1>1. pair[1] \in Names /\ pair[2] \in Names
  BY DEF CNOTPair
<1>2. ASSUME NEW q \in Names, NEW p, CanBeIn(m, b, q, p)
      PROVE  CanBeIn(l, a, q, p)
  BY <1>2 DEF Grows, CanBeIn
<1>3. QED
  BY <1>1, <1>2 DEF Serves

LEMMA FirstUsable ==
  ASSUME NEW U \in SUBSET Nat, U # {}
  PROVE  \E n \in U : \A m \in U : ~(m < n)
<1>1. IsWellFoundedOn(OpToRel(<, Nat), Nat)
  BY NatLessThanWellFounded
<1>2. \E n \in U : \A m \in U : ~(<<m, n>> \in OpToRel(<, Nat))
  BY <1>1, WFMin
<1>3. QED
  BY <1>2 DEF OpToRel

(* After its pass over the couplings, no coupling is left for a pair. *)
LEMMA AssignSettles ==
  ASSUME TypeInv, NEW c, NEW t, <<c, t>> \in CNOTPair, Assign(c, t),
         \A m, n \in DOMAIN couplings : couplings[m] = couplings[n] => m = n
  PROVE  /\ Grows(layout, allocated, layout', allocated')
         /\ \A m, n \in DOMAIN couplings' : couplings'[m] = couplings'[n] => m = n
         /\ \A m \in DOMAIN couplings' : \E n \in DOMAIN couplings : couplings'[m] = couplings[n]
         /\ \A m \in DOMAIN couplings' : ~Serves(layout', allocated', couplings'[m], <<c, t>>)
<1>1. /\ layout \in Layouts /\ couplings \in Seq(Coupling)
      /\ DOMAIN couplings = 1 .. Len(couplings) /\ Len(couplings) \in Nat
  BY LenProperties DEF TypeInv
<1>2. c \in Names /\ t \in Names /\ c # t
  BY DEF CNOTPair
<1>3. \A n : Usable(c, t, n) <=> Serves(layout, allocated, couplings[n], <<c, t>>)
  BY DEF Usable, CanBe, Serves, CanBeIn
<1>4. CASE Best(c, t) = {}
  <2>1. layout' = layout /\ allocated' = allocated /\ couplings' = couplings
    BY <1>4 DEF Assign
  <2>2. \A n \in DOMAIN couplings : ~Usable(c, t, n)
    <3>1. SUFFICES ASSUME {n \in DOMAIN couplings : Usable(c, t, n)} # {}
                   PROVE  Best(c, t) # {}
      BY <1>4
    <3>2. PICK U : U = {n \in DOMAIN couplings : Usable(c, t, n)}
      OBVIOUS
    <3>3. U \in SUBSET Nat /\ U # {}
      BY <1>1, <3>1, <3>2
    <3>4. PICK n \in U : \A m \in U : ~(m < n)
      BY <3>3, FirstUsable
    <3>5. ASSUME NEW m \in 1 .. n - 1 PROVE ~Usable(c, t, m)
      BY <1>1, <3>2, <3>4
    <3>6. n \in Best(c, t)
      BY <3>2, <3>4, <3>5 DEF Best
    <3>7. QED
      BY <3>6
  <2>3. Grows(layout, allocated, layout', allocated')
    BY <2>1 DEF Grows
  <2>4. QED
    BY <1>3, <2>1, <2>2, <2>3
<1>5. CASE Best(c, t) # {}
  <2>1. PICK n \in Best(c, t) :
          /\ layout' = [layout EXCEPT ![c] = couplings[n][1], ![t] = couplings[n][2]]
          /\ allocated' = allocated \cup {couplings[n][1], couplings[n][2]}
          /\ couplings' = SubSeq(couplings, 1, n - 1) \o SubSeq(couplings, n + 1, Len(couplings))
    BY <1>5 DEF Assign
  <2>2. n \in 1 .. Len(couplings) /\ CanBe(c, couplings[n][1]) /\ CanBe(t, couplings[n][2])
    BY <1>1 DEF Best, Usable
  <2>3. PICK p, r : p = couplings[n][1] /\ r = couplings[n][2]
    OBVIOUS
  <2>4. p \in Qubits /\ r \in Qubits /\ p # Nowhere /\ r # Nowhere /\ couplings[n] = <<p, r>>
    BY <1>1, <2>2, <2>3, ElementOfSeq, DeviceAssumption DEF Coupling, Qubits, Nowhere
  <2>5. /\ layout'[c] = p /\ layout'[t] = r
        /\ \A q \in Names : q # c /\ q # t => layout'[q] = layout[q]
    BY <1>1, <1>2, <2>1, <2>3 DEF Layouts
  <2>6. Grows(layout, allocated, layout', allocated')
    <3>1. allocated \subseteq allocated'
      BY <2>1
    <3>2. layout[c] = p \/ (layout[c] = Nowhere /\ p \notin allocated)
      BY <2>2, <2>3 DEF CanBe
    <3>3. layout[t] = r \/ (layout[t] = Nowhere /\ r \notin allocated)
      BY <2>2, <2>3 DEF CanBe
    <3>4. \A q \in Names : layout'[q] = layout[q] \/ (layout[q] = Nowhere /\ layout'[q] \notin allocated)
      BY <2>5, <3>2, <3>3
    <3>5. QED
      BY <3>1, <3>4 DEF Grows
  <2>7. /\ couplings' \in Seq(Coupling) /\ Len(couplings') = Len(couplings) - 1
        /\ \A i \in 1 .. Len(couplings') : /\ i < n => couplings'[i] = couplings[i]
                                           /\ ~(i < n) => couplings'[i] = couplings[i + 1]
    <3>1. n \in 1 .. Len(couplings) /\ couplings \in Seq(Coupling)
      BY <1>1, <2>2
    <3>2. PICK s : s = couplings'
      OBVIOUS
    <3>3. s = Without(couplings, n)
      BY <2>1, <3>2 DEF Without
    <3>4. /\ s \in Seq(Coupling) /\ Len(s) = Len(couplings) - 1
          /\ \A i \in 1 .. Len(s) : /\ i < n => s[i] = couplings[i]
                                    /\ ~(i < n) => s[i] = couplings[i + 1]
      BY <3>1, <3>3, WithoutOne
    <3>5. QED
      BY <3>2, <3>4
  <2>8. PICK f : f = [i \in 1 .. Len(couplings') |-> IF i < n THEN i ELSE i + 1]
    OBVIOUS
  <2>9. DOMAIN couplings' = 1 .. Len(couplings')
    BY <2>7, LenProperties
  <2>10. ASSUME NEW i \in DOMAIN couplings'
         PROVE  f[i] \in DOMAIN couplings /\ f[i] # n /\ couplings'[i] = couplings[f[i]]
    <3>1. i \in 1 .. Len(couplings) - 1 /\ f[i] = IF i < n THEN i ELSE i + 1
      BY <2>7, <2>8, <2>9
    <3>2. f[i] \in 1 .. Len(couplings) /\ f[i] # n
      BY <1>1, <2>2, <3>1
    <3>3. couplings'[i] = couplings[f[i]]
      BY <2>7, <2>9, <3>1
    <3>4. QED
      BY <1>1, <3>2, <3>3
  <2>11. ASSUME NEW i \in DOMAIN couplings', NEW j \in DOMAIN couplings', f[i] = f[j]
         PROVE  i = j
    <3>1. /\ i \in 1 .. Len(couplings) - 1 /\ f[i] = IF i < n THEN i ELSE i + 1
          /\ j \in 1 .. Len(couplings) - 1 /\ f[j] = IF j < n THEN j ELSE j + 1
      BY <2>7, <2>8, <2>9
    <3>2. n \in Int /\ \A h, k, m \in Int :
            (IF h < m THEN h ELSE h + 1) = (IF k < m THEN k ELSE k + 1) => h = k
      BY <1>1, <2>2
    <3>3. i \in Int /\ j \in Int
      BY <1>1, <3>1
    <3>4. (IF i < n THEN i ELSE i + 1) = (IF j < n THEN j ELSE j + 1)
      BY <2>11, <3>1, Zenon
    <3>5. QED
      BY <3>2, <3>3, <3>4, Zenon
  <2>12. \A i, j \in DOMAIN couplings' : couplings'[i] = couplings'[j] => i = j
    BY <2>10, <2>11
  <2>13. ASSUME NEW i \in DOMAIN couplings', Serves(layout', allocated', couplings'[i], <<c, t>>)
         PROVE  FALSE
    <3>1. layout'[c] # Nowhere /\ layout'[t] # Nowhere
      BY <2>4, <2>5
    <3>2. couplings'[i][1] = p /\ couplings'[i][2] = r
      BY <2>5, <2>13, <3>1 DEF Serves, CanBeIn
    <3>3. couplings'[i] \in Coupling
      BY <2>7, <2>9, ElementOfSeq
    <3>4. couplings'[i] = <<p, r>>
      BY <3>2, <3>3 DEF Coupling
    <3>5. couplings[f[i]] = couplings[n] /\ n \in DOMAIN couplings
      BY <1>1, <2>2, <2>4, <2>10, <3>4
    <3>6. QED
      BY <2>10, <3>5
  <2>14. QED
    BY <2>6, <2>10, <2>12, <2>13
<1>6. QED
  BY <1>4, <1>5

(* What was settled stays settled. *)
LEMMA StaysSettled ==
  ASSUME NEW l, NEW a, NEW cs, NEW m, NEW b, NEW ds, Grows(l, a, m, b),
         \A i \in DOMAIN ds : \E j \in DOMAIN cs : ds[i] = cs[j],
         NEW pair \in CNOTPair, \A j \in DOMAIN cs : ~Serves(l, a, cs[j], pair)
  PROVE  \A i \in DOMAIN ds : ~Serves(m, b, ds[i], pair)
BY ServesOnlyOnce

LEMMA SeenType ==
  ASSUME TypeInv
  PROVE  Seen \subseteq CNOTPair /\ Histogram \subseteq CNOTPair
<1>1. program \in Programs
  BY DEF TypeInv
<1>2. ASSUME NEW k \in DOMAIN program, program[k].op = "CX"
      PROVE  <<program[k].ctrl, program[k].tgt>> \in CNOTPair
  BY <1>1, <1>2, StatementTypes
<1>3. QED
  BY <1>2 DEF Seen, CNOTsBefore, Histogram

LEMMA CouplingInit ==
  ASSUME Init
  PROVE  CouplingInv
<1>1. \A m, n \in DOMAIN couplings : couplings[m] = couplings[n] => m = n
  BY CouplingAssumption DEF Init
<1>2. Seen = {}
  <2>1. \A k \in DOMAIN program : ~(k < 1)
    BY ProgramLength DEF Init
  <2>2. CNOTsBefore(at) = {}
    BY <2>1 DEF Init, CNOTsBefore
  <2>3. QED
    BY <2>2 DEF Init, Seen
<1>3. QED
  BY <1>1, <1>2 DEF Init, CouplingInv

(* A step that leaves places and couplings alone and settles no pair *)
LEMMA NothingMoves ==
  ASSUME CouplingInv, UNCHANGED <<alg, layout, allocated, couplings>>,
         Seen' \subseteq Seen, pc \in {"visit", "fit", "rest"},
         pc' = "rest" /\ alg = "bestfit" => DOMAIN pairs' = {}
  PROVE  CouplingInv'
<1>1. \A m, n \in DOMAIN couplings' : couplings'[m] = couplings'[n] => m = n
  BY DEF CouplingInv
<1>2. ASSUME alg # "linear"
      PROVE  \A pair \in Seen' : \A n \in DOMAIN couplings' :
               ~Serves(layout', allocated', couplings'[n], pair)
  BY <1>2 DEF CouplingInv
<1>3. QED
  BY <1>1, <1>2 DEF CouplingInv

(* A pass over the couplings for one pair *)
LEMMA PassSettles ==
  ASSUME TypeInv, CouplingInv, alg # "linear", pc \in {"visit", "fit", "rest"},
         NEW c, NEW t, <<c, t>> \in CNOTPair, Assign(c, t), UNCHANGED alg,
         Seen' \subseteq Seen \cup {<<c, t>>}, pc' # "rest"
  PROVE  CouplingInv'
<1>1. \A m, n \in DOMAIN couplings : couplings[m] = couplings[n] => m = n
  BY DEF CouplingInv
<1>2. /\ Grows(layout, allocated, layout', allocated')
      /\ \A m, n \in DOMAIN couplings' : couplings'[m] = couplings'[n] => m = n
      /\ \A m \in DOMAIN couplings' : \E n \in DOMAIN couplings : couplings'[m] = couplings[n]
      /\ \A m \in DOMAIN couplings' : ~Serves(layout', allocated', couplings'[m], <<c, t>>)
  BY <1>1, AssignSettles
<1>3. ASSUME NEW pair \in Seen
      PROVE  \A m \in DOMAIN couplings' : ~Serves(layout', allocated', couplings'[m], pair)
  <2>1. \A n \in DOMAIN couplings : ~Serves(layout, allocated, couplings[n], pair)
    BY DEF CouplingInv
  <2>2. pair \in CNOTPair
    BY SeenType
  <2>3. QED
    BY <1>2, <2>1, <2>2, StaysSettled
<1>4. \A pair \in Seen' : \A m \in DOMAIN couplings' :
        ~Serves(layout', allocated', couplings'[m], pair)
  BY <1>2, <1>3
<1>5. QED
  BY <1>2, <1>4 DEF CouplingInv

LEMMA CouplingVisit ==
  ASSUME IInv, CouplingInv, Visit
  PROVE  CouplingInv'
<1>1. /\ TypeInv /\ pc = "visit" /\ at <= Len(program) /\ at' = at + 1
      /\ UNCHANGED <<alg, program, pairs, count>>
  BY DEF IInv, Visit
<1>2. program \in Programs /\ Len(program) \in Nat /\ at \in 1 .. Len(program)
  BY <1>1, ProgramLength DEF TypeInv
<1>3. \A k \in DOMAIN program : k < at' <=> k < at \/ k = at
  BY <1>1, <1>2, ProgramLength
<1>4. program[at].op # "CX" => CNOTsBefore(at') = CNOTsBefore(at)
  BY <1>3 DEF CNOTsBefore
<1>5. CNOTsBefore(at') \subseteq CNOTsBefore(at) \cup {<<program[at].ctrl, program[at].tgt>>}
  BY <1>3 DEF CNOTsBefore
<1>6. /\ alg # "eager" /\ pc' = "visit" => Seen' = {}
      /\ alg = "eager" => Seen = CNOTsBefore(at)
      /\ alg = "eager" => Seen' = CNOTsBefore(at')
  BY <1>1 DEF Seen, CNOTsBefore, Histogram
<1>7. CASE DeclareLinear(program[at])
  BY <1>1, <1>7 DEF DeclareLinear, CouplingInv
<1>8. CASE Declare(program[at])
  <2>1. UNCHANGED <<pc, layout, allocated, couplings>> /\ program[at].op # "CX"
    BY <1>8 DEF Declare
  <2>2. Seen' \subseteq Seen
    BY <1>1, <1>4, <1>6, <2>1
  <2>3. QED
    BY <1>1, <2>1, <2>2, NothingMoves
<1>9. CASE VisitCNOT(program[at])
  <2>1. program[at].op = "CX" /\ pc' = "visit"
    BY <1>1, <1>9 DEF VisitCNOT
  <2>2. CASE alg = "eager"
    <3>1. PICK c, t : c = program[at].ctrl /\ t = program[at].tgt
      OBVIOUS
    <3>2. Assign(c, t)
      BY <1>9, <2>2, <3>1 DEF VisitCNOT
    <3>3. <<c, t>> \in CNOTPair
      BY <1>2, <2>1, <3>1, ProgramLength, StatementTypes
    <3>4. Seen' \subseteq Seen \cup {<<c, t>>}
      BY <1>5, <1>6, <2>2, <3>1
    <3>5. QED
      BY <1>1, <2>1, <2>2, <3>2, <3>3, <3>4, PassSettles
  <2>3. CASE alg # "eager"
    <3>1. UNCHANGED <<layout, allocated, couplings>>
      BY <1>9, <2>3 DEF VisitCNOT
    <3>2. Seen' \subseteq Seen
      BY <1>6, <2>1, <2>3
    <3>3. QED
      BY <1>1, <2>1, <3>1, <3>2, NothingMoves
  <2>4. QED
    BY <2>2, <2>3
<1>10. QED
  BY <1>7, <1>8, <1>9 DEF Visit

(* A pair does not come before itself. *)
LEMMA NotBeforeItself ==
  ASSUME TypeInv, NEW pair \in CNOTPair
  PROVE  ~ComesFirst(pair, pair)
<1>1. CountOf(pair) \in Nat
  <2>1. IsFiniteSet(DOMAIN program)
    <3>1. Len(program) \in Nat /\ DOMAIN program = 1 .. Len(program)
      BY ProgramLength DEF TypeInv
    <3>2. IsFiniteSet(1 .. Len(program))
      BY <3>1, FS_Interval
    <3>3. QED
      BY <3>1, <3>2
  <2>2. {n \in DOMAIN program : program[n].op = "CX" /\ <<program[n].ctrl, program[n].tgt>> = pair}
          \in SUBSET DOMAIN program
    OBVIOUS
  <2>3. QED
    BY <2>1, <2>2, FS_Subset, FS_CardinalityType DEF CountOf
<1>2. \A q \in Names : ~Before(q, q)
  <2>1. \A q \in Names : q[1] \in Int /\ q[2] \in Int
    BY DeviceAssumption
  <2>2. QED
    BY <2>1 DEF Before
<1>3. QED
  BY <1>1, <1>2 DEF ComesFirst, CNOTPair

(* The sorted histogram has all its pairs. *)
LEMMA SortedHasAll ==
  ASSUME TypeInv, NEW S \in SUBSET CNOTPair, IsFiniteSet(S), NEW s \in Sorted(S)
  PROVE  \A pair \in S : \E n \in DOMAIN s : s[n] = pair
<1>1. Cardinality(S) \in Nat
  BY FS_CardinalityType
<1>2. s \in [1 .. Cardinality(S) -> S] /\ DOMAIN s = 1 .. Cardinality(S)
  BY DEF Sorted
<1>3. ASSUME NEW m \in 1 .. Cardinality(S), NEW n \in 1 .. Cardinality(S), s[m] = s[n]
      PROVE  m = n
  <2>1. \A i, j \in 1 .. Cardinality(S) : i < j => s[i] # s[j]
    <3>1. ASSUME NEW i \in 1 .. Cardinality(S), NEW j \in 1 .. Cardinality(S), i < j
          PROVE  s[i] # s[j]
      <4>1. ComesFirst(s[i], s[j]) /\ s[i] \in CNOTPair
        BY <1>2, <3>1 DEF Sorted
      <4>2. QED
        BY <4>1, NotBeforeItself
    <3>2. QED
      BY <3>1
  <2>2. m \in Int /\ n \in Int
    BY <1>1
  <2>3. m < n \/ n < m \/ m = n
    BY <2>2
  <2>4. QED
    BY <1>3, <2>1, <2>3
<1>4. s \in Injection(1 .. Cardinality(S), S)
  BY <1>2, <1>3, Fun_IsInj
<1>5. Cardinality(1 .. Cardinality(S)) = Cardinality(S)
  <2>1. \A n \in Nat : Cardinality(1 .. n) = IF 1 > n THEN 0 ELSE n - 1 + 1
    BY FS_Interval
  <2>2. \A n \in Nat : (IF 1 > n THEN 0 ELSE n - 1 + 1) = n
    OBVIOUS
  <2>3. QED
    BY <1>1, <2>1, <2>2
<1>6. s \in Surjection(1 .. Cardinality(S), S)
  BY <1>4, <1>5, FS_Injection
<1>7. QED
  BY <1>2, <1>6 DEF Surjection

LEMMA CouplingVisitEnds ==
  ASSUME IInv, CouplingInv, EndVisit
  PROVE  CouplingInv'
<1>1. /\ TypeInv /\ pc = "visit" /\ at > Len(program)
      /\ UNCHANGED <<alg, program, at, declared, layout, allocated, couplings>>
      /\ alg = "bestfit" => pc' = "fit"
      /\ pairs' \in Sorted(IF alg = "bestfit" THEN Histogram ELSE {})
  BY DEF IInv, EndVisit
<1>2. CASE alg = "linear"
  BY <1>1, <1>2 DEF CouplingInv
<1>3. CASE alg = "eager"
  <2>1. Seen' \subseteq Seen
    BY <1>1, <1>3 DEF Seen, CNOTsBefore
  <2>2. QED
    BY <1>1, <1>3, <2>1, NothingMoves
<1>4. CASE alg = "bestfit"
  <2>1. IsFiniteSet(Histogram) /\ Histogram \in SUBSET CNOTPair /\ pairs' \in Sorted(Histogram)
    BY <1>1, <1>4, HistogramPairs
  <2>2. \A pair \in Histogram : \E n \in DOMAIN pairs' : pairs'[n] = pair
    BY <1>1, <2>1, SortedHasAll
  <2>3. Seen' = {}
    BY <1>1, <1>4, <2>2 DEF Seen, Histogram
  <2>4. QED
    BY <1>1, <1>4, <2>3, NothingMoves
<1>5. QED
  BY <1>1, <1>2, <1>3, <1>4 DEF TypeInv

LEMMA CouplingPair ==
  ASSUME IInv, CouplingInv, FitPair
  PROVE  CouplingInv'
<1>1. /\ TypeInv /\ pc = "fit" /\ pairs # <<>> /\ pairs' = Tail(pairs) /\ alg = "bestfit"
      /\ UNCHANGED <<alg, program, at, pc, declared, count>>
  BY DEF IInv, FitPair, ProgressInv
<1>2. PICK c, t : c = Head(pairs)[1] /\ t = Head(pairs)[2]
  OBVIOUS
<1>3. Assign(c, t)
  BY <1>2 DEF FitPair
<1>4. /\ <<c, t>> \in CNOTPair /\ pairs[1] = <<c, t>>
      /\ \A n \in DOMAIN pairs : n = 1 \/ n - 1 \in DOMAIN Tail(pairs)
      /\ \A n \in DOMAIN Tail(pairs) : Tail(pairs)[n] = pairs[n + 1]
      /\ DOMAIN pairs \subseteq Nat
  <2>1. pairs \in Seq(CNOTPair) /\ Len(pairs) \in Nat \ {0} /\ DOMAIN pairs = 1 .. Len(pairs)
    BY <1>1, EmptySeq, LenProperties DEF TypeInv
  <2>2. Head(pairs) = pairs[1] /\ pairs[1] \in CNOTPair
    BY <2>1
  <2>3. pairs[1] = <<c, t>>
    BY <1>2, <2>2 DEF CNOTPair
  <2>4. Tail(pairs) \in Seq(CNOTPair) /\ Len(Tail(pairs)) = Len(pairs) - 1
        /\ \A i \in 1 .. Len(Tail(pairs)) : Tail(pairs)[i] = pairs[i + 1]
    BY <1>1, <2>1, HeadTailProperties
  <2>5. DOMAIN Tail(pairs) = 1 .. Len(pairs) - 1
    BY <2>4, LenProperties
  <2>6. QED
    BY <2>1, <2>2, <2>3, <2>4, <2>5
<1>5. Seen' \subseteq Seen \cup {<<c, t>>}
  <2>1. ASSUME NEW pair \in Histogram, \A n \in DOMAIN Tail(pairs) : Tail(pairs)[n] # pair,
               pair # <<c, t>>
        PROVE  \A n \in DOMAIN pairs : pairs[n] # pair
    <3>1. ASSUME NEW n \in DOMAIN pairs PROVE pairs[n] # pair
      <4>1. CASE n = 1
        BY <1>4, <2>1, <4>1
      <4>2. CASE n # 1
        <5>1. n - 1 \in DOMAIN Tail(pairs) /\ (n - 1) + 1 = n
          BY <1>4, <4>2
        <5>2. QED
          BY <1>4, <2>1, <5>1
      <4>3. QED
        BY <4>1, <4>2
    <3>2. QED
      BY <3>1
  <2>2. Seen = {pair \in Histogram : \A n \in DOMAIN pairs : pairs[n] # pair}
    BY <1>1 DEF Seen
  <2>3. Seen' = {pair \in Histogram : \A n \in DOMAIN Tail(pairs) : Tail(pairs)[n] # pair}
    BY <1>1 DEF Seen, Histogram
  <2>4. QED
    BY <2>1, <2>2, <2>3
<1>6. QED
  BY <1>1, <1>3, <1>4, <1>5, PassSettles

LEMMA CouplingFitEnds ==
  ASSUME IInv, CouplingInv, EndFit
  PROVE  CouplingInv'
<1>1. /\ pc = "fit" /\ pairs = <<>> /\ pc' = "rest"
      /\ UNCHANGED <<alg, program, at, declared, layout, allocated, couplings, pairs, count>>
  BY DEF EndFit
<1>2. Seen' \subseteq Seen
  BY <1>1 DEF Seen, CNOTsBefore, Histogram
<1>3. DOMAIN pairs' = {}
  BY <1>1
<1>4. QED
  BY <1>1, <1>2, <1>3, NothingMoves

LEMMA CouplingRest ==
  ASSUME IInv, CouplingInv, PlaceRest
  PROVE  CouplingInv'
<1>1. /\ TypeInv /\ pc = "rest" /\ alg # "linear"
      /\ UNCHANGED <<alg, program, at, declared, couplings, pairs, count>>
  BY DEF IInv, PlaceRest, ProgressInv
<1>2. CASE pc' = "threw"
  BY <1>1, <1>2 DEF CouplingInv
<1>3. CASE \E q \in Unplaced : \E p \in Free :
             layout' = [layout EXCEPT ![q] = p] /\ allocated' = Taken(p) /\ UNCHANGED pc
  <2>1. PICK q \in Unplaced, p \in Free :
          layout' = [layout EXCEPT ![q] = p] /\ allocated' = allocated \cup {p} /\ pc' = pc
    BY <1>3 DEF Taken
  <2>2. layout[q] = Nowhere /\ p \notin allocated
    BY DEF Unplaced, Free
  <2>3. Grows(layout, allocated, layout', allocated')
    BY <1>1, <2>1, <2>2 DEF Grows, TypeInv, Layouts
  <2>4. Seen' = Seen
    BY <1>1, <2>1 DEF Seen, CNOTsBefore, Histogram
  <2>5. ASSUME NEW pair \in Seen
        PROVE  \A n \in DOMAIN couplings' : ~Serves(layout', allocated', couplings'[n], pair)
    <3>1. \A n \in DOMAIN couplings : ~Serves(layout, allocated, couplings[n], pair)
      BY <1>1 DEF CouplingInv
    <3>2. pair \in CNOTPair
      BY <1>1, SeenType
    <3>3. QED
      BY <1>1, <2>3, <3>1, <3>2, StaysSettled
  <2>6. QED
    BY <1>1, <2>1, <2>4, <2>5 DEF CouplingInv
<1>4. QED
  BY <1>2, <1>3 DEF PlaceRest

LEMMA CouplingStep ==
  ASSUME IInv, CouplingInv, [Next]_vars
  PROVE  CouplingInv'
<1>1. CASE EndRest
  BY <1>1 DEF EndRest, AfterLayout, CouplingInv
<1>2. CASE Climb \/ EndClimb
  BY <1>2 DEF Climb, EndClimb, CouplingInv
<1>3. CASE UNCHANGED vars
  <2>1. Seen' = Seen
    BY <1>3 DEF vars, Seen, CNOTsBefore, Histogram
  <2>2. QED
    BY <1>3, <2>1 DEF vars, CouplingInv
<1>4. QED
  BY <1>1, <1>2, <1>3, CouplingVisit, CouplingVisitEnds, CouplingPair, CouplingFitEnds,
     CouplingRest DEF Next

(* One pass over the couplings is enough, for EagerLayout and BestFit: a   *)
(* coupling passed over for a CNOT could not have served it later, and     *)
(* those left when the rest is placed serve no CNOT of the program.        *)
THEOREM OnePassIsEnough == Spec => []NoCouplingWasted
<1>1. Init => CouplingInv
  BY CouplingInit
<1>2. IInv /\ CouplingInv /\ [Next]_vars => CouplingInv'
  BY CouplingStep
<1>3. IInv /\ CouplingInv => NoCouplingWasted
  <2>1. SUFFICES ASSUME IInv, CouplingInv, alg # "linear", pc = "rest",
                        NEW pair \in Histogram, NEW n \in DOMAIN couplings
                 PROVE  \E e \in {1, 2} :
                          IF pair[e] \in Placed THEN layout[pair[e]] # couplings[n][e]
                          ELSE couplings[n][e] \in allocated
    BY DEF NoCouplingWasted
  <2>2. TypeInv /\ at = Len(program) + 1
    BY <2>1 DEF IInv, ProgressInv
  <2>3. Len(program) \in Nat /\ DOMAIN program = 1 .. Len(program)
    BY <2>2, ProgramLength DEF TypeInv
  <2>4. pair \in Seen
    <3>1. \A k \in DOMAIN program : k < at
      BY <2>2, <2>3
    <3>2. CASE alg = "eager"
      BY <2>1, <3>1, <3>2 DEF Seen, CNOTsBefore, Histogram
    <3>3. CASE alg = "bestfit"
      BY <2>1, <3>3 DEF Seen, CouplingInv
    <3>4. QED
      BY <2>1, <2>2, <3>2, <3>3 DEF TypeInv
  <2>5. ~Serves(layout, allocated, couplings[n], pair)
    BY <2>1, <2>4 DEF CouplingInv
  <2>6. pair[1] \in Names /\ pair[2] \in Names
    BY <2>1, <2>2, SeenType DEF CNOTPair
  <2>7. CASE ~CanBeIn(layout, allocated, pair[1], couplings[n][1])
    BY <2>6, <2>7 DEF CanBeIn, Placed
  <2>8. CASE ~CanBeIn(layout, allocated, pair[2], couplings[n][2])
    BY <2>6, <2>8 DEF CanBeIn, Placed
  <2>9. QED
    BY <2>5, <2>7, <2>8 DEF Serves
<1>4. QED
  BY <1>1, <1>2, <1>3, Invariance, PTL DEF Spec

=============================================================================
