----------------------- MODULE MessageEvolutionProofs -----------------------
(***************************************************************************)
(* The properties of MessageEvolution, for every set of fields, every      *)
(* number of versions that know different fields, and every value and      *)
(* number of items.                                                        *)
(*                                                                         *)
(* The invariant says what the message stands for: an object gives a field *)
(* of its class the value it has, and any other the value that its unknown *)
(* fields give it (ContentInv); bytes hold each field at most once         *)
(* (Holding) and give it the value that they have or else its default      *)
(* (Gives).  WrittenGives and LoadGives say that __bytes__ and load keep   *)
(* what each field is given, whether the class knows the field or not.     *)
(* Both are recursive functions; what they compute is shown by induction   *)
(* over the fields written and loaded so far (WriteState, LoadState).      *)
(***************************************************************************)
EXTENDS MessageEvolution, TLAPS, SequenceTheorems, FiniteSetTheorems, FunctionTheorems

\* Every set of naturals that is not empty has a least one.
LEMMA LeastNat ==
  ASSUME NEW T \in SUBSET Nat, T # {}
  PROVE  \E x \in T : \A y \in T : x <= y
<1> DEFINE R == {p \in Nat \X Nat : p[1] < p[2]}
<1>1. IsWellFoundedOn(R, Nat) BY NatLessThanWellFounded DEF OpToRel
<1> HIDE DEF R
<1>2. PICK x \in T : \A y \in T : ~ (<<y, x>> \in R) BY <1>1, WFMin
<1>3. ASSUME NEW y \in T PROVE x <= y
  <2>1. x \in Nat /\ y \in Nat OBVIOUS
  <2>2. <<y, x>> \notin R BY <1>2
  <2>3. <<y, x>> \in Nat \X Nat BY <2>1
  <2>4. ~ (<<y, x>>[1] < <<y, x>>[2]) BY <2>2, <2>3 DEF R
  <2> QED BY <2>1, <2>4
<1> QED BY <1>3

\* A set that has zero and with each number the next has every number.
LEMMA Induction ==
  ASSUME NEW T, 0 \in T, \A n \in Nat : n \in T => n + 1 \in T
  PROVE  \A n \in Nat : n \in T
<1> DEFINE F == {n \in Nat : n \notin T}
<1> SUFFICES ASSUME F # {} PROVE FALSE OBVIOUS
<1>1. PICK x \in F : \A y \in F : x <= y
  <2>1. F \in SUBSET Nat OBVIOUS
  <2> HIDE DEF F
  <2> QED BY <2>1, LeastNat
<1>2. x # 0 /\ x - 1 \in Nat OBVIOUS
<1>3. x - 1 \notin F BY <1>1, <1>2
<1>4. (x - 1) + 1 \in T BY <1>2, <1>3
<1> QED BY <1>4

-----------------------------------------------------------------------------
\* The values of all fields, and the fields as they are in bytes.
AnyValue == UNION {ValuesOf(f) : f \in Fields}
Entries  == [field : Fields, value : AnyValue]

\* Bytes with some of these fields, each at most once and with a value it may have.
Holding(b, fields) ==
  /\ b \in Seq(Entries)
  /\ \A i \in 1 .. Len(b) : b[i].field \in fields /\ b[i].value \in ValuesOf(b[i].field)
  /\ \A i, j \in 1 .. Len(b) : b[i].field = b[j].field => i = j

\* The bytes give field f the value x: it is in them with x, or x is its default.
Gives(b, f, x) ==
  /\ \A i \in 1 .. Len(b) : b[i].field = f => b[i].value = x
  /\ (\A i \in 1 .. Len(b) : b[i].field # f) => x = Default(f)

\* Every one of these fields has a value it may have.
TypedValues(v, fields) == v \in [fields -> AnyValue] /\ \A f \in fields : v[f] \in ValuesOf(f)

\* The variables have their types, and unknown fields are there once.
TypesInv ==
  /\ class \in Classes /\ place \in {"object", "sent"}
  /\ TypedValues(val, Known(class)) /\ TypedValues(content, Fields)
  /\ Holding(unknown, Fields \ Known(class))
  /\ place = "sent" => Holding(wire, Fields)

\* What the users have put in is what the object, or the bytes, give.
ContentInv ==
  /\ place = "object" =>
       /\ \A f \in Known(class) : content[f] = val[f]
       /\ \A f \in Fields \ Known(class) : Gives(unknown, f, content[f])
  /\ place = "sent" => \A f \in Fields : Gives(wire, f, content[f])

EvolutionInv == TypesInv /\ ContentInv

-----------------------------------------------------------------------------
\* A finite set of naturals has a greatest, which is its Max.
LEMMA MaxFound ==
  ASSUME NEW S \in SUBSET Nat, IsFiniteSet(S), S # {}
  PROVE  Max(S) \in S /\ \A y \in S : y <= Max(S)
<1> DEFINE Top(A) == \E x \in A : \A y \in A : y <= x
           T == {n \in Nat : \A A \in SUBSET Nat :
                   IsFiniteSet(A) /\ A # {} /\ Cardinality(A) = n => Top(A)}
<1>1. 0 \in T
  <2> SUFFICES ASSUME NEW A \in SUBSET Nat, IsFiniteSet(A), A # {}, Cardinality(A) = 0
               PROVE  Top(A)
    OBVIOUS
  <2> QED BY FS_EmptySet
<1>2. ASSUME NEW n \in Nat, n \in T PROVE n + 1 \in T
  <2> SUFFICES ASSUME NEW A \in SUBSET Nat, IsFiniteSet(A), A # {}, Cardinality(A) = n + 1
               PROVE  Top(A)
    OBVIOUS
  <2>1. PICK x \in A : TRUE OBVIOUS
  <2> DEFINE B == A \ {x}
  <2>2. IsFiniteSet(B) /\ Cardinality(B) = n /\ B \in SUBSET Nat
    <3>1. IsFiniteSet(B) /\ Cardinality(B) = Cardinality(A) - 1 BY FS_RemoveElement
    <3> QED BY <3>1
  <2>3. CASE B = {}
    <3>1. A = {x} BY <2>3
    <3> QED BY <3>1
  <2>4. CASE B # {}
    <3>1. Top(B) BY <1>2, <2>2, <2>4
    <3>2. PICK z \in B : \A y \in B : y <= z BY <3>1
    <3>3. CASE x <= z
      <4>1. \A y \in A : y <= z BY <3>2, <3>3
      <4> QED BY <4>1
    <3>4. CASE ~ (x <= z)
      <4>1. \A y \in A : y <= x BY <3>2, <3>4
      <4> QED BY <4>1
    <3> QED BY <3>3, <3>4
  <2> QED BY <2>3, <2>4
<1>3. \A n \in Nat : n \in T
  <2> HIDE DEF T
  <2> QED BY <1>1, <1>2, Induction
<1>4. Cardinality(S) \in T BY <1>3, FS_CardinalityType
<1>5. Top(S) BY <1>4
<1> QED BY <1>5 DEF Max

\* What load is after each field.
LEMMA LoadedSteps ==
  ASSUME NEW v, NEW b, Len(b) \in Nat
  PROVE  \E after :
           /\ after = [i \in 0 .. Len(b) |->
                         IF i = 0 THEN [val |-> v, unknown |-> <<>>]
                         ELSE Taken(after[i - 1], b[i])]
           /\ Loaded(v, b) = after[Len(b)]
<1> DEFINE first == [val |-> v, unknown |-> <<>>]
           Loop(after, n) == after = [i \in 0 .. n |-> IF i = 0 THEN first
                                                       ELSE Taken(after[i - 1], b[i])]
           T == {n \in Nat : \E after : Loop(after, n)}
           result == CHOOSE after : Loop(after, Len(b))
<1>1. Loaded(v, b) = result[Len(b)] BY DEF Loaded
<1> HIDE DEF first
<1>2. 0 \in T
  <2> DEFINE g == [i \in 0 .. 0 |-> first]
  <2>1. Loop(g, 0) OBVIOUS
  <2> HIDE DEF g, Loop
  <2> QED BY <2>1
<1>3. ASSUME NEW n \in Nat, n \in T PROVE n + 1 \in T
  <2>1. PICK g : Loop(g, n)
    <3> HIDE DEF Loop
    <3> QED BY <1>3
  <2> DEFINE h == [i \in 0 .. n + 1 |-> IF i <= n THEN g[i] ELSE Taken(g[n], b[n + 1])]
  <2>2. \A i \in 0 .. n : g[i] = IF i = 0 THEN first ELSE Taken(g[i - 1], b[i]) BY <2>1
  <2>3. ASSUME NEW i \in 0 .. n + 1
        PROVE  h[i] = IF i = 0 THEN first ELSE Taken(h[i - 1], b[i])
    <3>1. CASE i <= n
      <4>1. i \in 0 .. n /\ h[i] = g[i] BY <3>1
      <4>2. i # 0 => h[i - 1] = g[i - 1] BY <3>1
      <4> HIDE DEF h
      <4> QED BY <2>2, <4>1, <4>2
    <3>2. CASE i = n + 1
      <4>1. h[i] = Taken(g[n], b[n + 1]) /\ h[i - 1] = g[n] /\ i # 0 BY <3>2
      <4> HIDE DEF h
      <4> QED BY <3>2, <4>1
    <3> QED BY <3>1, <3>2
  <2>4. Loop(h, n + 1)
    <3>1. h = [i \in 0 .. n + 1 |-> h[i]] OBVIOUS
    <3> HIDE DEF h
    <3> QED BY <2>3, <3>1
  <2> HIDE DEF h, Loop
  <2> QED BY <2>4
<1>4. Len(b) \in T
  <2> HIDE DEF T
  <2> QED BY <1>2, <1>3, Induction
<1>5. Loop(result, Len(b))
  <2> HIDE DEF Loop
  <2> QED BY <1>4
<1> HIDE DEF result
<1> QED BY <1>1, <1>5 DEF first

\* What __bytes__ has written after each number.
LEMMA WrittenSteps ==
  ASSUME NEW v, NEW last \in Nat, last = Max(DOMAIN v \cup {0}), NEW rest
  PROVE  \E upto :
           /\ upto = [n \in 0 .. last |->
                        IF n = 0 THEN <<>>
                        ELSE IF n \in DOMAIN v /\ ~Skipped(n, v[n])
                        THEN Append(upto[n - 1], [field |-> n, value |-> v[n]])
                        ELSE upto[n - 1]]
           /\ Written(v, rest) = upto[last] \o rest
<1> DEFINE Next1(u, n) == IF n \in DOMAIN v /\ ~Skipped(n, v[n])
                          THEN Append(u, [field |-> n, value |-> v[n]]) ELSE u
           Loop(upto, m) == upto = [n \in 0 .. m |-> IF n = 0 THEN <<>>
                                                     ELSE Next1(upto[n - 1], n)]
           T == {m \in Nat : \E upto : Loop(upto, m)}
           result == CHOOSE upto : Loop(upto, last)
<1>1. Written(v, rest) = result[last] \o rest BY DEF Written
<1> HIDE DEF Next1
<1>2. 0 \in T
  <2> DEFINE g == [i \in 0 .. 0 |-> <<>>]
  <2>1. Loop(g, 0) OBVIOUS
  <2> HIDE DEF g, Loop
  <2> QED BY <2>1
<1>3. ASSUME NEW n \in Nat, n \in T PROVE n + 1 \in T
  <2>1. PICK g : Loop(g, n)
    <3> HIDE DEF Loop
    <3> QED BY <1>3
  <2> DEFINE h == [i \in 0 .. n + 1 |-> IF i <= n THEN g[i] ELSE Next1(g[n], n + 1)]
  <2>2. \A i \in 0 .. n : g[i] = IF i = 0 THEN <<>> ELSE Next1(g[i - 1], i) BY <2>1
  <2>3. ASSUME NEW i \in 0 .. n + 1
        PROVE  h[i] = IF i = 0 THEN <<>> ELSE Next1(h[i - 1], i)
    <3>1. CASE i <= n
      <4>1. i \in 0 .. n /\ h[i] = g[i] BY <3>1
      <4>2. i # 0 => h[i - 1] = g[i - 1] BY <3>1
      <4> HIDE DEF h
      <4> QED BY <2>2, <4>1, <4>2
    <3>2. CASE i = n + 1
      <4>1. h[i] = Next1(g[n], n + 1) /\ h[i - 1] = g[n] /\ i # 0 BY <3>2
      <4> HIDE DEF h
      <4> QED BY <3>2, <4>1
    <3> QED BY <3>1, <3>2
  <2>4. Loop(h, n + 1)
    <3>1. h = [i \in 0 .. n + 1 |-> h[i]] OBVIOUS
    <3> HIDE DEF h
    <3> QED BY <2>3, <3>1
  <2> HIDE DEF h, Loop
  <2> QED BY <2>4
<1>4. last \in T
  <2> HIDE DEF T
  <2> QED BY <1>2, <1>3, Induction
<1>5. Loop(result, last)
  <2> HIDE DEF Loop
  <2> QED BY <1>4
<1> HIDE DEF result
<1> QED BY <1>1, <1>5 DEF Next1

-----------------------------------------------------------------------------
\* The default of a field is one of its values, is what a skipped field has, and an
\* occurrence of the field replaces it.
LEMMA Defaults ==
  ASSUME NEW f \in Fields
  PROVE  /\ Default(f) \in ValuesOf(f)
         /\ \A x \in ValuesOf(f) : Skipped(f, x) => x = Default(f)
         /\ \A x \in ValuesOf(f) : Merged(Default(f), f, x) = x
         /\ f \in Optional => Default(f) = None /\ None \in ValuesOf(f)
<1>1. CASE f \in Implicit
  <2>1. f \notin Optional /\ f \notin Repeated BY <1>1, FieldsAssumption
  <2>2. Default(f) = 0 BY <1>1, <2>1 DEF Default
  <2>3. ValuesOf(f) = Values BY <1>1, <2>1 DEF ValuesOf
  <2> QED BY <2>1, <2>2, <2>3, ValuesAssumption DEF Skipped, Merged
<1>2. CASE f \in Optional
  <2>1. f \notin Implicit /\ f \notin Repeated BY <1>2, FieldsAssumption
  <2>2. Default(f) = None BY <1>2, <2>1 DEF Default
  <2>3. ValuesOf(f) = Values \cup {None} BY <1>2, <2>1 DEF ValuesOf
  <2> QED BY <2>1, <2>2, <2>3 DEF Skipped, Merged
<1>3. CASE f \in Repeated
  <2>1. f \notin Implicit /\ f \notin Optional BY <1>3, FieldsAssumption
  <2>2. Default(f) = <<>> BY <1>3, <2>1 DEF Default
  <2>3. ValuesOf(f) = UNION {[1 .. n -> Values] : n \in 0 .. MaxItems}
    BY <1>3, <2>1 DEF ValuesOf
  <2>4. <<>> \in ValuesOf(f)
    <3>1. 0 \in 0 .. MaxItems BY ValuesAssumption
    <3>2. <<>> \in [1 .. 0 -> Values] OBVIOUS
    <3> QED BY <2>3, <3>1, <3>2
  <2>5. ASSUME NEW x \in ValuesOf(f) PROVE <<>> \o x = x
    <3>1. PICK n \in 0 .. MaxItems : x \in [1 .. n -> Values] BY <2>3
    <3>2. n \in Nat BY ValuesAssumption
    <3>3. x \in Seq(Values) BY <3>1, <3>2
    <3> QED BY <3>3
  <2>6. None \notin ValuesOf(f) BY <1>3, ValuesAssumption
  <2>7. \A x \in ValuesOf(f) : Skipped(f, x) => x = Default(f) BY <2>6 DEF Skipped
  <2>8. \A x \in ValuesOf(f) : Merged(Default(f), f, x) = x BY <1>3, <2>2, <2>5 DEF Merged
  <2> QED BY <2>1, <2>2, <2>4, <2>7, <2>8
<1> QED BY <1>1, <1>2, <1>3 DEF Fields

\* The values of a field are among those of all fields.
LEMMA AnyValues == \A f \in Fields : ValuesOf(f) \subseteq AnyValue
BY DEF AnyValue

-----------------------------------------------------------------------------
\* The object m after the first i fields of b: a field of the class that was among them has
\* its value and any other its default; the others are unknown fields, each once.
LoadState(S, b, i, m) ==
  /\ m \in [val : [S -> AnyValue], unknown : Seq(Entries)]
  /\ \A f \in S : m.val[f] \in ValuesOf(f)
  /\ \A f \in S : \A j \in 1 .. i : b[j].field = f => m.val[f] = b[j].value
  /\ \A f \in S : (\A j \in 1 .. i : b[j].field # f) => m.val[f] = Default(f)
  /\ \A k \in 1 .. Len(m.unknown) :
       \E j \in 1 .. i : m.unknown[k] = b[j] /\ b[j].field \notin S
  /\ \A k, l \in 1 .. Len(m.unknown) : m.unknown[k].field = m.unknown[l].field => k = l
  /\ \A j \in 1 .. i : b[j].field \notin S => \E k \in 1 .. Len(m.unknown) : m.unknown[k] = b[j]

\* One turn of load: a field of the class is merged with its default, any other kept.
LEMMA FieldTaken ==
  ASSUME NEW S \in SUBSET Fields, NEW b, Holding(b, Fields), NEW i \in Nat, i + 1 <= Len(b),
         NEW m, LoadState(S, b, i, m)
  PROVE  LoadState(S, b, i + 1, Taken(m, b[i + 1]))
<1> DEFINE t == b[i + 1]
           n == Taken(m, t)
           w == m.val
           u == m.unknown
<1>1. i + 1 \in 1 .. Len(b) /\ Len(b) \in Nat
  <2>1. Len(b) \in Nat BY DEF Holding
  <2> QED BY <2>1
<1>2. /\ t \in Entries /\ t.field \in Fields /\ t.value \in ValuesOf(t.field)
      /\ \A j \in 1 .. i : b[j].field # t.field
      /\ \A j \in 1 .. i : b[j] \in Entries
  <2>1. \A j \in 1 .. i : j \in 1 .. Len(b) /\ j # i + 1 BY <1>1
  <2>2. b \in Seq(Entries) BY DEF Holding
  <2>3. \A j \in 1 .. Len(b) : b[j] \in Entries BY <2>2
  <2> QED BY <1>1, <2>1, <2>3 DEF Holding
<1>3. /\ m = [val |-> w, unknown |-> u] /\ w \in [S -> AnyValue] /\ u \in Seq(Entries)
      /\ Len(u) \in Nat
  BY DEF LoadState
<1>4. /\ \A f \in S : w[f] \in ValuesOf(f)
      /\ \A f \in S : \A j \in 1 .. i : b[j].field = f => w[f] = b[j].value
      /\ \A f \in S : (\A j \in 1 .. i : b[j].field # f) => w[f] = Default(f)
      /\ \A k \in 1 .. Len(u) : \E j \in 1 .. i : u[k] = b[j] /\ b[j].field \notin S
      /\ \A k, l \in 1 .. Len(u) : u[k].field = u[l].field => k = l
      /\ \A j \in 1 .. i : b[j].field \notin S => \E k \in 1 .. Len(u) : u[k] = b[j]
  BY DEF LoadState
<1>5. \A j \in 1 .. i + 1 : j \in 1 .. i \/ j = i + 1 OBVIOUS
<1>6. CASE t.field \in S
  <2> DEFINE g == t.field
             x == [w EXCEPT ![g] = t.value]
  <2>1. Merged(w[g], g, t.value) = t.value
    <3>1. w[g] = Default(g) BY <1>2, <1>4, <1>6
    <3> QED BY <1>2, <3>1, Defaults
  <2>2. n = [val |-> x, unknown |-> u]
    <3>1. DOMAIN m.val = S BY <1>3
    <3>2. n = [m EXCEPT !.val[t.field] = Merged(@, t.field, t.value)]
      BY <1>6, <3>1 DEF Taken
    <3> HIDE DEF n, t
    <3> QED BY <1>3, <2>1, <3>2
  <2>3. x \in [S -> AnyValue]
    <3>1. t.value \in AnyValue BY <1>2, AnyValues
    <3> QED BY <1>3, <3>1
  <2>4. \A f \in S : x[f] = IF f = g THEN t.value ELSE w[f] BY <1>3
  <2> HIDE DEF x
  <2>5. \A f \in S : x[f] \in ValuesOf(f) BY <1>2, <1>4, <2>4
  <2>6. \A f \in S : \A j \in 1 .. i + 1 : b[j].field = f => x[f] = b[j].value
    BY <1>2, <1>4, <1>5, <2>4
  <2>7. \A f \in S : (\A j \in 1 .. i + 1 : b[j].field # f) => x[f] = Default(f)
    <3>1. \A j \in 1 .. i : j \in 1 .. i + 1 OBVIOUS
    <3>2. i + 1 \in 1 .. i + 1 OBVIOUS
    <3> QED BY <1>4, <2>4, <3>1, <3>2
  <2>8. /\ \A k \in 1 .. Len(u) : \E j \in 1 .. i + 1 : u[k] = b[j] /\ b[j].field \notin S
        /\ \A j \in 1 .. i + 1 : b[j].field \notin S => \E k \in 1 .. Len(u) : u[k] = b[j]
    <3>1. \A j \in 1 .. i : j \in 1 .. i + 1 OBVIOUS
    <3> QED BY <1>4, <1>5, <1>6, <3>1
  <2>9. n.val = x /\ n.unknown = u /\ n \in [val : [S -> AnyValue], unknown : Seq(Entries)]
    BY <1>3, <2>2, <2>3
  <2> HIDE DEF n, u, w, t
  <2>10. LoadState(S, b, i + 1, n) BY <1>4, <2>5, <2>6, <2>7, <2>8, <2>9 DEF LoadState
  <2> QED BY <2>10 DEF n, t
<1>7. CASE t.field \notin S
  <2> DEFINE x == Append(u, t)
  <2>1. n = [val |-> w, unknown |-> x]
    <3>1. DOMAIN m.val = S BY <1>3
    <3>2. n = [m EXCEPT !.unknown = Append(@, t)] BY <1>7, <3>1 DEF Taken
    <3> HIDE DEF n, t
    <3> QED BY <1>3, <3>2
  <2>2. /\ x \in Seq(Entries) /\ Len(x) = Len(u) + 1 /\ x[Len(u) + 1] = t
        /\ \A k \in 1 .. Len(u) : x[k] = u[k]
    <3> HIDE DEF t
    <3> QED BY <1>2, <1>3, AppendProperties
  <2>3. \A k \in 1 .. Len(x) : k \in 1 .. Len(u) \/ k = Len(u) + 1 BY <1>3, <2>2
  <2>4. \A k \in 1 .. Len(u) : k \in 1 .. Len(x) /\ k # Len(u) + 1 BY <1>3, <2>2
  <2>5. Len(u) + 1 \in 1 .. Len(x) BY <1>3, <2>2
  <2>6. \A j \in 1 .. i : j \in 1 .. i + 1 OBVIOUS
  <2>7. i + 1 \in 1 .. i + 1 OBVIOUS
  <2> HIDE DEF x
  <2>8. \A f \in S : \A j \in 1 .. i + 1 : b[j].field = f => w[f] = b[j].value
    BY <1>4, <1>5, <1>7
  <2>9. \A f \in S : (\A j \in 1 .. i + 1 : b[j].field # f) => w[f] = Default(f)
    BY <1>4, <2>6
  <2>10. \A k \in 1 .. Len(x) : \E j \in 1 .. i + 1 : x[k] = b[j] /\ b[j].field \notin S
    BY <1>4, <1>7, <2>2, <2>3, <2>6, <2>7
  <2>11. \A k, l \in 1 .. Len(x) : x[k].field = x[l].field => k = l
    <3>1. ASSUME NEW k \in 1 .. Len(u) PROVE x[k].field # t.field
      <4>1. PICK j \in 1 .. i : u[k] = b[j] BY <1>4
      <4> HIDE DEF t, u
      <4>2. b[j].field # t.field BY <1>2
      <4> QED BY <2>2, <4>1, <4>2
    <3> HIDE DEF t, u
    <3> SUFFICES ASSUME NEW k \in 1 .. Len(x), NEW l \in 1 .. Len(x), x[k].field = x[l].field
                 PROVE  k = l
      OBVIOUS
    <3>2. CASE k \in 1 .. Len(u) /\ l \in 1 .. Len(u)
      <4>1. u[k].field = u[l].field BY <2>2, <3>2
      <4> QED BY <1>4, <3>2, <4>1
    <3>3. CASE k \in 1 .. Len(u) /\ l = Len(u) + 1 BY <2>2, <3>1, <3>3
    <3>4. CASE k = Len(u) + 1 /\ l \in 1 .. Len(u) BY <2>2, <3>1, <3>4
    <3> QED BY <2>3, <3>2, <3>3, <3>4
  <2>12. \A j \in 1 .. i + 1 : b[j].field \notin S => \E k \in 1 .. Len(x) : x[k] = b[j]
    <3> HIDE DEF u
    <3> SUFFICES ASSUME NEW j \in 1 .. i + 1, b[j].field \notin S
                 PROVE  \E k \in 1 .. Len(x) : x[k] = b[j]
      OBVIOUS
    <3>1. CASE j \in 1 .. i
      <4>1. PICK k \in 1 .. Len(u) : u[k] = b[j] BY <1>4, <3>1
      <4> QED BY <2>2, <2>4, <4>1
    <3>2. CASE j = i + 1 BY <2>2, <2>5, <3>2
    <3> QED BY <1>5, <3>1, <3>2
  <2>13. n.val = w /\ n.unknown = x /\ n \in [val : [S -> AnyValue], unknown : Seq(Entries)]
    BY <1>3, <2>1, <2>2
  <2> HIDE DEF n, u, w, t
  <2>14. LoadState(S, b, i + 1, n)
    BY <1>4, <2>8, <2>9, <2>10, <2>11, <2>12, <2>13 DEF LoadState
  <2> QED BY <2>14 DEF n, t
<1> QED BY <1>6, <1>7

\* What load makes of bytes that have each field once.
LEMMA LoadGives ==
  ASSUME NEW S \in SUBSET Fields, NEW b, Holding(b, Fields)
  PROVE  LET m == Loaded(Fresh(S), b)
         IN /\ TypedValues(m.val, S) /\ \A f \in S : Gives(b, f, m.val[f])
            /\ Holding(m.unknown, Fields \ S)
            /\ \A f \in Fields \ S : \A x : Gives(b, f, x) => Gives(m.unknown, f, x)
<1>1. Len(b) \in Nat /\ b \in Seq(Entries) BY DEF Holding
<1>2. PICK after :
        /\ after = [i \in 0 .. Len(b) |->
                      IF i = 0 THEN [val |-> Fresh(S), unknown |-> <<>>]
                      ELSE Taken(after[i - 1], b[i])]
        /\ Loaded(Fresh(S), b) = after[Len(b)]
  BY <1>1, LoadedSteps
<1> DEFINE T == {i \in Nat : i <= Len(b) => LoadState(S, b, i, after[i])}
<1>3. 0 \in T
  <2> DEFINE m == [val |-> Fresh(S), unknown |-> <<>>]
  <2>1. after[0] = m BY <1>1, <1>2
  <2>2. Fresh(S) \in [S -> AnyValue]
        /\ \A f \in S : Fresh(S)[f] = Default(f) /\ Default(f) \in ValuesOf(f)
    BY Defaults, AnyValues DEF Fresh
  <2>3. m.val = Fresh(S) /\ m.unknown = <<>> /\ Len(m.unknown) = 0
        /\ m \in [val : [S -> AnyValue], unknown : Seq(Entries)]
    BY <2>2
  <2> HIDE DEF m
  <2>4. LoadState(S, b, 0, m) BY <2>2, <2>3 DEF LoadState
  <2> QED BY <2>1, <2>4
<1>4. ASSUME NEW i \in Nat, i \in T PROVE i + 1 \in T
  <2> SUFFICES ASSUME i + 1 <= Len(b) PROVE LoadState(S, b, i + 1, after[i + 1]) OBVIOUS
  <2>1. i + 1 \in 0 .. Len(b) /\ i + 1 # 0 /\ (i + 1) - 1 = i /\ i <= Len(b) BY <1>1
  <2>2. after[i + 1] = Taken(after[i], b[i + 1]) BY <1>2, <2>1
  <2>3. LoadState(S, b, i, after[i]) BY <1>4, <2>1
  <2> QED BY <2>2, <2>3, FieldTaken
<1>5. LoadState(S, b, Len(b), after[Len(b)])
  <2> HIDE DEF T
  <2>1. Len(b) \in T BY <1>1, <1>3, <1>4, Induction
  <2> QED BY <1>1, <2>1 DEF T
<1> DEFINE m == Loaded(Fresh(S), b)
<1>6. LoadState(S, b, Len(b), m) BY <1>2, <1>5
<1> HIDE DEF m
<1>7. TypedValues(m.val, S) BY <1>6 DEF LoadState, TypedValues
<1>8. \A f \in S : Gives(b, f, m.val[f]) BY <1>6 DEF LoadState, Gives
<1>9. Holding(m.unknown, Fields \ S)
  <2>1. m.unknown \in Seq(Entries) BY <1>6 DEF LoadState
  <2>2. ASSUME NEW k \in 1 .. Len(m.unknown)
        PROVE  m.unknown[k].field \in Fields \ S
               /\ m.unknown[k].value \in ValuesOf(m.unknown[k].field)
    <3>1. PICK j \in 1 .. Len(b) : m.unknown[k] = b[j] /\ b[j].field \notin S
      BY <1>6 DEF LoadState
    <3> QED BY <3>1 DEF Holding
  <2> QED BY <1>6, <2>1, <2>2 DEF LoadState, Holding
<1>10. ASSUME NEW f \in Fields \ S, NEW x, Gives(b, f, x) PROVE Gives(m.unknown, f, x)
  <2>1. ASSUME NEW k \in 1 .. Len(m.unknown), m.unknown[k].field = f
        PROVE  m.unknown[k].value = x
    <3>1. PICK j \in 1 .. Len(b) : m.unknown[k] = b[j] BY <1>6 DEF LoadState
    <3> QED BY <1>10, <2>1, <3>1 DEF Gives
  <2>2. ASSUME \A k \in 1 .. Len(m.unknown) : m.unknown[k].field # f PROVE x = Default(f)
    <3>1. \A j \in 1 .. Len(b) : b[j].field # f
      <4> SUFFICES ASSUME NEW j \in 1 .. Len(b), b[j].field = f PROVE FALSE OBVIOUS
      <4>1. PICK k \in 1 .. Len(m.unknown) : m.unknown[k] = b[j] BY <1>6 DEF LoadState
      <4> QED BY <2>2, <4>1
    <3> QED BY <1>10, <3>1 DEF Gives
  <2> QED BY <2>1, <2>2 DEF Gives
<1> QED BY <1>7, <1>8, <1>9, <1>10 DEF m

-----------------------------------------------------------------------------
\* What __bytes__ has written of the fields up to n.
WriteState(S, v, n, u) ==
  /\ u \in Seq(Entries)
  /\ \A i \in 1 .. Len(u) :
       u[i].field \in S /\ u[i].field <= n /\ u[i].value = v[u[i].field]
  /\ \A i, j \in 1 .. Len(u) : u[i].field = u[j].field => i = j
  /\ \A f \in S : f <= n /\ ~Skipped(f, v[f]) => \E i \in 1 .. Len(u) : u[i].field = f

\* One turn of __bytes__: a field is written after those with smaller numbers, or skipped.
LEMMA FieldWritten ==
  ASSUME NEW S \in SUBSET Fields, NEW v, TypedValues(v, S), NEW n \in Nat,
         NEW u, WriteState(S, v, n, u),
         NEW w, w = IF n + 1 \in DOMAIN v /\ ~Skipped(n + 1, v[n + 1])
                    THEN Append(u, [field |-> n + 1, value |-> v[n + 1]]) ELSE u
  PROVE  WriteState(S, v, n + 1, w)
<1>1. DOMAIN v = S /\ S \subseteq Nat /\ u \in Seq(Entries) /\ Len(u) \in Nat
  BY FieldsAssumption DEF TypedValues, WriteState
<1>2. \A f \in S : f <= n + 1 => f <= n \/ f = n + 1 BY <1>1
<1>3. \A f \in S : f <= n => f <= n + 1 BY <1>1
<1>4. CASE ~ (n + 1 \in S /\ ~Skipped(n + 1, v[n + 1]))
  <2>1. w = u BY <1>1, <1>4
  <2> QED BY <1>2, <1>3, <1>4, <2>1 DEF WriteState
<1>5. CASE n + 1 \in S /\ ~Skipped(n + 1, v[n + 1])
  <2> DEFINE t == [field |-> n + 1, value |-> v[n + 1]]
  <2>1. w = Append(u, t) BY <1>1, <1>5
  <2>2. t \in Entries /\ t.field = n + 1 /\ t.value = v[n + 1]
    <3>1. v[n + 1] \in AnyValue /\ n + 1 \in Fields BY <1>5 DEF TypedValues
    <3> QED BY <3>1 DEF Entries
  <2> HIDE DEF t
  <2>3. /\ w \in Seq(Entries) /\ Len(w) = Len(u) + 1 /\ w[Len(u) + 1] = t
        /\ \A k \in 1 .. Len(u) : w[k] = u[k]
    BY <1>1, <2>1, <2>2, AppendProperties
  <2>4. \A k \in 1 .. Len(w) : k \in 1 .. Len(u) \/ k = Len(u) + 1 BY <1>1, <2>3
  <2>5. Len(u) + 1 \in 1 .. Len(w) /\ \A k \in 1 .. Len(u) : k \in 1 .. Len(w)
    BY <1>1, <2>3
  <2>6. ASSUME NEW k \in 1 .. Len(u) PROVE w[k].field # t.field
    <3>1. u[k].field \in Nat /\ u[k].field <= n BY <1>1 DEF WriteState
    <3> QED BY <2>2, <2>3, <3>1
  <2>7. \A i \in 1 .. Len(w) :
          w[i].field \in S /\ w[i].field <= n + 1 /\ w[i].value = v[w[i].field]
    <3>1. ASSUME NEW k \in 1 .. Len(u)
          PROVE  w[k].field \in S /\ w[k].field <= n + 1 /\ w[k].value = v[w[k].field]
      BY <1>3, <2>3 DEF WriteState
    <3> QED BY <1>5, <2>2, <2>3, <2>4, <3>1
  <2>8. \A i, j \in 1 .. Len(w) : w[i].field = w[j].field => i = j
    <3> SUFFICES ASSUME NEW k \in 1 .. Len(w), NEW l \in 1 .. Len(w), w[k].field = w[l].field
                 PROVE  k = l
      OBVIOUS
    <3>1. CASE k \in 1 .. Len(u) /\ l \in 1 .. Len(u)
      <4>1. u[k].field = u[l].field BY <2>3, <3>1
      <4> QED BY <3>1, <4>1 DEF WriteState
    <3>2. CASE k \in 1 .. Len(u) /\ l = Len(u) + 1 BY <2>3, <2>6, <3>2
    <3>3. CASE k = Len(u) + 1 /\ l \in 1 .. Len(u) BY <2>3, <2>6, <3>3
    <3> QED BY <2>4, <3>1, <3>2, <3>3
  <2>9. \A f \in S : f <= n + 1 /\ ~Skipped(f, v[f]) => \E i \in 1 .. Len(w) : w[i].field = f
    <3> SUFFICES ASSUME NEW f \in S, f <= n + 1, ~Skipped(f, v[f])
                 PROVE  \E i \in 1 .. Len(w) : w[i].field = f
      OBVIOUS
    <3>1. CASE f <= n
      <4>1. PICK i \in 1 .. Len(u) : u[i].field = f BY <3>1 DEF WriteState
      <4> QED BY <2>3, <2>5, <4>1
    <3>2. CASE f = n + 1 BY <2>2, <2>3, <2>5, <3>2
    <3> QED BY <1>2, <3>1, <3>2
  <2> QED BY <2>3, <2>7, <2>8, <2>9 DEF WriteState
<1> QED BY <1>4, <1>5

\* What __bytes__ writes of an object of a class with the fields S and of the unknown fields
\* it has from earlier.
LEMMA WrittenGives ==
  ASSUME NEW S \in SUBSET Fields, NEW v, TypedValues(v, S), NEW rest, Holding(rest, Fields \ S)
  PROVE  LET w == Written(v, rest)
         IN /\ Holding(w, Fields)
            /\ \A f \in S : Gives(w, f, v[f])
            /\ \A f \in Fields \ S : \A x : Gives(rest, f, x) => Gives(w, f, x)
<1> DEFINE last == Max(DOMAIN v \cup {0})
<1>1. DOMAIN v = S /\ S \subseteq Nat /\ IsFiniteSet(S)
  BY FieldsAssumption, FS_Subset DEF TypedValues
<1>2. last \in Nat /\ \A f \in S : f <= last
  <2> DEFINE A == S \cup {0}
  <2>1. IsFiniteSet(A) BY <1>1, FS_AddElement
  <2>2. A \in SUBSET Nat /\ A # {} BY <1>1
  <2>3. last = Max(A) BY <1>1
  <2>4. last \in A /\ \A y \in A : y <= last
    <3> HIDE DEF A, last
    <3> QED BY <2>1, <2>2, <2>3, MaxFound
  <2> HIDE DEF last
  <2> QED BY <2>2, <2>4
<1> DEFINE Fold(upto) ==
             /\ upto = [n \in 0 .. last |->
                          IF n = 0 THEN <<>>
                          ELSE IF n \in DOMAIN v /\ ~Skipped(n, v[n])
                          THEN Append(upto[n - 1], [field |-> n, value |-> v[n]])
                          ELSE upto[n - 1]]
             /\ Written(v, rest) = upto[last] \o rest
<1>3. PICK upto : Fold(upto) BY <1>2, WrittenSteps
<1> HIDE DEF last
<1> DEFINE T == {n \in Nat : n <= last => WriteState(S, v, n, upto[n])}
<1>4. 0 \in T
  <2> DEFINE e == <<>>
  <2>1. upto[0] = e BY <1>2, <1>3
  <2>2. e \in Seq(Entries) /\ Len(e) = 0 OBVIOUS
  <2>3. \A f \in S : ~ (f <= 0) BY FieldsAssumption
  <2> HIDE DEF e
  <2>4. WriteState(S, v, 0, e) BY <2>2, <2>3 DEF WriteState
  <2> QED BY <2>1, <2>4
<1>5. ASSUME NEW n \in Nat, n \in T PROVE n + 1 \in T
  <2> SUFFICES ASSUME n + 1 <= last PROVE WriteState(S, v, n + 1, upto[n + 1]) OBVIOUS
  <2>1. n + 1 \in 0 .. last /\ n + 1 # 0 /\ (n + 1) - 1 = n /\ n <= last BY <1>2
  <2>2. upto[n + 1] = IF n + 1 \in DOMAIN v /\ ~Skipped(n + 1, v[n + 1])
                      THEN Append(upto[n], [field |-> n + 1, value |-> v[n + 1]]) ELSE upto[n]
    BY <1>3, <2>1
  <2>3. WriteState(S, v, n, upto[n]) BY <1>5, <2>1
  <2> QED BY <2>2, <2>3, FieldWritten
<1> DEFINE u == upto[last]
<1>6. WriteState(S, v, last, u)
  <2> HIDE DEF T
  <2>1. last \in T BY <1>2, <1>4, <1>5, Induction
  <2> QED BY <1>2, <2>1 DEF T
<1> DEFINE w == Written(v, rest)
<1>7. w = u \o rest BY <1>3
<1> HIDE DEF T, Fold, u, w
<1>8. u \in Seq(Entries) /\ rest \in Seq(Entries) /\ Len(u) \in Nat /\ Len(rest) \in Nat
  BY <1>6 DEF WriteState, Holding
<1>9. /\ w \in Seq(Entries) /\ Len(w) = Len(u) + Len(rest)
      /\ \A k \in 1 .. Len(u) : k \in 1 .. Len(w) /\ w[k] = u[k]
      /\ \A k \in 1 .. Len(rest) : Len(u) + k \in 1 .. Len(w) /\ w[Len(u) + k] = rest[k]
  BY <1>7, <1>8
<1>10. ASSUME NEW k \in 1 .. Len(w)
       PROVE  \/ k \in 1 .. Len(u)
              \/ k - Len(u) \in 1 .. Len(rest) /\ w[k] = rest[k - Len(u)]
  <2>1. CASE k <= Len(u) BY <1>8, <2>1
  <2>2. CASE ~ (k <= Len(u))
    <3>1. k - Len(u) \in 1 .. Len(rest) /\ Len(u) + (k - Len(u)) = k BY <1>8, <1>9, <2>2
    <3> QED BY <1>9, <3>1
  <2> QED BY <2>1, <2>2
<1>11. \A k \in 1 .. Len(u) : u[k].field \in S /\ u[k].value = v[u[k].field]
  BY <1>6 DEF WriteState
<1>12. \A k \in 1 .. Len(rest) :
         rest[k].field \in Fields \ S /\ rest[k].value \in ValuesOf(rest[k].field)
  BY DEF Holding
<1>13. Holding(w, Fields)
  <2>1. ASSUME NEW k \in 1 .. Len(w)
        PROVE  w[k].field \in Fields /\ w[k].value \in ValuesOf(w[k].field)
    <3>1. CASE k \in 1 .. Len(u) BY <1>9, <1>11, <3>1 DEF TypedValues
    <3>2. CASE k - Len(u) \in 1 .. Len(rest) /\ w[k] = rest[k - Len(u)] BY <1>12, <3>2
    <3> QED BY <1>10, <3>1, <3>2
  <2>2. ASSUME NEW k \in 1 .. Len(w), NEW l \in 1 .. Len(w), w[k].field = w[l].field
        PROVE  k = l
    <3>1. CASE k \in 1 .. Len(u) /\ l \in 1 .. Len(u)
      <4>1. u[k].field = u[l].field BY <1>9, <2>2, <3>1
      <4> QED BY <1>6, <3>1, <4>1 DEF WriteState
    <3>2. CASE k \in 1 .. Len(u) /\ l \notin 1 .. Len(u)
      BY <1>9, <1>10, <1>11, <1>12, <2>2, <3>2
    <3>3. CASE k \notin 1 .. Len(u) /\ l \in 1 .. Len(u)
      BY <1>9, <1>10, <1>11, <1>12, <2>2, <3>3
    <3>4. CASE k \notin 1 .. Len(u) /\ l \notin 1 .. Len(u)
      <4>1. k - Len(u) \in 1 .. Len(rest) /\ l - Len(u) \in 1 .. Len(rest)
            /\ rest[k - Len(u)].field = rest[l - Len(u)].field
        BY <1>10, <2>2, <3>4
      <4>2. k - Len(u) = l - Len(u) BY <4>1 DEF Holding
      <4> QED BY <1>8, <4>2
    <3> QED BY <3>1, <3>2, <3>3, <3>4
  <2> QED BY <1>9, <2>1, <2>2 DEF Holding
<1>14. ASSUME NEW f \in S PROVE Gives(w, f, v[f])
  <2>1. ASSUME NEW k \in 1 .. Len(w), w[k].field = f PROVE w[k].value = v[f]
    BY <1>9, <1>10, <1>11, <1>12, <2>1
  <2>2. ASSUME \A k \in 1 .. Len(w) : w[k].field # f PROVE v[f] = Default(f)
    <3>1. \A k \in 1 .. Len(u) : u[k].field # f BY <1>9, <2>2
    <3>2. Skipped(f, v[f]) BY <1>2, <1>6, <3>1 DEF WriteState
    <3>3. f \in Fields /\ v[f] \in ValuesOf(f) BY DEF TypedValues
    <3> QED BY <3>2, <3>3, Defaults
  <2> QED BY <2>1, <2>2 DEF Gives
<1>15. ASSUME NEW f \in Fields \ S, NEW x, Gives(rest, f, x) PROVE Gives(w, f, x)
  <2>1. ASSUME NEW k \in 1 .. Len(w), w[k].field = f PROVE w[k].value = x
    <3>1. CASE k \in 1 .. Len(u) BY <1>9, <1>11, <2>1, <3>1
    <3>2. CASE k - Len(u) \in 1 .. Len(rest) /\ w[k] = rest[k - Len(u)]
      BY <1>15, <2>1, <3>2 DEF Gives
    <3> QED BY <1>10, <3>1, <3>2
  <2>2. ASSUME \A k \in 1 .. Len(w) : w[k].field # f PROVE x = Default(f)
    <3>1. \A k \in 1 .. Len(rest) : rest[k].field # f BY <1>9, <2>2
    <3> QED BY <1>15, <3>1 DEF Gives
  <2> QED BY <2>1, <2>2 DEF Gives
<1> QED BY <1>13, <1>14, <1>15 DEF w
-----------------------------------------------------------------------------
\* Bytes give a field one value.
LEMMA GivesOne ==
  ASSUME NEW b, NEW f, NEW x, NEW y, Gives(b, f, x), Gives(b, f, y)
  PROVE  x = y
BY DEF Gives

\* A program that knows every field reads the values that the bytes give.
LEMMA ReadsAll ==
  ASSUME NEW b, Holding(b, Fields), NEW v, TypedValues(v, Fields),
         \A f \in Fields : Gives(b, f, v[f])
  PROVE  Loaded(Fresh(Fields), b).val = v
<1> DEFINE w == Loaded(Fresh(Fields), b).val
<1>1. TypedValues(w, Fields) /\ \A f \in Fields : Gives(b, f, w[f]) BY LoadGives
<1> HIDE DEF w
<1>2. \A f \in Fields : w[f] = v[f] BY <1>1, GivesOne
<1>3. w \in [Fields -> AnyValue] /\ v \in [Fields -> AnyValue] BY <1>1 DEF TypedValues
<1> QED BY <1>2, <1>3 DEF w

\* A new object has the default of every field.
LEMMA FreshValues ==
  ASSUME NEW S \in SUBSET Fields
  PROVE  TypedValues(Fresh(S), S) /\ \A f \in S : Fresh(S)[f] = Default(f)
BY Defaults, AnyValues DEF Fresh, TypedValues

\* No unknown fields give every field its default.
LEMMA NothingUnknown ==
  ASSUME NEW S
  PROVE  Holding(<<>>, S) /\ \A f : Gives(<<>>, f, Default(f))
<1> DEFINE e == <<>>
<1>1. e \in Seq(Entries) /\ Len(e) = 0 OBVIOUS
<1> HIDE DEF e
<1>2. Holding(e, S) /\ \A f : Gives(e, f, Default(f)) BY <1>1 DEF Holding, Gives
<1> QED BY <1>2 DEF e

\* From to_dict and back the fields have the values they had.
LEMMA DictKeeps ==
  ASSUME NEW S \in SUBSET Fields, NEW v, TypedValues(v, S)
  PROVE  FromDict(v) = v
<1>1. DOMAIN v = S /\ v = [f \in S |-> v[f]] BY DEF TypedValues
<1>2. ASSUME NEW f \in S, f \notin Dict(v) PROVE v[f] = Default(f)
  <2>1. f \in Optional => v[f] = None BY <1>1, <1>2 DEF Dict
  <2>2. f \notin Optional => v[f] = Default(f) BY <1>1, <1>2 DEF Dict
  <2>3. f \in Optional => Default(f) = None BY Defaults
  <2> QED BY <2>1, <2>2, <2>3
<1>3. \A f \in S : (IF f \in Dict(v) THEN v[f] ELSE Default(f)) = v[f] BY <1>2
<1>4. FromDict(v) = [f \in S |-> IF f \in Dict(v) THEN v[f] ELSE Default(f)]
  BY <1>1 DEF FromDict
<1> QED BY <1>1, <1>3, <1>4

-----------------------------------------------------------------------------
\* A new message stands for nothing but defaults.
LEMMA InitEvolution == Init => EvolutionInv
<1> SUFFICES ASSUME Init PROVE EvolutionInv OBVIOUS
<1>1. class \in Classes /\ Known(class) \in SUBSET Fields BY FieldsAssumption DEF Init
<1>2. val = Fresh(Known(class)) /\ content = Fresh(Fields) /\ unknown = <<>> /\ place = "object"
  BY DEF Init
<1>3. TypesInv BY <1>1, <1>2, FreshValues, NothingUnknown DEF TypesInv
<1>4. ContentInv
  <2>1. \A f \in Known(class) : content[f] = val[f] BY <1>1, <1>2, FreshValues
  <2>2. \A f \in Fields : Gives(unknown, f, content[f])
    BY <1>2, FreshValues, NothingUnknown
  <2> QED BY <1>2, <2>1, <2>2 DEF ContentInv
<1> QED BY <1>3, <1>4 DEF EvolutionInv

\* Setting a field unsets the other members of its oneof that the class has.
LEMMA SetKeeps ==
  ASSUME EvolutionInv, NEW f \in Fields, NEW x \in ValuesOf(f), Set(f, x)
  PROVE  EvolutionInv'
<1>1. /\ class \in Classes /\ Known(class) \in SUBSET Fields /\ f \in Known(class)
      /\ place = "object" /\ class' = class /\ place' = place /\ unknown' = unknown
      /\ wire' = wire
  BY FieldsAssumption DEF EvolutionInv, TypesInv, Set
<1>2. /\ val' = [g \in Known(class) |-> IF g = f THEN x
                                        ELSE IF {f, g} \subseteq Group THEN None ELSE val[g]]
      /\ content' = [g \in Fields |-> IF g \in Known(class) THEN val'[g] ELSE content[g]]
  BY DEF Set
<1>3. TypedValues(val, Known(class)) /\ TypedValues(content, Fields)
  BY DEF EvolutionInv, TypesInv
<1>4. \A g \in Group : g \in Fields /\ None \in ValuesOf(g)
  BY FieldsAssumption, Defaults DEF Fields
<1>5. TypedValues(val', Known(class))
  <2>1. \A g \in Known(class) : val'[g] \in ValuesOf(g) BY <1>1, <1>2, <1>3, <1>4 DEF TypedValues
  <2>2. \A g \in Known(class) : val'[g] \in AnyValue BY <1>1, <2>1, AnyValues
  <2> QED BY <1>2, <2>1, <2>2 DEF TypedValues
<1>6. TypedValues(content', Fields) BY <1>1, <1>2, <1>3, <1>5 DEF TypedValues
<1>7. TypesInv' BY <1>1, <1>5, <1>6 DEF EvolutionInv, TypesInv
<1>8. ContentInv'
  <2>1. \A g \in Known(class) : content'[g] = val'[g] BY <1>1, <1>2
  <2>2. ASSUME NEW g \in Fields \ Known(class) PROVE Gives(unknown, g, content'[g])
    <3>1. content'[g] = content[g] BY <1>1, <1>2
    <3> QED BY <1>1, <3>1 DEF EvolutionInv, ContentInv
  <2> QED BY <1>1, <2>1, <2>2 DEF ContentInv, Gives
<1> QED BY <1>7, <1>8 DEF EvolutionInv

\* A change of a list concerns no other field.
LEMMA SetItemsKeeps ==
  ASSUME EvolutionInv, NEW f \in Fields, NEW x \in ValuesOf(f), SetItems(f, x)
  PROVE  EvolutionInv'
<1>1. /\ class \in Classes /\ Known(class) \in SUBSET Fields /\ f \in Known(class)
      /\ f \in Repeated /\ place = "object" /\ class' = class /\ place' = place
      /\ unknown' = unknown /\ wire' = wire
      /\ val' = [val EXCEPT ![f] = x] /\ content' = [content EXCEPT ![f] = x]
  BY FieldsAssumption DEF EvolutionInv, TypesInv, SetItems
<1>2. TypedValues(val, Known(class)) /\ TypedValues(content, Fields) /\ x \in AnyValue
  BY AnyValues DEF EvolutionInv, TypesInv
<1>3. TypedValues(val', Known(class)) BY <1>1, <1>2 DEF TypedValues
<1>4. TypedValues(content', Fields) BY <1>1, <1>2 DEF TypedValues
<1>5. TypesInv' BY <1>1, <1>3, <1>4 DEF EvolutionInv, TypesInv
<1>6. \A g \in Fields : content'[g] = IF g = f THEN x ELSE content[g]
  BY <1>1, <1>2 DEF TypedValues
<1>7. \A g \in Known(class) : val'[g] = IF g = f THEN x ELSE val[g]
  BY <1>1, <1>2 DEF TypedValues
<1>8. ContentInv'
  <2>1. \A g \in Known(class) : content'[g] = val'[g]
    BY <1>1, <1>6, <1>7 DEF EvolutionInv, ContentInv
  <2>2. \A g \in Fields \ Known(class) : Gives(unknown, g, content'[g])
    BY <1>1, <1>6 DEF EvolutionInv, ContentInv
  <2> QED BY <1>1, <2>1, <2>2 DEF ContentInv, Gives
<1> QED BY <1>5, <1>8 DEF EvolutionInv

\* What an object stands for is what it is written as.
LEMMA WrittenContent ==
  ASSUME EvolutionInv, place = "object"
  PROVE  /\ Holding(Written(val, unknown), Fields)
         /\ \A f \in Fields : Gives(Written(val, unknown), f, content[f])
<1>1. /\ Known(class) \in SUBSET Fields /\ TypedValues(val, Known(class))
      /\ Holding(unknown, Fields \ Known(class))
  BY FieldsAssumption DEF EvolutionInv, TypesInv
<1>2. /\ \A f \in Known(class) : content[f] = val[f]
      /\ \A f \in Fields \ Known(class) : Gives(unknown, f, content[f])
  BY DEF EvolutionInv, ContentInv
<1> DEFINE w == Written(val, unknown)
<1>3. /\ Holding(w, Fields) /\ \A f \in Known(class) : Gives(w, f, val[f])
      /\ \A f \in Fields \ Known(class) : \A x : Gives(unknown, f, x) => Gives(w, f, x)
  BY <1>1, WrittenGives
<1> HIDE DEF w
<1>4. \A f \in Fields : Gives(w, f, content[f]) BY <1>2, <1>3
<1> QED BY <1>3, <1>4 DEF w

\* bytes(message) gives every field what the object gave it.
LEMMA SerializeKeeps == EvolutionInv /\ Serialize => EvolutionInv'
<1> SUFFICES ASSUME EvolutionInv, Serialize PROVE EvolutionInv' OBVIOUS
<1>1. /\ place = "object" /\ place' = "sent" /\ wire' = Written(val, unknown)
      /\ class' = class /\ val' = val /\ unknown' = unknown /\ content' = content
  BY DEF Serialize, object
<1>2. Holding(wire', Fields) /\ \A f \in Fields : Gives(wire', f, content[f])
  BY <1>1, WrittenContent
<1>3. TypesInv' BY <1>1, <1>2 DEF EvolutionInv, TypesInv
<1>4. ContentInv' BY <1>1, <1>2 DEF ContentInv, Gives
<1> QED BY <1>3, <1>4 DEF EvolutionInv

\* parse gives every field what the bytes gave it, in an attribute or as an unknown field.
LEMMA ParseKeeps ==
  ASSUME EvolutionInv, NEW c \in Classes, Parse(c)
  PROVE  EvolutionInv'
<1> DEFINE m == Loaded(Fresh(Known(c)), wire)
<1>1. /\ place = "sent" /\ place' = "object" /\ class' = c /\ content' = content
      /\ val' = m.val /\ unknown' = m.unknown
  BY DEF Parse
<1>2. /\ Known(c) \in SUBSET Fields /\ Holding(wire, Fields)
      /\ \A f \in Fields : Gives(wire, f, content[f])
  BY <1>1, FieldsAssumption DEF EvolutionInv, TypesInv, ContentInv
<1>3. /\ TypedValues(m.val, Known(c)) /\ \A f \in Known(c) : Gives(wire, f, m.val[f])
      /\ Holding(m.unknown, Fields \ Known(c))
      /\ \A f \in Fields \ Known(c) : \A x : Gives(wire, f, x) => Gives(m.unknown, f, x)
  BY <1>2, LoadGives
<1> HIDE DEF m
<1>4. TypesInv' BY <1>1, <1>3 DEF EvolutionInv, TypesInv
<1>5. ContentInv'
  <2>1. \A f \in Known(c) : content[f] = val'[f] BY <1>1, <1>2, <1>3, GivesOne
  <2>2. \A f \in Fields \ Known(c) : Gives(unknown', f, content[f]) BY <1>1, <1>2, <1>3
  <2> QED BY <1>1, <2>1, <2>2 DEF ContentInv, Gives
<1> QED BY <1>4, <1>5 DEF EvolutionInv

\* Forgetting the unknown fields leaves an object that stands for its own fields.
LEMMA ForgetKeeps ==
  ASSUME EvolutionInv, place = "object", place' = "object", class' = class, val' = val,
         unknown' = <<>>, content' = Forgotten
  PROVE  EvolutionInv'
<1>1. Known(class) \in SUBSET Fields /\ TypedValues(content, Fields)
  BY FieldsAssumption DEF EvolutionInv, TypesInv
<1>2. \A f \in Fields : content'[f] = IF f \in Known(class) THEN content[f] ELSE Default(f)
  BY DEF Forgotten
<1>3. TypedValues(content', Fields)
  <2>1. \A f \in Fields : content'[f] \in ValuesOf(f) BY <1>1, <1>2, Defaults DEF TypedValues
  <2>2. \A f \in Fields : content'[f] \in AnyValue BY <2>1, AnyValues
  <2> QED BY <2>1, <2>2 DEF TypedValues, Forgotten
<1>4. TypesInv' BY <1>3, NothingUnknown DEF EvolutionInv, TypesInv
<1>5. ContentInv'
  <2>1. \A f \in Known(class) : content'[f] = val[f]
    BY <1>1, <1>2 DEF EvolutionInv, ContentInv
  <2>2. \A f \in Fields \ Known(class) : Gives(<<>>, f, content'[f])
    BY <1>2, NothingUnknown
  <2> QED BY <2>1, <2>2 DEF ContentInv, Gives
<1> QED BY <1>4, <1>5 DEF EvolutionInv

\* No step of a program or of the user ends what the invariant says.
LEMMA NextEvolution ==
  ASSUME EvolutionInv, [Next]_vars
  PROVE  EvolutionInv'
<1>1. CASE \E f \in Fields : \E x \in ValuesOf(f) : Set(f, x)
  BY <1>1, SetKeeps
<1>2. CASE \E f \in Fields : \E items \in ValuesOf(f) : SetItems(f, items)
  BY <1>2, SetItemsKeeps
<1>3. CASE Serialize BY <1>3, SerializeKeeps
<1>4. CASE \E c \in Classes : Parse(c) BY <1>4, ParseKeeps
<1>5. CASE Copy BY <1>5, ForgetKeeps DEF Copy
<1>6. CASE ThroughDict
  <2>1. Known(class) \in SUBSET Fields /\ TypedValues(val, Known(class))
    BY FieldsAssumption DEF EvolutionInv, TypesInv
  <2>2. val' = val BY <1>6, <2>1, DictKeeps DEF ThroughDict
  <2> QED BY <1>6, <2>2, ForgetKeeps DEF ThroughDict
<1>7. CASE UNCHANGED vars
  <2>1. /\ class' = class /\ val' = val /\ unknown' = unknown /\ wire' = wire
        /\ place' = place /\ content' = content
    BY <1>7 DEF vars, object
  <2> QED BY <2>1 DEF EvolutionInv, TypesInv, ContentInv, Gives
<1> QED BY <1>1, <1>2, <1>3, <1>4, <1>5, <1>6, <1>7 DEF Next

\* Whatever the users set and wherever the message goes, the object or the bytes stand for
\* what was put in (Message.load, Message.__bytes__).
THEOREM EvolutionInvHolds == Spec => []EvolutionInv
<1>2. Init => EvolutionInv BY InitEvolution
<1>3. EvolutionInv /\ [Next]_vars => EvolutionInv' BY NextEvolution
<1> QED BY <1>2, <1>3, PTL DEF Spec

\* The variables of a message on its way stay in their types: in particular, no field that
\* the class has is ever among the unknown ones.
THEOREM EvolutionTyped == Spec => []TypeOK
<1>1. EvolutionInv => TypeOK
  <2> SUFFICES ASSUME EvolutionInv PROVE TypeOK OBVIOUS
  <2>1. DOMAIN unknown = 1 .. Len(unknown)
    <3>1. unknown \in Seq(Entries) BY DEF EvolutionInv, TypesInv, Holding
    <3> QED BY <3>1
  <2>2. DOMAIN val = Known(class) /\ DOMAIN content = Fields
    BY DEF EvolutionInv, TypesInv, TypedValues
  <2> QED BY <2>1, <2>2 DEF EvolutionInv, TypesInv, TypedValues, Holding, TypeOK
<1>2. Spec => []EvolutionInv BY EvolutionInvHolds
<1> QED BY <1>1, <1>2, PTL

\* A message that has come through any number of programs, each with a class that knows
\* other fields, still says to one that knows every field what was put into it: load keeps
\* unknown fields and __bytes__ writes them, once.
THEOREM EvolutionLosesNothing == Spec => []NothingLost
<1>1. EvolutionInv => NothingLost
  <2> SUFFICES ASSUME EvolutionInv PROVE NothingLost OBVIOUS
  <2> DEFINE b == IF place = "sent" THEN wire ELSE Written(val, unknown)
  <2>1. place \in {"object", "sent"} /\ TypedValues(content, Fields)
    BY DEF EvolutionInv, TypesInv
  <2>2. Holding(b, Fields) /\ \A f \in Fields : Gives(b, f, content[f])
    <3>1. CASE place = "sent" BY <3>1 DEF EvolutionInv, TypesInv, ContentInv
    <3>2. CASE place = "object" BY <3>2, WrittenContent
    <3> QED BY <2>1, <3>1, <3>2
  <2>3. Reading = Loaded(Fresh(Fields), b).val BY DEF Reading
  <2> HIDE DEF b
  <2> QED BY <2>1, <2>2, <2>3, ReadsAll DEF NothingLost
<1>2. Spec => []EvolutionInv BY EvolutionInvHolds
<1> QED BY <1>1, <1>2, PTL

=============================================================================
