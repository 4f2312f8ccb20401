---------------------- MODULE ServiceGenerationProofs ----------------------
(***************************************************************************)
(* The properties of ServiceGeneration, for all options, files and         *)
(* attributes of stubs.                                                    *)
(*                                                                         *)
(* GenerationInv is the inductive invariant: what each place of the        *)
(* pipeline has been reached with, the text from the settings and the      *)
(* file, the report and the names from the text, the call from the names.  *)
(* What a text looks like follows from there, by induction over its lines  *)
(* where a fold or a recursive function is concerned:                      *)
(*   - its lines are Shaped: an indented line of an import comes after the *)
(*     line that opens it, so the validator sees the names that Python     *)
(*     binds, no more and no less (ValidatorCounts);                       *)
(*   - each line belongs to the header, a message, a service or the        *)
(*     imports at the end (LinesFlattened), so the names that a line       *)
(*     evaluates are names that some line binds (NamesBound, PoolsBound);  *)
(*   - when no name is bound twice, a name is bound to its only line       *)
(*     (ClassesBound), and a call through it to the only handler of its    *)
(*     route (RoutesFollow).                                               *)
(* There is no induction theorem in use: Induction and LeastNat rest on    *)
(* the well-foundedness of < on the naturals.                              *)
(***************************************************************************)
EXTENDS ServiceGeneration, TLAPS, SequenceTheorems, FiniteSetTheorems, FunctionTheorems

-----------------------------------------------------------------------------
(************************** numbers and sequences **************************)

\* Every set of naturals that is not empty has a least one.
LEMMA LeastNat ==
  ASSUME NEW T \in SUBSET Nat, T # {}
  PROVE  \E x \in T : \A y \in T : x <= y
<1> DEFINE R == {p \in Nat \X Nat : p[1] < p[2]}
<1>1. IsWellFoundedOn(R, Nat) BY NatLessThanWellFounded DEF OpToRel
<1> HIDE DEF R
<1>2. PICK x \in T : \A y \in T : ~ (<<y, x>> \in R) BY <1>1, WFMin
<1>3. ASSUME NEW y \in T PROVE x <= y
  <2>1. x \in Nat /\ y \in Nat OBVIOUS
  <2>2. <<y, x>> \notin R BY <1>2
  <2>3. <<y, x>> \in Nat \X Nat BY <2>1
  <2>4. ~ (<<y, x>>[1] < <<y, x>>[2]) BY <2>2, <2>3 DEF R
  <2> QED BY <2>1, <2>4
<1> QED BY <1>3

\* A set that has zero and with each number the next has every number.
LEMMA Induction ==
  ASSUME NEW T, 0 \in T, \A n \in Nat : n \in T => n + 1 \in T
  PROVE  \A n \in Nat : n \in T
<1> DEFINE F == {n \in Nat : n \notin T}
<1> SUFFICES ASSUME F # {} PROVE FALSE OBVIOUS
<1>1. PICK x \in F : \A y \in F : x <= y
  <2>1. F \in SUBSET Nat OBVIOUS
  <2> HIDE DEF F
  <2> QED BY <2>1, LeastNat
<1>2. x # 0 /\ x - 1 \in Nat OBVIOUS
<1>3. x - 1 \notin F BY <1>1, <1>2
<1>4. (x - 1) + 1 \in T BY <1>2, <1>3
<1> QED BY <1>4

\* A finite set of naturals has a greatest, which is its Max.
LEMMA MaxFound ==
  ASSUME NEW S \in SUBSET Nat, IsFiniteSet(S), S # {}
  PROVE  Max(S) \in S /\ \A y \in S : y <= Max(S)
<1> DEFINE Top(A) == \E x \in A : \A y \in A : y <= x
           T == {n \in Nat : \A A \in SUBSET Nat :
                   IsFiniteSet(A) /\ A # {} /\ Cardinality(A) = n => Top(A)}
<1>1. 0 \in T
  <2> SUFFICES ASSUME NEW A \in SUBSET Nat, IsFiniteSet(A), A # {}, Cardinality(A) = 0
               PROVE  Top(A)
    OBVIOUS
  <2> QED BY FS_EmptySet
<1>2. ASSUME NEW n \in Nat, n \in T PROVE n + 1 \in T
  <2> SUFFICES ASSUME NEW A \in SUBSET Nat, IsFiniteSet(A), A # {}, Cardinality(A) = n + 1
               PROVE  Top(A)
    OBVIOUS
  <2>1. PICK x \in A : TRUE OBVIOUS
  <2> DEFINE B == A \ {x}
  <2>2. IsFiniteSet(B) /\ Cardinality(B) = n /\ B \in SUBSET Nat
    <3>1. IsFiniteSet(B) /\ Cardinality(B) = Cardinality(A) - 1 BY FS_RemoveElement
    <3> QED BY <3>1
  <2>3. CASE B = {}
    <3>1. A = {x} BY <2>3
    <3> QED BY <3>1
  <2>4. CASE B # {}
    <3>1. Top(B) BY <1>2, <2>2, <2>4
    <3>2. PICK z \in B : \A y \in B : y <= z BY <3>1
    <3>3. CASE x <= z
      <4>1. \A y \in A : y <= z BY <3>2, <3>3
      <4> QED BY <4>1
    <3>4. CASE ~ (x <= z)
      <4>1. \A y \in A : y <= x BY <3>2, <3>4
      <4> QED BY <4>1
    <3> QED BY <3>3, <3>4
  <2> QED BY <2>3, <2>4
<1>3. \A n \in Nat : n \in T
  <2> HIDE DEF T
  <2> QED BY <1>1, <1>2, Induction
<1>4. Cardinality(S) \in T BY <1>3, FS_CardinalityType
<1>5. Top(S) BY <1>4
<1> QED BY <1>5 DEF Max

\* The steps of joining sequences, of a set that has with two sequences their join.
LEMMA FlattenSteps ==
  ASSUME NEW C, \A a, b \in C : a \o b \in C,
         NEW n \in Nat \ {0}, NEW seqs \in [1 .. n -> C]
  PROVE  \E g \in [1 .. n -> C] :
           /\ g[1] = seqs[1] /\ \A j \in 1 .. n : j > 1 => g[j] = g[j - 1] \o seqs[j]
           /\ FlattenSeq(seqs) = g[n]
<1> DEFINE Upto(k) == {g \in [1 .. k -> C] :
                         /\ g[1] = seqs[1]
                         /\ \A j \in 1 .. k : j > 1 => g[j] = g[j - 1] \o seqs[j]}
           T == {k \in Nat : k + 1 <= n => Upto(k + 1) # {}}
<1>1. 0 \in T
  <2>1. 1 \in 1 .. n /\ seqs[1] \in C OBVIOUS
  <2>2. [j \in 1 .. 1 |-> seqs[1]] \in Upto(1) BY <2>1
  <2> HIDE DEF Upto
  <2> QED BY <2>2
<1>2. ASSUME NEW k \in Nat, k \in T PROVE k + 1 \in T
  <2> SUFFICES ASSUME (k + 1) + 1 <= n PROVE Upto((k + 1) + 1) # {}
    <3> HIDE DEF Upto
    <3> QED OBVIOUS
  <2> DEFINE m == k + 1
  <2>1. m \in Nat /\ m >= 1 /\ m <= n /\ m + 1 <= n OBVIOUS
  <2>2. PICK g : g \in Upto(m)
    <3>1. Upto(m) # {} BY <1>2, <2>1
    <3> HIDE DEF Upto
    <3> QED BY <3>1
  <2> HIDE DEF m
  <2> DEFINE h == [j \in 1 .. m + 1 |-> IF j <= m THEN g[j] ELSE g[m] \o seqs[m + 1]]
  <2>3. m \in 1 .. m /\ m + 1 \in 1 .. n BY <2>1
  <2>4. g[m] \o seqs[m + 1] \in C
    <3>1. g[m] \in C /\ seqs[m + 1] \in C BY <2>2, <2>3
    <3> QED BY <3>1
  <2>5. h \in [1 .. m + 1 -> C]
    <3> SUFFICES ASSUME NEW j \in 1 .. m + 1 PROVE h[j] \in C OBVIOUS
    <3>1. CASE j <= m
      <4>1. j \in 1 .. m BY <2>1, <3>1
      <4> QED BY <2>2, <3>1, <4>1
    <3>2. CASE ~ (j <= m) BY <2>4, <3>2
    <3> QED BY <3>1, <3>2
  <2>6. h[1] = seqs[1] BY <2>1, <2>2
  <2>7. ASSUME NEW j \in 1 .. m + 1, j > 1 PROVE h[j] = h[j - 1] \o seqs[j]
    <3>1. j - 1 \in 1 .. m + 1 /\ j - 1 <= m BY <2>1, <2>7
    <3>2. CASE j <= m
      <4>1. j \in 1 .. m BY <2>1, <3>2
      <4> QED BY <2>2, <2>7, <3>1, <3>2, <4>1
    <3>3. CASE ~ (j <= m)
      <4>1. j = m + 1 /\ j - 1 = m BY <2>1, <3>3
      <4> QED BY <3>1, <3>3, <4>1
    <3> QED BY <3>2, <3>3
  <2>8. h \in Upto(m + 1) BY <2>5, <2>6, <2>7
  <2> HIDE DEF Upto
  <2> QED BY <2>8 DEF m
<1>3. PICK k \in Nat : n = k + 1
  <2>1. n - 1 \in Nat /\ n = (n - 1) + 1 OBVIOUS
  <2> QED BY <2>1
<1>4. k \in T
  <2> HIDE DEF T
  <2> QED BY <1>1, <1>2, Induction
<1>5. PICK g : g \in Upto(n)
  <2>1. Upto(n) # {}
    <3> HIDE DEF Upto
    <3> QED BY <1>3, <1>4
  <2> HIDE DEF Upto
  <2> QED BY <2>1
<1> DEFINE Join(f) == f = [i \in 1 .. Len(seqs) |->
                             IF i = 1 THEN seqs[i] ELSE f[i - 1] \o seqs[i]]
           join == CHOOSE f : Join(f)
<1>6. Len(seqs) = n OBVIOUS
<1>7. Join(g)
  <2>1. g = [i \in 1 .. n |-> g[i]] BY <1>5
  <2>2. \A i \in 1 .. n : g[i] = IF i = 1 THEN seqs[i] ELSE g[i - 1] \o seqs[i] BY <1>5
  <2> QED BY <1>6, <2>1, <2>2
<1>8. Join(join)
  <2> HIDE DEF Join
  <2> QED BY <1>7
<1>9. FlattenSeq(seqs) = join[n] BY <1>6 DEF FlattenSeq
<1>10. join = [i \in 1 .. n |-> IF i = 1 THEN seqs[i] ELSE join[i - 1] \o seqs[i]]
  BY <1>6, <1>8
<1> HIDE DEF join
<1>11. \A i \in 1 .. n : join[i] = g[i]
  <2> DEFINE U == {i \in Nat : i + 1 <= n => join[i + 1] = g[i + 1]}
  <2>1. 0 \in U
    <3>1. 1 \in 1 .. n OBVIOUS
    <3>2. join[1] = seqs[1] BY <1>10, <3>1
    <3> QED BY <1>5, <3>2
  <2>2. ASSUME NEW i \in Nat, i \in U PROVE i + 1 \in U
    <3> SUFFICES ASSUME (i + 1) + 1 <= n PROVE join[(i + 1) + 1] = g[(i + 1) + 1] OBVIOUS
    <3>1. (i + 1) + 1 \in 1 .. n /\ (i + 1) + 1 # 1 /\ ((i + 1) + 1) - 1 = i + 1
          /\ i + 1 <= n /\ (i + 1) + 1 > 1
      OBVIOUS
    <3>2. join[i + 1] = g[i + 1] BY <2>2, <3>1
    <3> DEFINE x == (i + 1) + 1
    <3>3. x \in 1 .. n /\ x # 1 /\ x - 1 = i + 1 /\ x > 1 BY <3>1
    <3> HIDE DEF x
    <3>4. join[x] = join[x - 1] \o seqs[x] BY <1>10, <3>3
    <3>5. g[x] = g[x - 1] \o seqs[x] BY <1>5, <3>3
    <3>6. join[x] = g[x] BY <3>2, <3>3, <3>4, <3>5
    <3> QED BY <3>6 DEF x
  <2>3. \A i \in Nat : i \in U
    <3> HIDE DEF U
    <3> QED BY <2>1, <2>2, Induction
  <2>4. ASSUME NEW i \in 1 .. n PROVE join[i] = g[i]
    <3>1. i - 1 \in Nat /\ (i - 1) + 1 = i /\ i <= n OBVIOUS
    <3>2. i - 1 \in U
      <4> HIDE DEF U
      <4> QED BY <2>3, <3>1
    <3> QED BY <3>1, <3>2
  <2> QED BY <2>4
<1>12. n \in 1 .. n OBVIOUS
<1>13. FlattenSeq(seqs) = g[n] BY <1>9, <1>11, <1>12
<1> QED BY <1>5, <1>13

\* Two sequences that are joined have the elements of both.
LEMMA JoinedElements ==
  ASSUME NEW S, NEW a \in Seq(S), NEW b \in Seq(S)
  PROVE  ToSet(a \o b) = ToSet(a) \cup ToSet(b)
<1>1. /\ a \o b \in Seq(S) /\ Len(a) \in Nat /\ Len(b) \in Nat
      /\ Len(a \o b) = Len(a) + Len(b)
      /\ DOMAIN a = 1 .. Len(a) /\ DOMAIN b = 1 .. Len(b)
      /\ DOMAIN (a \o b) = 1 .. Len(a) + Len(b)
      /\ \A i \in 1 .. Len(a) + Len(b) :
           (a \o b)[i] = IF i <= Len(a) THEN a[i] ELSE b[i - Len(a)]
  BY ConcatProperties, LenProperties
<1>2. ASSUME NEW i \in DOMAIN (a \o b) PROVE (a \o b)[i] \in ToSet(a) \cup ToSet(b)
  <2>1. CASE i <= Len(a)
    <3>1. i \in DOMAIN a /\ (a \o b)[i] = a[i] BY <1>1, <2>1
    <3> QED BY <3>1 DEF ToSet
  <2>2. CASE ~ (i <= Len(a))
    <3>1. i - Len(a) \in DOMAIN b /\ (a \o b)[i] = b[i - Len(a)] BY <1>1, <2>2
    <3> QED BY <3>1 DEF ToSet
  <2> QED BY <2>1, <2>2
<1>3. ASSUME NEW i \in DOMAIN a PROVE a[i] \in ToSet(a \o b)
  <2>1. i \in DOMAIN (a \o b) /\ (a \o b)[i] = a[i] BY <1>1
  <2> QED BY <2>1 DEF ToSet
<1>4. ASSUME NEW i \in DOMAIN b PROVE b[i] \in ToSet(a \o b)
  <2>1. i + Len(a) \in DOMAIN (a \o b) /\ (a \o b)[i + Len(a)] = b[i] BY <1>1
  <2> QED BY <2>1 DEF ToSet
<1> QED BY <1>2, <1>3, <1>4 DEF ToSet

\* A set of sequences that has the empty one and with two sequences their join has what is
\* joined from its sequences, and that has the elements of all of them.
LEMMA Flattened ==
  ASSUME NEW S, NEW C \in SUBSET Seq(S), <<>> \in C, \A a, b \in C : a \o b \in C,
         NEW seqs \in Seq(C)
  PROVE  /\ FlattenSeq(seqs) \in C
         /\ ToSet(FlattenSeq(seqs)) = UNION {ToSet(seqs[i]) : i \in DOMAIN seqs}
<1> DEFINE n == Len(seqs)
           parts(k) == UNION {ToSet(seqs[i]) : i \in 1 .. k}
<1>1. n \in Nat /\ seqs \in [1 .. n -> C] /\ DOMAIN seqs = 1 .. n BY LenProperties
<1>2. CASE n = 0
  <2>1. seqs = <<>> /\ DOMAIN seqs = {} BY <1>1, <1>2
  <2>2. FlattenSeq(seqs) = <<>> BY <1>2, <2>1 DEF FlattenSeq
  <2>3. ToSet(<<>>) = {} BY DEF ToSet
  <2> QED BY <2>1, <2>2, <2>3
<1>3. CASE n # 0
  <2>1. n \in Nat \ {0} BY <1>1, <1>3
  <2> HIDE DEF n
  <2>2. PICK g \in [1 .. n -> C] :
          /\ g[1] = seqs[1] /\ \A j \in 1 .. n : j > 1 => g[j] = g[j - 1] \o seqs[j]
          /\ FlattenSeq(seqs) = g[n]
    <3>1. seqs \in [1 .. n -> C] BY <1>1
    <3>2. \A a, b \in C : a \o b \in C OBVIOUS
    <3>3. \A m \in Nat \ {0} : \A q \in [1 .. m -> C] :
            \E g \in [1 .. m -> C] :
              /\ g[1] = q[1] /\ \A j \in 1 .. m : j > 1 => g[j] = g[j - 1] \o q[j]
              /\ FlattenSeq(q) = g[m]
      BY <3>2, FlattenSteps
    <3> QED BY <2>1, <3>1, <3>3
  <2> DEFINE T == {k \in Nat : k + 1 <= n => ToSet(g[k + 1]) = parts(k + 1)}
  <2>3. 0 \in T
    <3>1. parts(1) = ToSet(seqs[1]) OBVIOUS
    <3> HIDE DEF parts
    <3> QED BY <2>2, <3>1
  <2>4. ASSUME NEW k \in Nat, k \in T PROVE k + 1 \in T
    <3> SUFFICES ASSUME (k + 1) + 1 <= n PROVE ToSet(g[(k + 1) + 1]) = parts((k + 1) + 1)
      OBVIOUS
    <3> DEFINE j == (k + 1) + 1
    <3>1. j \in 1 .. n /\ j > 1 /\ j - 1 = k + 1 /\ k + 1 \in 1 .. n /\ k + 1 <= n
      BY <2>1
    <3>2. 1 .. j = 1 .. (k + 1) \cup {j} OBVIOUS
    <3> HIDE DEF j
    <3>3. g[j] = g[k + 1] \o seqs[j]
      <4>1. g[j] = g[j - 1] \o seqs[j] BY <2>2, <3>1
      <4> QED BY <3>1, <4>1
    <3>4. g[k + 1] \in Seq(S) /\ seqs[j] \in Seq(S) BY <1>1, <2>2, <3>1
    <3>5. ToSet(g[j]) = ToSet(g[k + 1]) \cup ToSet(seqs[j]) BY <3>3, <3>4, JoinedElements
    <3>6. ToSet(g[k + 1]) = parts(k + 1) BY <2>4, <3>1
    <3>7. parts(j) = parts(k + 1) \cup ToSet(seqs[j]) BY <3>2
    <3> QED BY <3>5, <3>6, <3>7 DEF j
  <2>5. \A k \in Nat : k \in T
    <3> HIDE DEF T
    <3> QED BY <2>3, <2>4, Induction
  <2>6. n - 1 \in Nat /\ (n - 1) + 1 = n /\ n <= n /\ n \in 1 .. n BY <2>1
  <2>7. ToSet(g[n]) = parts(n)
    <3>1. n - 1 \in T
      <4> HIDE DEF T
      <4> QED BY <2>5, <2>6
    <3> QED BY <2>6, <3>1
  <2> QED BY <1>1, <2>2, <2>6, <2>7
<1> QED BY <1>2, <1>3

-----------------------------------------------------------------------------
(******************************* the lines *********************************)

\* The words of names: those of the .proto file, and those that the generator adds (the
\* provers do not know that these are strings).
Word == STRING \cup
  {"__all__", "_COMPILER_VERSION", "re", "builtins", "TYPE_CHECKING", "datetime", "warnings",
   "typing", "Async", "Iterable", "Iterator", "Self", "dataclass", "aristaproto",
   "Descriptor", "Enum", "default_message_pool", "default_google_proto_descriptor_pool",
   "pydantic", "model_validator", "grpc", "grpclib", "grpcio", "Metadata", "Like",
   "Deadline", "Sync", "Stub", "Base"}

Spelling == Seq(Word)

AnyDef ==
  [kind : {"import", "body", "sync", "grpclib", "grpcio", "base", "message", "value", "checking"},
   of : Spelling \cup AnyService]

AnyLine ==
  [form : Tracked \cup {"open", "close", "indented"}, names : SUBSET Spelling, def : AnyDef,
   evaluated : SUBSET Spelling, annotated : SUBSET Spelling]

\* Lines in which an item comes at once after the line that opens the import, as ruff lays
\* them out, and in which the lines around it have no names.
Shaped ==
  {l \in Seq(AnyLine) :
     \A i \in 1 .. Len(l) :
       /\ l[i].form = "item" => i > 1 /\ l[i - 1].form = "open"
       /\ l[i].form \in {"open", "close"} => l[i].names = {}}

\* The names that a module binds.
Bound(lines) == UNION {l.names : l \in {k \in ToSet(lines) : Binds(k)}}

\* The lines that bind a name.
Binding(lines, n) == {i \in DOMAIN lines : Binds(lines[i]) /\ n \in lines[i].names}

LEMMA NoLines == <<>> \in Shaped
BY EmptySeq DEF Shaped

LEMMA ShapedJoin ==
  ASSUME NEW a \in Shaped, NEW b \in Shaped
  PROVE  a \o b \in Shaped
<1> DEFINE c == a \o b
<1>1. /\ a \in Seq(AnyLine) /\ b \in Seq(AnyLine) /\ Len(a) \in Nat /\ Len(b) \in Nat
      /\ c \in Seq(AnyLine) /\ Len(c) = Len(a) + Len(b)
      /\ \A i \in 1 .. Len(c) : c[i] = IF i <= Len(a) THEN a[i] ELSE b[i - Len(a)]
  <2>1. a \in Seq(AnyLine) /\ b \in Seq(AnyLine) BY DEF Shaped
  <2> QED BY <2>1, ConcatProperties, LenProperties
<1> HIDE DEF c
<1>2. ASSUME NEW i \in 1 .. Len(c)
      PROVE  /\ c[i].form = "item" => i > 1 /\ c[i - 1].form = "open"
             /\ c[i].form \in {"open", "close"} => c[i].names = {}
  <2>1. CASE i <= Len(a)
    <3>1. i \in 1 .. Len(a) /\ c[i] = a[i] BY <1>1, <2>1
    <3>2. i > 1 => c[i - 1] = a[i - 1]
      <4>1. i > 1 => i - 1 \in 1 .. Len(c) /\ i - 1 <= Len(a) BY <1>1, <2>1
      <4> QED BY <1>1, <4>1
    <3> QED BY <3>1, <3>2 DEF Shaped
  <2>2. CASE ~ (i <= Len(a))
    <3> DEFINE j == i - Len(a)
    <3>1. j \in 1 .. Len(b) /\ c[i] = b[j] BY <1>1, <2>2
    <3>2. j > 1 => i > 1 /\ c[i - 1] = b[j - 1]
      <4>1. j > 1 => i > 1 /\ i - 1 \in 1 .. Len(c) /\ ~ (i - 1 <= Len(a))
                     /\ (i - 1) - Len(a) = j - 1
        BY <1>1, <2>2
      <4> QED BY <1>1, <4>1
    <3> HIDE DEF j
    <3> QED BY <3>1, <3>2 DEF Shaped
  <2> QED BY <2>1, <2>2
<1> QED BY <1>1, <1>2 DEF Shaped, c

\* The validator skips no line that binds a name, and counts no other: what it reports are
\* the names that more than one line of the module binds.
LEMMA ValidatorCounts ==
  ASSUME NEW lines \in Shaped
  PROVE  validate(lines) = {n \in Bound(lines) : Cardinality(Binding(lines, n)) > 1}
<1> DEFINE len == Len(lines)
           open(i) == \E j \in 1 .. i : /\ lines[j].form = "open"
                                        /\ \A m \in j + 1 .. i : lines[m].form # "close"
           names(i) == When(Binds(lines[i]), lines[i].names)
           g == [i \in 0 .. len |-> [inside |-> open(i), names |-> [j \in 1 .. i |-> names(j)]]]
           Start == [inside |-> FALSE, names |-> <<>>]
           Read(f) == f = [i \in 0 .. len |->
                             IF i = 0 THEN Start ELSE NextLine(f[i - 1], lines[i])]
           read == CHOOSE f : Read(f)
<1>1. /\ lines \in Seq(AnyLine) /\ len \in Nat /\ DOMAIN lines = 1 .. len
      /\ \A i \in 1 .. len : lines[i] \in AnyLine
  BY LenProperties, ElementOfSeq DEF Shaped
<1>2. \A i \in 1 .. len : lines[i].form = "item" => i > 1 /\ lines[i - 1].form = "open"
  BY DEF Shaped
<1>3. \A i \in 1 .. len : lines[i].form \in {"open", "close"} => lines[i].names = {}
  BY DEF Shaped
<1> HIDE DEF len
<1>4. g[0] = Start
  <2>1. 0 \in 0 .. len BY <1>1
  <2>2. open(0) = FALSE OBVIOUS
  <2>3. [j \in 1 .. 0 |-> names(j)] = <<>>
    <3> HIDE DEF names
    <3> QED OBVIOUS
  <2> HIDE DEF open, names
  <2> QED BY <2>1, <2>2, <2>3
<1>5. ASSUME NEW i \in 1 .. len PROVE g[i] = NextLine(g[i - 1], lines[i])
  <2>1. i \in 0 .. len /\ i - 1 \in 0 .. len /\ i \in Nat \ {0} BY <1>1
  <2>2. g[i - 1] = [inside |-> open(i - 1), names |-> [j \in 1 .. i - 1 |-> names(j)]]
    <3> HIDE DEF open, names
    <3> QED BY <2>1
  <2>3. open(i) = (lines[i].form = "open" \/ (open(i - 1) /\ lines[i].form # "close"))
    <3>1. ASSUME open(i)
          PROVE  lines[i].form = "open" \/ (open(i - 1) /\ lines[i].form # "close")
      <4>1. PICK j \in 1 .. i : /\ lines[j].form = "open"
                                /\ \A m \in j + 1 .. i : lines[m].form # "close"
        BY <3>1
      <4>2. CASE j = i BY <4>1, <4>2
      <4>3. CASE j # i
        <5>1. j \in 1 .. i - 1 /\ i \in j + 1 .. i BY <4>3
        <5>2. \A m \in j + 1 .. i - 1 : m \in j + 1 .. i OBVIOUS
        <5> QED BY <4>1, <5>1, <5>2
      <4> QED BY <4>2, <4>3
    <3>2. ASSUME lines[i].form = "open" PROVE open(i)
      <4>1. i \in 1 .. i /\ i + 1 .. i = {} BY <2>1
      <4> QED BY <3>2, <4>1
    <3>3. ASSUME open(i - 1), lines[i].form # "close" PROVE open(i)
      <4>1. PICK j \in 1 .. i - 1 : /\ lines[j].form = "open"
                                    /\ \A m \in j + 1 .. i - 1 : lines[m].form # "close"
        BY <3>3
      <4>2. j \in 1 .. i /\ \A m \in j + 1 .. i : m \in j + 1 .. i - 1 \/ m = i BY <2>1
      <4> QED BY <3>3, <4>1, <4>2
    <3>4. open(i) \in BOOLEAN OBVIOUS
    <3> HIDE DEF open
    <3> QED BY <3>1, <3>2, <3>3, <3>4
  <2>4. lines[i].form = "item" => open(i - 1)
    <3> SUFFICES ASSUME lines[i].form = "item" PROVE open(i - 1) OBVIOUS
    <3>1. i > 1 /\ lines[i - 1].form = "open" BY <1>2
    <3>2. i - 1 \in 1 .. i - 1 /\ (i - 1) + 1 .. i - 1 = {} BY <2>1, <3>1
    <3> QED BY <3>1, <3>2
  <2>5. names(i) = When(lines[i].form \in Tracked /\ (lines[i].form = "item" => open(i - 1)),
                        lines[i].names)
    <3>1. lines[i].form \in Tracked \cup {"open", "close", "indented"} BY <1>1 DEF AnyLine
    <3> HIDE DEF open
    <3> QED BY <1>3, <2>4, <3>1 DEF When, Binds, Tracked
  <2>6. [j \in 1 .. i |-> names(j)] = Append([j \in 1 .. i - 1 |-> names(j)], names(i))
    <3> HIDE DEF names
    <3> QED BY <2>1
  <2> DEFINE read_so_far == [j \in 1 .. i - 1 |-> names(j)]
  <2>7. NextLine(g[i - 1], lines[i])
          = [inside |-> lines[i].form = "open" \/ (open(i - 1) /\ lines[i].form # "close"),
             names |-> Append(read_so_far,
               When(lines[i].form \in Tracked /\ (lines[i].form = "item" => open(i - 1)),
                    lines[i].names))]
    <3> HIDE DEF open, read_so_far, g
    <3> QED BY <2>2 DEF NextLine, read_so_far
  <2>8. g[i] = [inside |-> open(i), names |-> [j \in 1 .. i |-> names(j)]]
    <3> HIDE DEF open, names
    <3> QED BY <2>1
  <2> HIDE DEF open, names, g
  <2> QED BY <2>3, <2>5, <2>6, <2>7, <2>8 DEF read_so_far
<1> HIDE DEF open, names
<1>6. Read(g)
  <2>1. \A i \in 0 .. len : g[i] = IF i = 0 THEN Start ELSE NextLine(g[i - 1], lines[i])
    <3> TAKE i \in 0 .. len
    <3>1. CASE i = 0 BY <1>4, <3>1
    <3>2. CASE i # 0
      <4>1. i \in 1 .. len BY <1>1, <3>2
      <4> HIDE DEF g
      <4> QED BY <1>5, <3>2, <4>1
    <3> QED BY <3>1, <3>2
  <2>2. g = [i \in 0 .. len |-> g[i]] OBVIOUS
  <2> HIDE DEF g, Start
  <2> QED BY <2>1, <2>2
<1>7. Read(read)
  <2> HIDE DEF Read, g
  <2> QED BY <1>6
<1>8. read = [i \in 0 .. len |-> IF i = 0 THEN Start ELSE NextLine(read[i - 1], lines[i])]
  <2> HIDE DEF read
  <2> QED BY <1>7
<1>9. validate(lines) = LET found == read[len].names
                        IN  {n \in UNION ToSet(found) :
                               Cardinality({i \in DOMAIN found : n \in found[i]}) > 1}
  BY DEF validate, len
<1> HIDE DEF read, g, Start
<1>10. \A i \in 0 .. len : read[i] = g[i]
  <2> DEFINE T == {i \in Nat : i <= len => read[i] = g[i]}
  <2>1. 0 \in T BY <1>1, <1>4, <1>8
  <2>2. ASSUME NEW i \in Nat, i \in T PROVE i + 1 \in T
    <3> SUFFICES ASSUME i + 1 <= len PROVE read[i + 1] = g[i + 1] OBVIOUS
    <3> DEFINE x == i + 1
    <3>1. x \in 1 .. len /\ x \in 0 .. len /\ x # 0 /\ x - 1 = i /\ i <= len BY <1>1
    <3> HIDE DEF x
    <3>2. read[x] = NextLine(read[x - 1], lines[x]) BY <1>8, <3>1
    <3>3. g[x] = NextLine(g[x - 1], lines[x]) BY <1>5, <3>1
    <3>4. read[i] = g[i] BY <2>2, <3>1
    <3> QED BY <3>1, <3>2, <3>3, <3>4 DEF x
  <2>3. \A i \in Nat : i \in T
    <3> HIDE DEF T
    <3> QED BY <2>1, <2>2, Induction
  <2> QED BY <1>1, <2>3
<1> DEFINE found == [j \in 1 .. len |-> names(j)]
<1>11. read[len].names = found
  <2>1. len \in 0 .. len BY <1>1
  <2>2. g[len].names = found BY <2>1 DEF g
  <2> QED BY <1>10, <2>1, <2>2
<1>12. DOMAIN found = 1 .. len /\ \A i \in 1 .. len : found[i] = names(i) OBVIOUS
<1>13. validate(lines) = {n \in UNION ToSet(found) :
                            Cardinality({i \in DOMAIN found : n \in found[i]}) > 1}
  <2> HIDE DEF found
  <2> QED BY <1>9, <1>11
<1> HIDE DEF found
<1>14. UNION ToSet(found) = Bound(lines)
  <2>1. ASSUME NEW n PROVE n \in UNION ToSet(found) <=> \E i \in 1 .. len : n \in names(i)
    BY <1>12 DEF ToSet
  <2>2. ASSUME NEW n
        PROVE  n \in Bound(lines)
                 <=> \E i \in 1 .. len : Binds(lines[i]) /\ n \in lines[i].names
    BY <1>1 DEF Bound, ToSet
  <2> QED BY <2>1, <2>2 DEF names, When
<1>15. ASSUME NEW n PROVE {i \in DOMAIN found : n \in found[i]} = Binding(lines, n)
  BY <1>1, <1>12 DEF Binding, names, When
<1> QED BY <1>13, <1>14, <1>15

-----------------------------------------------------------------------------
(****************************** the names **********************************)

\* The file is one of those considered, and the settings have values that the plugin knows.
Configured == file \in Files /\ \A key \in DOMAIN Values : settings[key] \in Values[key]

\* Spellings of one and two words, and those of the .proto file.
LEMMA Spelled ==
  /\ <<>> \in Spelling /\ \A w \in Word : <<w>> \in Spelling
  /\ \A v, w \in Word : <<v, w>> \in Spelling
  /\ \A v, w \in Spelling : v \o w \in Spelling
  /\ Name \subseteq Spelling
<1>1. <<>> \in Spelling BY DEF Spelling
<1>2. ASSUME NEW w \in Word PROVE <<w>> \in Spelling BY DEF Spelling
<1>3. ASSUME NEW v \in Word, NEW w \in Word PROVE <<v, w>> \in Spelling BY DEF Spelling
<1>4. ASSUME NEW v \in Spelling, NEW w \in Spelling PROVE v \o w \in Spelling
  BY ConcatProperties DEF Spelling
<1>5. ASSUME NEW name \in Name PROVE name \in Spelling
  <2>1. STRING \subseteq Word BY DEF Word
  <2> HIDE DEF Word
  <2> QED BY <2>1, SeqMonotonic DEF Name, Spelling
<1> QED BY <1>1, <1>2, <1>3, <1>4, <1>5

LEMMA ClassNameTyped ==
  ASSUME NEW name \in Name
  PROVE  pythonize_class_name(name) \in Spelling
<1> DEFINE C == Spelling
           words == [i \in DOMAIN name |-> IF name[i] = "_" THEN <<>> ELSE <<name[i]>>]
<1>1. Len(name) \in Nat /\ DOMAIN name = 1 .. Len(name)
      /\ \A i \in 1 .. Len(name) : name[i] \in Word
  BY LenProperties, ElementOfSeq DEF Name, Word
<1>2. \A i \in 1 .. Len(name) : (IF name[i] = "_" THEN <<>> ELSE <<name[i]>>) \in C
  BY <1>1, Spelled
<1>3. words \in Seq(C)
  <2>1. words \in [1 .. Len(name) -> C] BY <1>1, <1>2
  <2> HIDE DEF words, C
  <2> QED BY <1>1, <2>1
<1>4. <<>> \in C /\ \A a, b \in C : a \o b \in C BY ConcatProperties DEF Spelling
<1>5. C \in SUBSET Seq(Word) BY DEF Spelling
<1> HIDE DEF C, words
<1>6. FlattenSeq(words) \in C BY <1>3, <1>4, <1>5, Flattened
<1> QED BY <1>6 DEF pythonize_class_name, words, C

\* No name of a stub is that of the base of its service or of a pool.
LEMMA StubAndBase ==
  ASSUME NEW service \in AnyService, NEW k
  PROVE  /\ StubName(service, k) \in Spelling /\ BaseName(service) \in Spelling
         /\ StubName(service, k) # BaseName(service)
         /\ StubName(service, k) \notin Pools /\ BaseName(service) \notin Pools
<1> DEFINE class == pythonize_class_name(service.name)
<1>1. class \in Spelling BY ClassNameTyped DEF AnyService
<1> HIDE DEF class
<1>2. PICK prefix \in Spelling : StubName(service, k) = class \o prefix \o <<"Stub">>
  <2>1. <<"Sync">> \in Spelling /\ <<"Async">> \in Spelling /\ <<>> \in Spelling
    BY DEF Spelling, Word
  <2> QED BY <2>1 DEF StubName, class
<1>3. BaseName(service) = class \o <<"Base">> BY DEF BaseName, class
<1> DEFINE whole == class \o prefix
<1>4. whole \in Spelling /\ StubName(service, k) = whole \o <<"Stub">> BY <1>1, <1>2 DEF Spelling
<1> HIDE DEF whole
<1>5. ASSUME NEW w \in Spelling, NEW last \in Word
      PROVE  /\ w \o <<last>> \in Spelling /\ Len(w \o <<last>>) = Len(w) + 1
             /\ (w \o <<last>>)[Len(w \o <<last>>)] = last
  BY DEF Spelling
<1>6. \A pool \in Pools : Len(pool) = 1 /\ pool[1] # "Stub" /\ pool[1] # "Base" BY DEF Pools
<1>7. ASSUME NEW name, NEW pool \in Pools, name[Len(name)] \in {"Stub", "Base"}
      PROVE  name # pool
  BY <1>6, <1>7
<1> DEFINE stub == whole \o <<"Stub">>
           base == class \o <<"Base">>
<1>8. stub \in Spelling /\ stub[Len(stub)] = "Stub"
  <2>1. "Stub" \in Word BY DEF Word
  <2> QED BY <1>4, <1>5, <2>1
<1>9. base \in Spelling /\ base[Len(base)] = "Base"
  <2>1. "Base" \in Word BY DEF Word
  <2> QED BY <1>1, <1>5, <2>1
<1> HIDE DEF stub, base
<1>10. StubName(service, k) = stub /\ BaseName(service) = base BY <1>3, <1>4 DEF stub, base
<1>11. stub # base BY <1>8, <1>9
<1>12. stub \notin Pools /\ base \notin Pools BY <1>7, <1>8, <1>9
<1> QED BY <1>8, <1>9, <1>10, <1>11, <1>12

\* The stubs of a service that are generated have different names.
LEMMA StubsDiffer ==
  ASSUME Configured, NEW service \in AnyService, NEW k \in Stubs, NEW l \in Stubs,
         StubName(service, k) = StubName(service, l)
  PROVE  k = l
<1> DEFINE class == pythonize_class_name(service.name)
<1>1. class \in Spelling BY ClassNameTyped DEF AnyService
<1> HIDE DEF class
<1>2. \A j \in Stubs : j # "sync" => j = settings.client_async_transport /\ is_async_generated
  BY DEF Stubs, generates_async_client
<1>3. "sync" \in Stubs => is_sync_generated BY DEF Stubs, generates_sync_client
<1>4. ASSUME NEW j \in Stubs, j # "sync", "sync" \in Stubs
      PROVE  StubName(service, "sync") # StubName(service, j)
  <2>1. is_async_generated /\ is_sync_generated BY <1>2, <1>3, <1>4
  <2>2. settings.client_generation
          \in {"sync_async", "async_sync", "sync_async_no_default"}
    <3>1. settings.client_generation \in Values.client_generation BY DEF Configured, Values
    <3> QED BY <2>1, <3>1 DEF Values, is_async_generated, is_sync_generated
  <2> DEFINE a == IF is_sync_prefixed THEN <<"Sync">> ELSE <<>>
             b == IF is_async_prefixed THEN <<"Async">> ELSE <<>>
  <2>3. StubName(service, "sync") = class \o a \o <<"Stub">>
        /\ StubName(service, j) = class \o b \o <<"Stub">>
    BY <1>4 DEF StubName, class
  <2>4. \/ a = <<"Sync">> /\ b = <<>>
        \/ a = <<>> /\ b = <<"Async">>
        \/ a = <<"Sync">> /\ b = <<"Async">>
    BY <2>2 DEF is_sync_prefixed, is_async_prefixed
  <2> HIDE DEF a, b
  <2>5. /\ Len(class \o <<"Sync">> \o <<"Stub">>) = Len(class) + 2
        /\ Len(class \o <<"Async">> \o <<"Stub">>) = Len(class) + 2
        /\ Len(class \o <<>> \o <<"Stub">>) = Len(class) + 1
        /\ (class \o <<"Sync">> \o <<"Stub">>)[Len(class) + 1] = "Sync"
        /\ (class \o <<"Async">> \o <<"Stub">>)[Len(class) + 1] = "Async"
        /\ Len(class) \in Nat
    BY <1>1 DEF Spelling
  <2>6. CASE a = <<"Sync">> /\ b = <<>> BY <2>3, <2>5, <2>6
  <2>7. CASE a = <<>> /\ b = <<"Async">> BY <2>3, <2>5, <2>7
  <2>8. CASE a = <<"Sync">> /\ b = <<"Async">>
    <3>1. "Sync" # "Async" OBVIOUS
    <3> QED BY <2>3, <2>5, <2>8, <3>1
  <2> QED BY <2>4, <2>6, <2>7, <2>8
<1> QED BY <1>2, <1>4

\* The types of a service, and the names that its code has for them.
LEMMA TypesTyped ==
  ASSUME NEW service \in AnyService
  PROVE  /\ Types(service) \subseteq AnyType
         /\ \A type \in Types(service) : Expression(type) \in Spelling
         /\ Imports(service) \subseteq Spelling
<1>1. service.methods \in Seq(AnyMethod) BY DEF AnyService
<1>2. \A m \in ToSet(service.methods) : m \in AnyMethod
  BY <1>1, LenProperties, ElementOfSeq DEF ToSet
<1>3. \A m \in AnyMethod : m.input \in AnyType /\ m.output \in AnyType BY DEF AnyMethod
<1>4. Types(service) \subseteq AnyType BY <1>2, <1>3 DEF Types
<1>5. ASSUME NEW type \in AnyType PROVE Expression(type) \in Spelling
  <2>1. type.name \in Name /\ type.alias \in Name BY DEF AnyType
  <2>2. type.alias \in Spelling BY <2>1, Spelled
  <2> QED BY <2>1, <2>2, ClassNameTyped DEF Expression
<1>6. Imports(service) \subseteq Spelling
  <2>1. \A type \in AnyType : type.alias \in Name BY DEF AnyType
  <2> QED BY <1>4, <2>1, Spelled DEF Imports
<1> QED BY <1>4, <1>5, <1>6

LEMMA FileTyped ==
  ASSUME Configured
  PROVE  /\ file.messages \in Seq(AnyMessage) /\ file.services \in Seq(AnyService)
         /\ ToSet(file.messages) \subseteq AnyMessage
         /\ ToSet(file.services) \subseteq AnyService
<1>1. file.messages \in Seq(AnyMessage) /\ file.services \in Seq(AnyService)
  BY FilesAssumption DEF Configured
<1> QED BY <1>1, LenProperties, ElementOfSeq DEF ToSet

-----------------------------------------------------------------------------
(******************************* the text **********************************)

\* What the generator imports in the header, and for type checkers.
LEMMA HeaderSpelled ==
  /\ HeaderNames \subseteq Spelling /\ TypeCheckingNames \subseteq Spelling
  /\ <<"__all__">> \in Spelling /\ <<"_COMPILER_VERSION">> \in Spelling
<1> DEFINE two == {"Async", "Iterable", "Iterator", "Enum", "Descriptor", "aristaproto",
                   "grpclib", "grpcio", "Metadata", "Like"}
<1>1. \A w \in Word : <<w>> \in Spelling BY Spelled
<1>2. ASSUME NEW v \in two, NEW w \in two PROVE <<v, w>> \in Spelling
  <2>1. v \in Word /\ w \in Word BY DEF Word
  <2> QED BY <2>1, Spelled
<1>3. <<"__all__">> \in Spelling /\ <<"_COMPILER_VERSION">> \in Spelling BY <1>1 DEF Word
<1>4. HeaderNames \subseteq Spelling
  <2>1. {<<"re">>, <<"builtins">>, <<"TYPE_CHECKING">>, <<"datetime">>, <<"warnings">>,
         <<"typing">>, <<"Iterable">>, <<"Iterator">>, <<"Self">>, <<"dataclass">>,
         <<"aristaproto">>, <<"Descriptor">>, <<"default_message_pool">>, <<"pydantic">>,
         <<"model_validator">>, <<"default_google_proto_descriptor_pool">>, <<"grpc">>,
         <<"grpclib">>} \subseteq Spelling
    BY <1>1 DEF Word
  <2>2. {<<"Async", "Iterable">>, <<"Async", "Iterator">>, <<"Enum", "Descriptor">>}
          \subseteq Spelling
    BY <1>2
  <2>3. \A t \in Transports : <<"aristaproto", t>> \in Spelling BY <1>2 DEF Transports
  <2> QED BY <2>1, <2>2, <2>3 DEF HeaderNames, When
<1>5. TypeCheckingNames \subseteq Spelling
  <2>1. <<"Metadata", "Like">> \in Spelling /\ <<"Deadline">> \in Spelling
    BY <1>1, <1>2 DEF Word
  <2> QED BY <2>1 DEF TypeCheckingNames, When
<1> QED BY <1>3, <1>4, <1>5

\* A class.
LEMMA BlockLines ==
  ASSUME NEW name \in Spelling, NEW def \in AnyDef,
         NEW evaluated \in SUBSET Spelling, NEW annotated \in SUBSET Spelling
  PROVE  LET class == Line("class", {name}, def, evaluated, annotated)
             inner == Line("indented", {name}, Def("body", <<>>), {}, {})
         IN  /\ Block(name, def, evaluated, annotated) \in Shaped
             /\ ToSet(Block(name, def, evaluated, annotated)) = {class, inner}
<1> DEFINE class == Line("class", {name}, def, evaluated, annotated)
           inner == Line("indented", {name}, Def("body", <<>>), {}, {})
<1>1. Def("body", <<>>) \in AnyDef BY Spelled DEF Def, AnyDef
<1>2. class \in AnyLine BY DEF AnyLine, Line, Tracked
<1>3. inner \in AnyLine BY <1>1 DEF AnyLine, Line, Tracked
<1>4. class.form = "class" /\ inner.form = "indented" BY DEF Line
<1> HIDE DEF class, inner
<1> DEFINE b == <<class, inner>>
<1>5. b \in Seq(AnyLine) /\ Len(b) = 2 /\ b[1] = class /\ b[2] = inner /\ DOMAIN b = 1 .. 2
  BY <1>2, <1>3
<1>6. Block(name, def, evaluated, annotated) = b BY DEF Block, class, inner
<1> HIDE DEF b
<1>7. b \in Shaped
  <2>1. \A i \in 1 .. 2 : b[i].form \in {"class", "indented"} BY <1>4, <1>5
  <2>2. \A i \in 1 .. Len(b) : b[i].form # "item" /\ b[i].form \notin {"open", "close"}
    BY <1>5, <2>1
  <2>3. b \in Seq(AnyLine) BY <1>5
  <2> QED BY <2>2, <2>3 DEF Shaped
<1>8. ToSet(b) = {class, inner}
  <2>1. 1 .. 2 = {1, 2} OBVIOUS
  <2> QED BY <1>5, <2>1 DEF ToSet
<1> QED BY <1>6, <1>7, <1>8 DEF class, inner

\* One line.
LEMMA OneLine ==
  ASSUME NEW line \in AnyLine, line.form \notin {"open", "item", "close"}
  PROVE  <<line>> \in Shaped /\ ToSet(<<line>>) = {line}
<1> DEFINE b == <<line>>
<1>1. b \in Seq(AnyLine) /\ Len(b) = 1 /\ b[1] = line /\ DOMAIN b = {1} OBVIOUS
<1> HIDE DEF b
<1>2. ToSet(b) = {line} BY <1>1 DEF ToSet
<1>3. b \in Shaped
  <2>1. \A i \in 1 .. Len(b) : b[i].form # "item" /\ b[i].form \notin {"open", "close"}
    BY <1>1
  <2>2. b \in Seq(AnyLine) BY <1>1
  <2> QED BY <2>1, <2>2 DEF Shaped
<1> QED BY <1>2, <1>3 DEF b

\* What stands between the stubs and the bases.
LEMMA EndLines ==
  ASSUME NEW names \in SUBSET Spelling
  PROVE  /\ LongImport(names) \in Shaped /\ <<Import(names)>> \in Shaped
         /\ Import(names) \in AnyLine /\ ToSet(<<Import(names)>>) = {Import(names)}
         /\ ToSet(LongImport(names)) = {Line("open", {}, Def("import", <<>>), {}, {}),
                                        Line("item", names, Def("import", <<>>), {}, {}),
                                        Line("close", {}, Def("import", <<>>), {}, {})}
<1> DEFINE open  == Line("open", {}, Def("import", <<>>), {}, {})
           item  == Line("item", names, Def("import", <<>>), {}, {})
           close == Line("close", {}, Def("import", <<>>), {}, {})
<1>1. Def("import", <<>>) \in AnyDef BY Spelled DEF Def, AnyDef
<1>2. /\ open \in AnyLine /\ item \in AnyLine /\ close \in AnyLine
      /\ Import(names) \in AnyLine
  BY <1>1 DEF AnyLine, Line, Tracked, Import
<1>3. /\ open.form = "open" /\ open.names = {} /\ item.form = "item"
      /\ close.form = "close" /\ close.names = {} /\ Import(names).form = "import"
  BY DEF Line, Import
<1> HIDE DEF open, item, close
<1> DEFINE b == <<open, item, close>>
<1>4. /\ b \in Seq(AnyLine) /\ Len(b) = 3 /\ DOMAIN b = 1 .. 3
      /\ b[1] = open /\ b[2] = item /\ b[3] = close
  BY <1>2
<1>5. LongImport(names) = b BY DEF LongImport, open, item, close
<1> HIDE DEF b
<1>6. 1 .. 3 = {1, 2, 3} OBVIOUS
<1>7. ToSet(b) = {open, item, close} BY <1>4, <1>6 DEF ToSet
<1>8. b \in Shaped
  <2> SUFFICES ASSUME NEW i \in {1, 2, 3}
               PROVE  /\ b[i].form = "item" => i > 1 /\ b[i - 1].form = "open"
                      /\ b[i].form \in {"open", "close"} => b[i].names = {}
    BY <1>4, <1>6 DEF Shaped
  <2>1. CASE i = 1 BY <1>3, <1>4, <2>1
  <2>2. CASE i = 2
    <3>1. i - 1 = 1 /\ i > 1 BY <2>2
    <3> QED BY <1>3, <1>4, <2>2, <3>1
  <2>3. CASE i = 3 BY <1>3, <1>4, <2>3
  <2> QED BY <2>1, <2>2, <2>3
<1>9. <<Import(names)>> \in Shaped /\ ToSet(<<Import(names)>>) = {Import(names)}
  <2>1. Import(names).form \notin {"open", "item", "close"} BY <1>3
  <2> QED BY <1>2, <2>1, OneLine
<1> QED BY <1>2, <1>5, <1>7, <1>8, <1>9 DEF open, item, close

\* A message: its class is bound, and what its lines evaluate is imported in the header.
LEMMA MessageLines ==
  ASSUME Configured, NEW m \in ToSet(file.messages)
  PROVE  /\ MessageText(m) \in Shaped
         /\ \A line \in ToSet(MessageText(m)) :
              /\ line.names = {pythonize_class_name(m.name)}
              /\ line.evaluated \subseteq HeaderNames /\ line.annotated = {}
         /\ \E line \in ToSet(MessageText(m)) : Binds(line)
<1> DEFINE name == pythonize_class_name(m.name)
           evaluated == {<<"dataclass">>, <<"aristaproto">>, <<"default_message_pool">>}
             \cup When(settings.google_protobuf_descriptors,
                       {<<"Descriptor">>, <<"default_google_proto_descriptor_pool">>})
             \cup When(settings.pydantic_dataclasses /\ m.oneofs, {<<"model_validator">>})
           def == Def("message", m.name)
           class == Line("class", {name}, def, evaluated, {})
           inner == Line("indented", {name}, Def("body", <<>>), {}, {})
<1>1. m.name \in Name BY FileTyped DEF AnyMessage
<1>2. name \in Spelling BY <1>1, ClassNameTyped
<1>3. def \in AnyDef BY <1>1, Spelled DEF AnyDef, Def
<1>4. evaluated \subseteq HeaderNames BY DEF HeaderNames, When
<1>5. evaluated \in SUBSET Spelling /\ {} \in SUBSET Spelling BY <1>4, HeaderSpelled
<1>6. MessageText(m) = Block(name, def, evaluated, {}) BY DEF MessageText
<1> HIDE DEF name, def, evaluated
<1>7. /\ Block(name, def, evaluated, {}) \in Shaped
      /\ ToSet(Block(name, def, evaluated, {})) = {class, inner}
  BY <1>2, <1>3, <1>5, BlockLines
<1>8. /\ class.names = {name} /\ class.evaluated = evaluated /\ class.annotated = {}
      /\ inner.names = {name} /\ inner.evaluated = {} /\ inner.annotated = {}
      /\ Binds(class)
  BY DEF Line, Binds
<1> HIDE DEF class, inner
<1> QED BY <1>4, <1>6, <1>7, <1>8 DEF name

\* A stub: it is bound to its class, and what its lines evaluate is imported or a type of
\* the service; what is only in annotations may be imported for type checkers.
LEMMA StubTextLines ==
  ASSUME Configured, NEW service \in ToSet(file.services), NEW k \in Stubs
  PROVE  /\ StubText(service, k) \in Shaped
         /\ \A line \in ToSet(StubText(service, k)) :
              /\ line.names = {StubName(service, k)}
              /\ line.evaluated \subseteq HeaderNames \cup {Expression(t) : t \in Types(service)}
              /\ line.annotated \subseteq HeaderNames \cup TypeCheckingNames
         /\ \E line \in ToSet(StubText(service, k)) : Binds(line) /\ line.def = Def(k, service)
<1> DEFINE name == StubName(service, k)
           types == {Expression(t) : t \in Types(service)}
           async == When(k # "sync", {<<"Async", "Iterable">>, <<"Iterable">>})
           iterator == IF k = "sync" THEN {<<"Iterator">>} ELSE {<<"Async", "Iterator">>}
           options_of == CASE k = "sync"    -> {}
                           [] k = "grpcio"  -> {<<"Metadata", "Like">>, <<"grpc">>}
                           [] k = "grpclib" -> {<<"Metadata", "Like">>, <<"Deadline">>}
           evaluated == (IF k = "sync" THEN {<<"grpc">>} ELSE {<<"aristaproto", k>>}) \cup types
           annotated ==
             When(Streams(service, "client_streaming"), async \cup {<<"Iterable">>})
               \cup When(Streams(service, "server_streaming"), iterator)
               \cup When(service.methods # <<>>, options_of)
           def == Def(k, service)
           class == Line("class", {name}, def, evaluated, annotated)
           inner == Line("indented", {name}, Def("body", <<>>), {}, {})
<1>1. service \in AnyService BY FileTyped
<1>2. name \in Spelling BY <1>1, StubAndBase
<1>3. k \in {"sync", "grpclib", "grpcio"} BY DEF Stubs, Transports
<1>4. def \in AnyDef BY <1>1, <1>3 DEF AnyDef, Def
<1>5. types \subseteq Spelling BY <1>1, TypesTyped
<1>6. k = "sync" => generates_sync_client BY DEF Stubs
<1>7. k # "sync" => k \in Transports /\ generates_async_client(k) BY DEF Stubs
<1>8. (IF k = "sync" THEN {<<"grpc">>} ELSE {<<"aristaproto", k>>}) \subseteq HeaderNames
  <2>1. CASE k = "sync"
    <3>1. uses_grpcio BY <1>6, <2>1 DEF uses_grpcio
    <3> QED BY <2>1, <3>1 DEF HeaderNames, When
  <2>2. CASE k # "sync" BY <1>7, <2>2 DEF HeaderNames
  <2> QED BY <2>1, <2>2
<1>9. async \cup {<<"Iterable">>} \cup iterator \subseteq HeaderNames BY DEF HeaderNames, When
<1>10. options_of \subseteq HeaderNames \cup TypeCheckingNames
  <2>1. CASE k = "sync" BY <2>1
  <2>2. CASE k = "grpcio"
    <3>1. generates_async_client("grpcio") BY <1>7, <2>2
    <3>2. <<"Metadata", "Like">> \in TypeCheckingNames
      BY <3>1 DEF TypeCheckingNames, When, Transports
    <3>3. <<"grpc">> \in HeaderNames BY <3>1 DEF HeaderNames, When, uses_grpcio
    <3> QED BY <2>2, <3>2, <3>3
  <2>3. CASE k = "grpclib"
    <3>1. generates_async_client("grpclib") BY <1>7, <2>3
    <3>2. <<"Metadata", "Like">> \in TypeCheckingNames
      BY <3>1 DEF TypeCheckingNames, When, Transports
    <3>3. <<"Deadline">> \in TypeCheckingNames BY <3>1 DEF TypeCheckingNames, When
    <3> QED BY <2>3, <3>2, <3>3
  <2> QED BY <1>3, <2>1, <2>2, <2>3
<1> HIDE DEF types, async, iterator, options_of
<1>11. evaluated \subseteq HeaderNames \cup types BY <1>8
<1>12. annotated \subseteq HeaderNames \cup TypeCheckingNames BY <1>9, <1>10 DEF When
<1>13. StubText(service, k) = Block(name, def, evaluated, annotated)
  BY DEF StubText, types, async, iterator, options_of
<1> HIDE DEF name, def, evaluated, annotated
<1>14. evaluated \in SUBSET Spelling /\ annotated \in SUBSET Spelling
  BY <1>5, <1>11, <1>12, HeaderSpelled
<1>15. /\ Block(name, def, evaluated, annotated) \in Shaped
       /\ ToSet(Block(name, def, evaluated, annotated)) = {class, inner}
  BY <1>2, <1>4, <1>14, BlockLines
<1>16. /\ class.names = {name} /\ class.evaluated = evaluated /\ class.annotated = annotated
       /\ inner.names = {name} /\ inner.evaluated = {} /\ inner.annotated = {}
       /\ Binds(class) /\ class.def = def
  BY DEF Line, Binds
<1> HIDE DEF class, inner
<1> QED BY <1>11, <1>12, <1>13, <1>15, <1>16 DEF name, def, types

\* A base class likewise.
LEMMA BaseTextLines ==
  ASSUME Configured, NEW service \in ToSet(file.services), NEW t \in Bases
  PROVE  /\ BaseText(service, t) \in Shaped
         /\ \A line \in ToSet(BaseText(service, t)) :
              /\ line.names = {BaseName(service)}
              /\ line.evaluated \subseteq HeaderNames \cup {Expression(u) : u \in Types(service)}
              /\ line.annotated \subseteq HeaderNames
         /\ \E line \in ToSet(BaseText(service, t)) :
              Binds(line) /\ line.def = Def("base", service)
<1> DEFINE name == BaseName(service)
           types == {Expression(u) : u \in Types(service)}
           own == {<<"aristaproto", t>>} \cup When(t = "grpcio", {<<"grpc">>})
                    \cup When(t = "grpclib" /\ service.methods # <<>>, {<<"grpclib">>})
           evaluated == own \cup types
           annotated ==
             When(Streams(service, "client_streaming") \/ Streams(service, "server_streaming"),
                  {<<"Async", "Iterator">>})
           def == Def("base", service)
           class == Line("class", {name}, def, evaluated, annotated)
           inner == Line("indented", {name}, Def("body", <<>>), {}, {})
<1>1. service \in AnyService BY FileTyped
<1>2. name \in Spelling BY <1>1, StubAndBase
<1>3. t \in Transports /\ generates_async_server(t) BY DEF Bases
<1>4. def \in AnyDef BY <1>1 DEF AnyDef, Def
<1>5. types \subseteq Spelling BY <1>1, TypesTyped
<1>6. own \subseteq HeaderNames
  <2>1. <<"aristaproto", t>> \in HeaderNames BY <1>3 DEF HeaderNames
  <2>2. t = "grpcio" => <<"grpc">> \in HeaderNames
    BY <1>3 DEF HeaderNames, When, uses_grpcio
  <2>3. t = "grpclib" => <<"grpclib">> \in HeaderNames
    BY <1>3 DEF HeaderNames, When, uses_grpclib
  <2> QED BY <2>1, <2>2, <2>3 DEF When
<1>7. annotated \subseteq HeaderNames BY DEF HeaderNames, When
<1>8. BaseText(service, t) = Block(name, def, evaluated, annotated) BY DEF BaseText
<1> HIDE DEF own, types
<1>9. evaluated \subseteq HeaderNames \cup types BY <1>6
<1> HIDE DEF name, def, evaluated, annotated
<1>10. evaluated \in SUBSET Spelling /\ annotated \in SUBSET Spelling
  BY <1>5, <1>7, <1>9, HeaderSpelled
<1>11. /\ Block(name, def, evaluated, annotated) \in Shaped
       /\ ToSet(Block(name, def, evaluated, annotated)) = {class, inner}
  BY <1>2, <1>4, <1>10, BlockLines
<1>12. /\ class.names = {name} /\ class.evaluated = evaluated /\ class.annotated = annotated
       /\ inner.names = {name} /\ inner.evaluated = {} /\ inner.annotated = {}
       /\ Binds(class) /\ class.def = def
  BY DEF Line, Binds
<1> HIDE DEF class, inner
<1> QED BY <1>7, <1>8, <1>9, <1>11, <1>12 DEF name, def, types

\* Lines that are joined.
LEMMA LinesJoined ==
  ASSUME NEW a \in Shaped, NEW b \in Shaped
  PROVE  a \o b \in Shaped /\ ToSet(a \o b) = ToSet(a) \cup ToSet(b)
<1>1. a \in Seq(AnyLine) /\ b \in Seq(AnyLine) BY DEF Shaped
<1> QED BY <1>1, ShapedJoin, JoinedElements

LEMMA LinesFlattened ==
  ASSUME NEW seqs \in Seq(Shaped)
  PROVE  /\ FlattenSeq(seqs) \in Shaped
         /\ ToSet(FlattenSeq(seqs)) = UNION {ToSet(seqs[i]) : i \in DOMAIN seqs}
<1>1. Shaped \in SUBSET Seq(AnyLine) BY DEF Shaped
<1>2. \A a, b \in Shaped : a \o b \in Shaped BY ShapedJoin
<1> QED BY <1>1, <1>2, NoLines, Flattened

LEMMA NothingChosen == ToSet(<<>>) = {}
BY DEF ToSet

\* The stubs of a service, in the order of the template, and its bases.
LEMMA StubLinesAre ==
  ASSUME Configured, NEW service \in ToSet(file.services)
  PROVE  /\ StubLines(service) \in Shaped
         /\ ToSet(StubLines(service)) = UNION {ToSet(StubText(service, k)) : k \in Stubs}
<1> DEFINE part(k) == Chosen(k \in Stubs, StubText(service, k))
<1>1. ASSUME NEW k
      PROVE  /\ part(k) \in Shaped
             /\ ToSet(part(k)) = IF k \in Stubs THEN ToSet(StubText(service, k)) ELSE {}
  <2>1. k \in Stubs => StubText(service, k) \in Shaped BY StubTextLines
  <2> QED BY <2>1, NoLines, NothingChosen DEF Chosen
<1>2. Stubs \subseteq {"sync", "grpcio", "grpclib"} BY DEF Stubs, Transports
<1>3. StubLines(service) = part("sync") \o part("grpcio") \o part("grpclib") BY DEF StubLines
<1> HIDE DEF part
<1>4. /\ part("sync") \o part("grpcio") \in Shaped
      /\ ToSet(part("sync") \o part("grpcio")) = ToSet(part("sync")) \cup ToSet(part("grpcio"))
  BY <1>1, LinesJoined
<1> DEFINE two == part("sync") \o part("grpcio")
<1>5. two \in Shaped /\ ToSet(two) = ToSet(part("sync")) \cup ToSet(part("grpcio")) BY <1>4
<1> HIDE DEF two
<1>6. /\ two \o part("grpclib") \in Shaped
      /\ ToSet(two \o part("grpclib")) = ToSet(two) \cup ToSet(part("grpclib"))
  BY <1>1, <1>5, LinesJoined
<1>7. StubLines(service) = two \o part("grpclib") BY <1>3 DEF two
<1>8. ToSet(StubLines(service))
        = ToSet(part("sync")) \cup ToSet(part("grpcio")) \cup ToSet(part("grpclib"))
  BY <1>5, <1>6, <1>7
<1> QED BY <1>1, <1>2, <1>6, <1>7, <1>8

LEMMA BaseLinesAre ==
  ASSUME Configured, NEW service \in ToSet(file.services)
  PROVE  /\ BaseLines(service) \in Shaped
         /\ ToSet(BaseLines(service)) = UNION {ToSet(BaseText(service, t)) : t \in Bases}
<1> DEFINE part(t) == Chosen(t \in Bases, BaseText(service, t))
<1>1. ASSUME NEW t
      PROVE  /\ part(t) \in Shaped
             /\ ToSet(part(t)) = IF t \in Bases THEN ToSet(BaseText(service, t)) ELSE {}
  <2>1. t \in Bases => BaseText(service, t) \in Shaped BY BaseTextLines
  <2> QED BY <2>1, NoLines, NothingChosen DEF Chosen
<1>2. Bases \subseteq {"grpcio", "grpclib"} BY DEF Bases, Transports
<1>3. BaseLines(service) = part("grpcio") \o part("grpclib") BY DEF BaseLines
<1> HIDE DEF part
<1>4. /\ BaseLines(service) \in Shaped
      /\ ToSet(BaseLines(service)) = ToSet(part("grpcio")) \cup ToSet(part("grpclib"))
  BY <1>1, <1>3, LinesJoined
<1> QED BY <1>1, <1>2, <1>4

\* What is imported after the stubs.
LEMMA ImportsEndIs ==
  ASSUME Configured
  PROVE  /\ ImportsEnd \in Shaped /\ Collected \subseteq Spelling
         /\ \A line \in ToSet(ImportsEnd) :
              line.names \subseteq Collected /\ line.evaluated = {} /\ line.annotated = {}
         /\ \A n \in Collected : \E line \in ToSet(ImportsEnd) : Binds(line) /\ n \in line.names
<1>1. Collected \subseteq Spelling
  <2>1. \A s \in ToSet(file.services) : Imports(s) \subseteq Spelling BY FileTyped, TypesTyped
  <2> QED BY <2>1 DEF Collected
<1>2. CASE Collected = {}
  <2>1. ImportsEnd = <<>> BY <1>2 DEF ImportsEnd
  <2>2. ToSet(<<>>) = {} BY DEF ToSet
  <2> QED BY <1>2, <2>1, <2>2, NoLines
<1>3. CASE Collected # {} /\ file.long
  <2>1. ImportsEnd = LongImport(Collected) BY <1>3 DEF ImportsEnd
  <2> DEFINE open  == Line("open", {}, Def("import", <<>>), {}, {})
             item  == Line("item", Collected, Def("import", <<>>), {}, {})
             close == Line("close", {}, Def("import", <<>>), {}, {})
  <2>2. ImportsEnd \in Shaped /\ ToSet(ImportsEnd) = {open, item, close}
    BY <1>1, <2>1, EndLines
  <2>3. \A line \in {open, item, close} :
          line.names \subseteq Collected /\ line.evaluated = {} /\ line.annotated = {}
    BY DEF Line
  <2>4. Binds(item) /\ item.names = Collected BY DEF Line, Binds
  <2> HIDE DEF open, item, close
  <2> QED BY <1>1, <2>2, <2>3, <2>4
<1>4. CASE Collected # {} /\ ~ file.long
  <2>1. ImportsEnd = <<Import(Collected)>> BY <1>4 DEF ImportsEnd
  <2>2. ImportsEnd \in Shaped /\ ToSet(ImportsEnd) = {Import(Collected)}
    BY <1>1, <2>1, EndLines
  <2>3. /\ Import(Collected).names = Collected /\ Import(Collected).evaluated = {}
        /\ Import(Collected).annotated = {} /\ Binds(Import(Collected))
    BY DEF Import, Line, Binds
  <2> QED BY <1>1, <2>2, <2>3
<1> QED BY <1>2, <1>3, <1>4

\* The lines of the module after the header are those of its messages, its stubs, the
\* imports at the end and its bases.
LEMMA BodyLines ==
  ASSUME Configured
  PROVE  /\ Body \in Shaped
         /\ ToSet(Body) =
              (UNION {ToSet(MessageText(m)) : m \in ToSet(file.messages)})
              \cup (UNION {ToSet(StubLines(s)) : s \in ToSet(file.services)})
              \cup ToSet(ImportsEnd)
              \cup (UNION {ToSet(BaseLines(s)) : s \in ToSet(file.services)})
<1> DEFINE messages == [i \in DOMAIN file.messages |-> MessageText(file.messages[i])]
           stubs == [i \in DOMAIN file.services |-> StubLines(file.services[i])]
           bases == [i \in DOMAIN file.services |-> BaseLines(file.services[i])]
<1>1. /\ Len(file.messages) \in Nat /\ DOMAIN file.messages = 1 .. Len(file.messages)
      /\ Len(file.services) \in Nat /\ DOMAIN file.services = 1 .. Len(file.services)
  BY FileTyped, LenProperties
<1>2. /\ \A i \in DOMAIN file.messages : file.messages[i] \in ToSet(file.messages)
      /\ \A i \in DOMAIN file.services : file.services[i] \in ToSet(file.services)
      /\ \A m \in ToSet(file.messages) : \E i \in DOMAIN file.messages : m = file.messages[i]
      /\ \A s \in ToSet(file.services) : \E i \in DOMAIN file.services : s = file.services[i]
  BY DEF ToSet
<1>3. messages \in Seq(Shaped)
  <2>1. messages \in [1 .. Len(file.messages) -> Shaped] BY <1>1, <1>2, MessageLines
  <2> HIDE DEF messages
  <2> QED BY <1>1, <2>1
<1>4. stubs \in Seq(Shaped)
  <2>1. stubs \in [1 .. Len(file.services) -> Shaped] BY <1>1, <1>2, StubLinesAre
  <2> HIDE DEF stubs
  <2> QED BY <1>1, <2>1
<1>5. bases \in Seq(Shaped)
  <2>1. bases \in [1 .. Len(file.services) -> Shaped] BY <1>1, <1>2, BaseLinesAre
  <2> HIDE DEF bases
  <2> QED BY <1>1, <2>1
<1>6. UNION {ToSet(messages[i]) : i \in DOMAIN messages}
        = UNION {ToSet(MessageText(m)) : m \in ToSet(file.messages)}
  <2>1. /\ DOMAIN messages = DOMAIN file.messages
        /\ \A i \in DOMAIN file.messages : messages[i] = MessageText(file.messages[i])
    OBVIOUS
  <2> HIDE DEF messages
  <2>2. \A i \in DOMAIN messages : \E m \in ToSet(file.messages) : messages[i] = MessageText(m)
    BY <1>2, <2>1
  <2>3. \A m \in ToSet(file.messages) : \E i \in DOMAIN messages : messages[i] = MessageText(m)
    BY <1>2, <2>1
  <2> QED BY <2>2, <2>3
<1>7. UNION {ToSet(stubs[i]) : i \in DOMAIN stubs}
        = UNION {ToSet(StubLines(s)) : s \in ToSet(file.services)}
  <2>1. /\ DOMAIN stubs = DOMAIN file.services
        /\ \A i \in DOMAIN file.services : stubs[i] = StubLines(file.services[i])
    OBVIOUS
  <2> HIDE DEF stubs
  <2>2. \A i \in DOMAIN stubs : \E s \in ToSet(file.services) : stubs[i] = StubLines(s)
    BY <1>2, <2>1
  <2>3. \A s \in ToSet(file.services) : \E i \in DOMAIN stubs : stubs[i] = StubLines(s)
    BY <1>2, <2>1
  <2> QED BY <2>2, <2>3
<1>8. UNION {ToSet(bases[i]) : i \in DOMAIN bases}
        = UNION {ToSet(BaseLines(s)) : s \in ToSet(file.services)}
  <2>1. /\ DOMAIN bases = DOMAIN file.services
        /\ \A i \in DOMAIN file.services : bases[i] = BaseLines(file.services[i])
    OBVIOUS
  <2> HIDE DEF bases
  <2>2. \A i \in DOMAIN bases : \E s \in ToSet(file.services) : bases[i] = BaseLines(s)
    BY <1>2, <2>1
  <2>3. \A s \in ToSet(file.services) : \E i \in DOMAIN bases : bases[i] = BaseLines(s)
    BY <1>2, <2>1
  <2> QED BY <2>2, <2>3
<1>9. Body = FlattenSeq(messages) \o FlattenSeq(stubs) \o ImportsEnd \o FlattenSeq(bases)
  BY DEF Body
<1> HIDE DEF messages, stubs, bases
<1> DEFINE a == FlattenSeq(messages)
           b == FlattenSeq(stubs)
           d == FlattenSeq(bases)
<1>10. a \in Shaped /\ ToSet(a) = UNION {ToSet(MessageText(m)) : m \in ToSet(file.messages)}
  BY <1>3, <1>6, LinesFlattened
<1>11. b \in Shaped /\ ToSet(b) = UNION {ToSet(StubLines(s)) : s \in ToSet(file.services)}
  BY <1>4, <1>7, LinesFlattened
<1>12. d \in Shaped /\ ToSet(d) = UNION {ToSet(BaseLines(s)) : s \in ToSet(file.services)}
  BY <1>5, <1>8, LinesFlattened
<1> DEFINE ab == a \o b
           abc == ab \o ImportsEnd
<1>13. Body = abc \o d BY <1>9
<1> HIDE DEF a, b, d
<1>14. ab \in Shaped /\ ToSet(ab) = ToSet(a) \cup ToSet(b) BY <1>10, <1>11, LinesJoined
<1> HIDE DEF ab
<1>15. abc \in Shaped /\ ToSet(abc) = ToSet(ab) \cup ToSet(ImportsEnd)
  BY <1>14, ImportsEndIs, LinesJoined
<1> HIDE DEF abc
<1>16. Body \in Shaped /\ ToSet(Body) = ToSet(abc) \cup ToSet(d)
  BY <1>12, <1>13, <1>15, LinesJoined
<1> QED BY <1>10, <1>11, <1>12, <1>14, <1>15, <1>16

\* The module as Render has put it together.
TextMade ==
  \E keep \in BOOLEAN :
    text = Header(IF keep THEN HeaderNames
                  ELSE HeaderNames \cap (Evaluated(Body) \cup Annotated(Body))) \o Body

HeaderLines(kept) ==
  {Line("assign", {<<"__all__">>}, Def("value", <<>>), {}, {}), Import(kept),
   Line("indented", TypeCheckingNames, Def("checking", <<>>), {}, {}),
   Line("assign", {<<"_COMPILER_VERSION">>}, Def("value", <<>>), {}, {})}

LEMMA HeaderIs ==
  ASSUME NEW kept \in SUBSET HeaderNames
  PROVE  Header(kept) \in Shaped /\ ToSet(Header(kept)) = HeaderLines(kept)
<1> DEFINE all == Line("assign", {<<"__all__">>}, Def("value", <<>>), {}, {})
           checking == Line("indented", TypeCheckingNames, Def("checking", <<>>), {}, {})
           version == Line("assign", {<<"_COMPILER_VERSION">>}, Def("value", <<>>), {}, {})
           b == <<all, Import(kept), checking, version>>
<1>1. /\ Def("value", <<>>) \in AnyDef /\ Def("checking", <<>>) \in AnyDef
      /\ Def("import", <<>>) \in AnyDef
  BY Spelled DEF Def, AnyDef
<1>2. kept \subseteq Spelling BY HeaderSpelled
<1>3. /\ all \in AnyLine /\ Import(kept) \in AnyLine /\ checking \in AnyLine
      /\ version \in AnyLine
  BY <1>1, <1>2, HeaderSpelled DEF AnyLine, Line, Tracked, Import
<1>4. /\ all.form = "assign" /\ Import(kept).form = "import" /\ checking.form = "indented"
      /\ version.form = "assign"
  BY DEF Line, Import
<1>5. Header(kept) = b BY DEF Header
<1> HIDE DEF all, checking, version
<1>6. /\ b \in Seq(AnyLine) /\ Len(b) = 4 /\ DOMAIN b = 1 .. 4
      /\ b[1] = all /\ b[2] = Import(kept) /\ b[3] = checking /\ b[4] = version
  BY <1>3
<1> HIDE DEF b
<1>7. 1 .. 4 = {1, 2, 3, 4} OBVIOUS
<1>8. ToSet(b) = {all, Import(kept), checking, version} BY <1>6, <1>7 DEF ToSet
<1>9. b \in Shaped
  <2>1. \A i \in 1 .. Len(b) : b[i].form # "item" /\ b[i].form \notin {"open", "close"}
    BY <1>4, <1>6, <1>7
  <2>2. b \in Seq(AnyLine) BY <1>6
  <2> QED BY <2>1, <2>2 DEF Shaped
<1> QED BY <1>5, <1>8, <1>9 DEF HeaderLines, all, checking, version

\* The imports that are kept are those that the rest of the module uses, at least.
LEMMA TextIs ==
  ASSUME Configured, TextMade
  PROVE  /\ text \in Shaped
         /\ \E kept \in SUBSET HeaderNames :
              /\ HeaderNames \cap (Evaluated(Body) \cup Annotated(Body)) \subseteq kept
              /\ ToSet(text) = HeaderLines(kept) \cup ToSet(Body)
<1>1. PICK kept \in SUBSET HeaderNames :
        /\ HeaderNames \cap (Evaluated(Body) \cup Annotated(Body)) \subseteq kept
        /\ text = Header(kept) \o Body
  <2>1. PICK keep \in BOOLEAN :
          text = Header(IF keep THEN HeaderNames
                        ELSE HeaderNames \cap (Evaluated(Body) \cup Annotated(Body))) \o Body
    BY DEF TextMade
  <2> DEFINE kept == IF keep THEN HeaderNames
                     ELSE HeaderNames \cap (Evaluated(Body) \cup Annotated(Body))
  <2>2. /\ kept \in SUBSET HeaderNames
        /\ HeaderNames \cap (Evaluated(Body) \cup Annotated(Body)) \subseteq kept
    OBVIOUS
  <2>3. text = Header(kept) \o Body BY <2>1
  <2> HIDE DEF kept
  <2> QED BY <2>2, <2>3
<1>2. Header(kept) \in Shaped /\ ToSet(Header(kept)) = HeaderLines(kept) BY HeaderIs
<1>3. Body \in Shaped BY BodyLines
<1>4. text \in Shaped /\ ToSet(text) = ToSet(Header(kept)) \cup ToSet(Body)
  BY <1>1, <1>2, <1>3, LinesJoined
<1> QED BY <1>1, <1>2, <1>4

\* Every class of a service that is generated has a line that binds its name to it.
LEMMA ClassesDefined ==
  ASSUME Configured, TextMade, NEW service \in ToSet(file.services)
  PROVE  /\ \A k \in Stubs : \E line \in ToSet(text) :
              /\ Binds(line) /\ line.names = {StubName(service, k)}
              /\ line.def = Def(k, service)
         /\ Bases # {} => \E line \in ToSet(text) :
              /\ Binds(line) /\ line.names = {BaseName(service)}
              /\ line.def = Def("base", service)
<1>1. ToSet(Body) \subseteq ToSet(text) BY TextIs
<1>2. ToSet(StubLines(service)) \subseteq ToSet(Body)
      /\ ToSet(BaseLines(service)) \subseteq ToSet(Body)
  BY BodyLines
<1>3. ASSUME NEW k \in Stubs
      PROVE  \E line \in ToSet(text) :
               Binds(line) /\ line.names = {StubName(service, k)} /\ line.def = Def(k, service)
  <2>1. ToSet(StubText(service, k)) \subseteq ToSet(text) BY <1>1, <1>2, StubLinesAre
  <2> QED BY <2>1, StubTextLines
<1>4. ASSUME NEW t \in Bases
      PROVE  \E line \in ToSet(text) :
               Binds(line) /\ line.names = {BaseName(service)} /\ line.def = Def("base", service)
  <2>1. ToSet(BaseText(service, t)) \subseteq ToSet(text) BY <1>1, <1>2, BaseLinesAre
  <2> QED BY <2>1, BaseTextLines
<1> QED BY <1>3, <1>4

\* The types of other packages that the services use.
Foreign == UNION {Imports(s) : s \in ToSet(file.services)}

LEMMA BoundByLine ==
  ASSUME NEW lines, NEW line \in ToSet(lines), Binds(line), NEW n \in line.names
  PROVE  n \in Bound(lines)
BY DEF Bound

\* A name of a type of a service is bound, but for those of other packages when no stub is
\* generated.
LEMMA TypesBound ==
  ASSUME Configured, TextMade, NEW service \in ToSet(file.services),
         NEW type \in Types(service)
  PROVE  Expression(type) \in Bound(text) \/ (Stubs = {} /\ Expression(type) \in Foreign)
<1>1. ToSet(Body) \subseteq ToSet(text) BY TextIs
<1>2. CASE type.other
  <2>1. Expression(type) \in Imports(service) BY <1>2 DEF Expression, Imports
  <2>2. CASE Stubs = {} BY <2>1, <2>2 DEF Foreign
  <2>3. CASE Stubs # {}
    <3>1. Expression(type) \in Collected BY <2>1, <2>3 DEF Collected
    <3>2. ToSet(ImportsEnd) \subseteq ToSet(text) BY <1>1, BodyLines
    <3> QED BY <3>1, <3>2, ImportsEndIs, BoundByLine
  <2> QED BY <2>2, <2>3
<1>3. CASE ~ type.other
  <2>1. PICK m \in ToSet(file.messages) : m.name = type.name
    BY <1>3, FilesAssumption DEF Configured
  <2>2. Expression(type) = pythonize_class_name(m.name) BY <1>3, <2>1 DEF Expression
  <2>3. ToSet(MessageText(m)) \subseteq ToSet(text) BY <1>1, BodyLines
  <2> QED BY <2>2, <2>3, MessageLines, BoundByLine
<1> QED BY <1>2, <1>3

\* Where the lines of the module come from.
LEMMA LinesOf ==
  ASSUME Configured, NEW line \in ToSet(Body)
  PROVE  \/ \E m \in ToSet(file.messages) : line \in ToSet(MessageText(m))
         \/ \E s \in ToSet(file.services) : \E k \in Stubs : line \in ToSet(StubText(s, k))
         \/ line \in ToSet(ImportsEnd)
         \/ \E s \in ToSet(file.services) : \E t \in Bases : line \in ToSet(BaseText(s, t))
<1>1. \A s \in ToSet(file.services) :
        ToSet(StubLines(s)) = UNION {ToSet(StubText(s, k)) : k \in Stubs}
  BY StubLinesAre
<1>2. \A s \in ToSet(file.services) :
        ToSet(BaseLines(s)) = UNION {ToSet(BaseText(s, t)) : t \in Bases}
  BY BaseLinesAre
<1>3. \/ \E m \in ToSet(file.messages) : line \in ToSet(MessageText(m))
      \/ \E s \in ToSet(file.services) : line \in ToSet(StubLines(s))
      \/ line \in ToSet(ImportsEnd)
      \/ \E s \in ToSet(file.services) : line \in ToSet(BaseLines(s))
  BY BodyLines
<1> QED BY <1>1, <1>2, <1>3

\* What the module evaluates is bound, but for types of other packages when no stub is
\* generated; what it only annotates is bound, or imported for type checkers.
LEMMA NamesBound ==
  ASSUME Configured, TextMade
  PROVE  /\ Evaluated(text) \ Bound(text) \subseteq When(Stubs = {}, Foreign)
         /\ Annotated(text) \subseteq Bound(text) \cup TypeCheckingNames
<1>1. PICK kept \in SUBSET HeaderNames :
        /\ HeaderNames \cap (Evaluated(Body) \cup Annotated(Body)) \subseteq kept
        /\ ToSet(text) = HeaderLines(kept) \cup ToSet(Body)
  BY TextIs
<1>2. \A line \in HeaderLines(kept) : line.evaluated = {} /\ line.annotated = {}
  BY DEF HeaderLines, Import, Line
<1>3. ASSUME NEW n \in kept PROVE n \in Bound(text)
  <2>1. Import(kept) \in ToSet(text) BY <1>1 DEF HeaderLines
  <2>2. Binds(Import(kept)) /\ Import(kept).names = kept BY DEF Binds, Import, Line
  <2> QED BY <2>1, <2>2, BoundByLine
<1>4. ASSUME NEW line \in ToSet(Body),
             NEW n \in HeaderNames, n \in line.evaluated \cup line.annotated
      PROVE  n \in Bound(text)
  <2>1. n \in Evaluated(Body) \cup Annotated(Body) BY <1>4 DEF Evaluated, Annotated
  <2> QED BY <1>1, <1>3, <2>1
<1>5. ASSUME NEW s \in ToSet(file.services), NEW n \in {Expression(t) : t \in Types(s)}
      PROVE  n \in Bound(text) \cup When(Stubs = {}, Foreign)
  BY TypesBound DEF When
<1>6. ASSUME NEW line \in ToSet(Body)
      PROVE  /\ line.evaluated \subseteq Bound(text) \cup When(Stubs = {}, Foreign)
             /\ line.annotated \subseteq Bound(text) \cup TypeCheckingNames
  <2>1. ASSUME NEW m \in ToSet(file.messages), line \in ToSet(MessageText(m))
        PROVE  /\ line.evaluated \subseteq Bound(text) \cup When(Stubs = {}, Foreign)
               /\ line.annotated \subseteq Bound(text) \cup TypeCheckingNames
    <3>1. line.evaluated \subseteq HeaderNames /\ line.annotated = {} BY <2>1, MessageLines
    <3> QED BY <1>4, <3>1
  <2>2. ASSUME NEW s \in ToSet(file.services), NEW k \in Stubs, line \in ToSet(StubText(s, k))
        PROVE  /\ line.evaluated \subseteq Bound(text) \cup When(Stubs = {}, Foreign)
               /\ line.annotated \subseteq Bound(text) \cup TypeCheckingNames
    <3>1. /\ line.evaluated \subseteq HeaderNames \cup {Expression(t) : t \in Types(s)}
          /\ line.annotated \subseteq HeaderNames \cup TypeCheckingNames
      BY <2>2, StubTextLines
    <3> QED BY <1>4, <1>5, <3>1
  <2>3. ASSUME line \in ToSet(ImportsEnd)
        PROVE  line.evaluated = {} /\ line.annotated = {}
    BY <2>3, ImportsEndIs
  <2>4. ASSUME NEW s \in ToSet(file.services), NEW t \in Bases, line \in ToSet(BaseText(s, t))
        PROVE  /\ line.evaluated \subseteq Bound(text) \cup When(Stubs = {}, Foreign)
               /\ line.annotated \subseteq Bound(text) \cup TypeCheckingNames
    <3>1. /\ line.evaluated \subseteq HeaderNames \cup {Expression(u) : u \in Types(s)}
          /\ line.annotated \subseteq HeaderNames
      BY <2>4, BaseTextLines
    <3> QED BY <1>4, <1>5, <3>1
  <2> QED BY <2>1, <2>2, <2>3, <2>4, LinesOf
<1>7. \A line \in ToSet(text) :
        /\ line.evaluated \subseteq Bound(text) \cup When(Stubs = {}, Foreign)
        /\ line.annotated \subseteq Bound(text) \cup TypeCheckingNames
  BY <1>1, <1>2, <1>6
<1> QED BY <1>7 DEF Evaluated, Annotated

\* The pool of descriptors is bound only when its module is written.
LEMMA PoolsBound ==
  ASSUME Configured, TextMade,
         <<"default_google_proto_descriptor_pool">> \in Bound(text)
  PROVE  settings.google_protobuf_descriptors
<1> DEFINE pool == <<"default_google_proto_descriptor_pool">>
<1>1. PICK kept \in SUBSET HeaderNames : ToSet(text) = HeaderLines(kept) \cup ToSet(Body)
  BY TextIs
<1>2. PICK line \in ToSet(text) : Binds(line) /\ pool \in line.names BY DEF Bound
<1>3. pool \in Pools BY DEF Pools
<1> SUFFICES ASSUME ~ settings.google_protobuf_descriptors PROVE FALSE OBVIOUS
<1>4. pool \notin HeaderNames
  <2>1. \A t : <<"aristaproto", t>> # pool /\ <<"Async", t>> # pool /\ <<"Enum", t>> # pool
    OBVIOUS
  <2> QED BY <2>1 DEF HeaderNames, When
<1>5. ASSUME line \in HeaderLines(kept) PROVE FALSE
  <2>1. <<"__all__">> # pool /\ <<"_COMPILER_VERSION">> # pool OBVIOUS
  <2> HIDE DEF pool
  <2> QED BY <1>2, <1>4, <1>5, <2>1 DEF HeaderLines, Line, Import, Binds
<1> HIDE DEF pool
<1>6. ASSUME line \in ToSet(Body) PROVE FALSE
  <2>1. ASSUME NEW m \in ToSet(file.messages), line \in ToSet(MessageText(m)) PROVE FALSE
    <3>1. pythonize_class_name(m.name) \notin Pools BY FilesAssumption DEF Configured
    <3>2. line.names = {pythonize_class_name(m.name)} BY <2>1, MessageLines
    <3> QED BY <1>2, <1>3, <3>1, <3>2
  <2>2. ASSUME NEW s \in ToSet(file.services), NEW k \in Stubs, line \in ToSet(StubText(s, k))
        PROVE  FALSE
    <3>1. line.names = {StubName(s, k)} BY <2>2, StubTextLines
    <3> QED BY <1>2, <1>3, <3>1, FileTyped, StubAndBase
  <2>3. ASSUME line \in ToSet(ImportsEnd) PROVE FALSE
    <3>1. pool \in Collected BY <1>2, <2>3, ImportsEndIs
    <3>2. PICK s \in ToSet(file.services) : pool \in Imports(s) BY <3>1 DEF Collected
    <3>3. PICK type \in Types(s) : type.other /\ pool = type.alias BY <3>2 DEF Imports
    <3>4. type.alias \notin Pools BY <3>3, FilesAssumption DEF Configured
    <3> QED BY <1>3, <3>3, <3>4
  <2>4. ASSUME NEW s \in ToSet(file.services), NEW t \in Bases, line \in ToSet(BaseText(s, t))
        PROVE  FALSE
    <3>1. line.names = {BaseName(s)} BY <2>4, BaseTextLines
    <3> QED BY <1>2, <1>3, <3>1, FileTyped, StubAndBase
  <2> QED BY <1>6, <2>1, <2>2, <2>3, <2>4, LinesOf
<1> QED BY <1>1, <1>2, <1>5, <1>6

-----------------------------------------------------------------------------
(**************************** the namespace ********************************)

\* The names of the imported module are those that its lines bind; a name that only one line
\* binds is bound to what that line says.
LEMMA NamespaceIs ==
  ASSUME NEW lines \in Shaped
  PROVE  /\ DOMAIN Namespace(lines) = Bound(lines)
         /\ \A n \in Bound(lines) : \A line \in ToSet(lines) :
              /\ Binds(line) /\ n \in line.names
              /\ ~ (Cardinality(Binding(lines, n)) > 1)
              => Namespace(lines)[n] = line.def
<1>1. lines \in Seq(AnyLine) /\ DOMAIN lines = 1 .. Len(lines) /\ Len(lines) \in Nat
  BY LenProperties DEF Shaped
<1>2. Namespace(lines) = [n \in Bound(lines) |-> lines[Max(Binding(lines, n))].def]
  BY DEF Namespace, Bound, Binding
<1>3. ASSUME NEW n \in Bound(lines), NEW line \in ToSet(lines), Binds(line), n \in line.names,
             ~ (Cardinality(Binding(lines, n)) > 1)
      PROVE  Namespace(lines)[n] = line.def
  <2>1. PICK i \in DOMAIN lines : line = lines[i] BY DEF ToSet
  <2> DEFINE b == Binding(lines, n)
  <2>2. i \in b BY <1>3, <2>1 DEF Binding
  <2>3. b \subseteq 1 .. Len(lines) BY <1>1 DEF Binding
  <2> HIDE DEF b
  <2>4. IsFiniteSet(b) /\ Cardinality(b) \in Nat
    <3>1. IsFiniteSet(1 .. Len(lines)) BY <1>1, FS_Interval
    <3>2. IsFiniteSet(b) BY <2>3, <3>1, FS_Subset
    <3> QED BY <3>2, FS_CardinalityType
  <2>5. b = {i}
    <3>1. Cardinality({i}) = 1 BY FS_Singleton
    <3>2. Cardinality({i}) <= Cardinality(b) /\ (Cardinality({i}) = Cardinality(b) => {i} = b)
      BY <2>2, <2>4, FS_Subset
    <3>3. ~ (Cardinality(b) > 1) BY <1>3 DEF b
    <3> QED BY <2>4, <3>1, <3>2, <3>3
  <2>6. i \in Nat BY <1>1
  <2>7. Max(b) = i BY <2>5, <2>6 DEF Max
  <2> QED BY <1>2, <2>1, <2>7 DEF b
<1> QED BY <1>2, <1>3

-----------------------------------------------------------------------------
(**************************** the invariant ********************************)

\* The last call, of a method of a stub whose route the server has.
CallMade ==
  \E s \in ToSet(file.services) : \E k \in Stubs : \E m \in ToSet(s.methods) :
    /\ route(s, m) \in DOMAIN server.mapping
    /\ file.services[call.service] = s /\ call.kind = k /\ call.method = m
    /\ call.outcome = Outcome(namespace[StubName(s, k)], pythonize_method_name(m.name))

\* What each place has been reached with.
GenerationInv ==
  /\ options \in Options /\ file \in Files
  /\ place \in {"options", "settings", "rendered", "validated", "imported", "serving",
                "called", "invalid"}
  /\ place \notin {"options", "invalid"} =>
       \A key \in DOMAIN Values : settings[key] \in Values[key]
  /\ place \in {"rendered", "validated", "imported", "serving", "called"} =>
       /\ TextMade
       /\ response = {"default_message_pool"}
                     \cup When(settings.google_protobuf_descriptors,
                               {"default_google_proto_descriptor_pool"})
  /\ place \in {"validated", "imported", "serving", "called"} => reported = validate(text)
  /\ place \in {"imported", "serving", "called"} => namespace = Namespace(text)
  /\ place \in {"serving", "called"} =>
       \E s \in ToSet(file.services) : \E t \in Transports : \E written \in SUBSET PyNames(s) :
         server = [mapping |-> Mapping(s, t), written |-> written]
  /\ place = "called" => CallMade

\* Options that are all known give settings that are known: the last one of each counts.
LEMMA SettingsKnown ==
  ASSUME options \in Options, ~ Invalid, NEW key \in DOMAIN Values
  PROVE  get_settings[key] \in Values[key]
<1>1. key \notin Flags /\ key \in DOMAIN Values \cup Flags BY DEF Values, Flags
<1>2. get_settings[key] = IF Given(key) = {} THEN Defaults[key] ELSE options[Max(Given(key))][2]
  BY <1>1 DEF get_settings
<1>3. Defaults[key] \in Values[key] BY DEF Defaults, Values, Transports
<1>4. CASE Given(key) # {}
  <2>1. options \in Seq(ToSet(options)) BY OptionsAssumption
  <2>2. DOMAIN options = 1 .. Len(options) /\ Len(options) \in Nat BY <2>1, LenProperties
  <2> DEFINE given == Given(key)
  <2>3. given \subseteq 1 .. Len(options) BY <2>2 DEF Given
  <2>4. \A i \in given : options[i][2] \in Values[key] BY DEF Invalid
  <2>5. given # {} BY <1>4
  <2> HIDE DEF given
  <2>6. IsFiniteSet(given)
    <3>1. IsFiniteSet(1 .. Len(options)) BY <2>2, FS_Interval
    <3> QED BY <2>3, <3>1, FS_Subset
  <2>7. given \in SUBSET Nat BY <2>3
  <2>8. Max(given) \in given BY <2>5, <2>6, <2>7, MaxFound
  <2> QED BY <1>2, <2>4, <2>5, <2>8 DEF given
<1> QED BY <1>2, <1>3, <1>4

\* The module is determined by the file and the settings.
LEMMA SameModule ==
  ASSUME file' = file, settings' = settings
  PROVE  /\ Body' = Body /\ HeaderNames' = HeaderNames
         /\ TypeCheckingNames' = TypeCheckingNames /\ Stubs' = Stubs
         /\ \A s, k : StubName(s, k)' = StubName(s, k)
<1>1. Body' = Body
  BY DEF Body, StubLines, BaseLines, StubText, BaseText, MessageText, StubName, BaseName,
         is_sync_prefixed, is_async_prefixed, Stubs, Bases, generates_async_server,
         generates_sync_client, generates_async_client, is_sync_generated, is_async_generated,
         ImportsEnd, Collected
<1>2. HeaderNames' = HeaderNames
  BY DEF HeaderNames, uses_grpcio, uses_grpclib, generates_async_server,
         generates_sync_client, generates_async_client, is_sync_generated, is_async_generated
<1>3. TypeCheckingNames' = TypeCheckingNames
  BY DEF TypeCheckingNames, generates_async_client, is_async_generated
<1>4. Stubs' = Stubs
  BY DEF Stubs, generates_sync_client, generates_async_client, is_sync_generated,
         is_async_generated
<1>5. ASSUME NEW s, NEW k PROVE StubName(s, k)' = StubName(s, k)
  BY DEF StubName, is_sync_prefixed, is_async_prefixed
<1> QED BY <1>1, <1>2, <1>3, <1>4, <1>5

LEMMA TextKept ==
  ASSUME TextMade, file' = file, settings' = settings, text' = text
  PROVE  TextMade'
<1>1. PICK keep \in BOOLEAN :
        text = Header(IF keep THEN HeaderNames
                      ELSE HeaderNames \cap (Evaluated(Body) \cup Annotated(Body))) \o Body
  BY DEF TextMade
<1>2. \A kept : Header(kept)' = Header(kept) BY SameModule DEF Header
<1> QED BY <1>1, <1>2, SameModule DEF TextMade

\* A stub calls what it has called as long as the server is the same.
LEMMA SameOutcome ==
  ASSUME server' = server
  PROVE  \A class, pyname : Outcome(class, pyname)' = Outcome(class, pyname)
BY DEF Outcome, Dispatched

LEMMA InitInv == Init => GenerationInv
BY DEF Init, GenerationInv

LEMMA StepInv == GenerationInv /\ [Next]_vars => GenerationInv'
<1> SUFFICES ASSUME GenerationInv, [Next]_vars PROVE GenerationInv' OBVIOUS
<1> USE DEF GenerationInv
<1>1. CASE ReadOptions
  <2>1. CASE Invalid BY <1>1, <2>1 DEF ReadOptions
  <2>2. CASE ~ Invalid
    <3>1. \A key \in DOMAIN Values : settings'[key] \in Values[key]
      BY <1>1, <2>2, SettingsKnown DEF ReadOptions
    <3> QED BY <1>1, <2>2, <3>1 DEF ReadOptions
  <2> QED BY <2>1, <2>2
<1>2. CASE Render
  <2>1. /\ Body' = Body /\ HeaderNames' = HeaderNames
        /\ \A kept : Header(kept)' = Header(kept)
    BY <1>2, SameModule DEF Render, Header
  <2>2. TextMade'
    <3>1. PICK keep \in BOOLEAN :
            text' = Header(IF keep THEN HeaderNames
                           ELSE HeaderNames \cap (Evaluated(Body) \cup Annotated(Body))) \o Body
      BY <1>2 DEF Render
    <3> QED BY <2>1, <3>1 DEF TextMade
  <2> QED BY <1>2, <2>2 DEF Render
<1>3. CASE Validate
  <2>1. TextMade' BY <1>3, TextKept DEF Validate
  <2>2. reported' = validate(text)' BY <1>3 DEF Validate
  <2> QED BY <1>3, <2>1, <2>2 DEF Validate
<1>4. CASE ImportModule
  <2>1. TextMade' BY <1>4, TextKept DEF ImportModule
  <2>2. reported' = validate(text)' BY <1>4 DEF ImportModule
  <2>3. namespace' = Namespace(text)' BY <1>4 DEF ImportModule
  <2> QED BY <1>4, <2>1, <2>2, <2>3 DEF ImportModule
<1>5. ASSUME NEW i \in DOMAIN file.services, NEW t \in Transports, Serve(i, t)
      PROVE  GenerationInv'
  <2>1. TextMade' BY <1>5, TextKept DEF Serve
  <2>2. reported' = validate(text)' BY <1>5 DEF Serve
  <2>3. namespace' = Namespace(text)' BY <1>5 DEF Serve
  <2>4. \E s \in ToSet(file'.services) : \E u \in Transports :
          \E written \in SUBSET PyNames(s) :
            server' = [mapping |-> Mapping(s, u), written |-> written]
    <3>1. file.services[i] \in ToSet(file'.services) BY <1>5 DEF Serve, ToSet
    <3> QED BY <1>5, <3>1 DEF Serve
  <2> QED BY <1>5, <2>1, <2>2, <2>3, <2>4 DEF Serve
<1>6. ASSUME NEW i \in DOMAIN file.services, NEW k \in {"sync"} \cup Transports,
             NEW m \in ToSet(file.services[i].methods), Call(i, k, m)
      PROVE  GenerationInv'
  <2>1. TextMade' BY <1>6, TextKept DEF Call
  <2>2. reported' = validate(text)' BY <1>6 DEF Call
  <2>3. namespace' = Namespace(text)' BY <1>6 DEF Call
  <2>4. /\ file' = file /\ server' = server /\ namespace' = namespace
        /\ Stubs' = Stubs /\ \A s, l : StubName(s, l)' = StubName(s, l)
        /\ \A class, pyname : Outcome(class, pyname)' = Outcome(class, pyname)
    BY <1>6, SameModule, SameOutcome DEF Call
  <2>5. CallMade'
    <3> DEFINE s == file.services[i]
    <3>1. s \in ToSet(file.services) BY DEF ToSet
    <3>2. /\ route(s, m) \in DOMAIN server.mapping /\ k \in Stubs
          /\ call' = [service |-> i, kind |-> k, method |-> m,
                      outcome |-> Outcome(namespace[StubName(s, k)],
                                          pythonize_method_name(m.name))]
      BY <1>6 DEF Call
    <3> QED BY <2>4, <3>1, <3>2 DEF CallMade
  <2>6. \E s \in ToSet(file'.services) : \E u \in Transports :
          \E written \in SUBSET PyNames(s) :
            server' = [mapping |-> Mapping(s, u), written |-> written]
    BY <1>6, <2>4 DEF Call
  <2> QED BY <1>6, <2>1, <2>2, <2>3, <2>5, <2>6 DEF Call
<1>7. CASE UNCHANGED vars
  <2>1. /\ file' = file /\ settings' = settings /\ text' = text /\ server' = server
        /\ namespace' = namespace /\ call' = call /\ place' = place /\ reported' = reported
        /\ response' = response /\ options' = options
    BY <1>7 DEF vars
  <2>2. TextMade => TextMade' BY <2>1, TextKept
  <2>3. validate(text)' = validate(text) /\ Namespace(text)' = Namespace(text) BY <2>1
  <2>4. CallMade => CallMade'
    <3>1. /\ Stubs' = Stubs /\ \A s, l : StubName(s, l)' = StubName(s, l)
          /\ \A class, pyname : Outcome(class, pyname)' = Outcome(class, pyname)
      BY <2>1, SameModule, SameOutcome
    <3> QED BY <2>1, <3>1 DEF CallMade
  <2> QED BY <2>1, <2>2, <2>3, <2>4
<1> QED BY <1>1, <1>2, <1>3, <1>4, <1>5, <1>6, <1>7 DEF Next

\* The module is made step by step as GenerationInv says.
THEOREM GenerationInvHolds == Spec => []GenerationInv
<1>1. Init => GenerationInv BY InitInv
<1>2. GenerationInv /\ [Next]_vars => GenerationInv' BY StepInv
<1> QED BY <1>1, <1>2, PTL DEF Spec

-----------------------------------------------------------------------------
(*************************** what is reported ******************************)

\* An imported module has the names that its lines bind, and the validator has reported
\* those that more than one line binds.
LEMMA ImportedIs ==
  ASSUME GenerationInv, place \in {"imported", "serving", "called"}
  PROVE  /\ Configured /\ TextMade /\ text \in Shaped
         /\ DOMAIN namespace = Bound(text)
         /\ reported = {n \in Bound(text) : Cardinality(Binding(text, n)) > 1}
<1>1. Configured /\ TextMade BY DEF GenerationInv, Configured
<1>2. text \in Shaped BY <1>1, TextIs
<1>3. reported = validate(text) /\ namespace = Namespace(text) BY DEF GenerationInv
<1> QED BY <1>1, <1>2, <1>3, ValidatorCounts, NamespaceIs

\* When nothing is reported, the classes of a service are bound to their names.
LEMMA ClassesBound ==
  ASSUME GenerationInv, place \in {"imported", "serving", "called"}, reported = {},
         NEW service \in ToSet(file.services)
  PROVE  /\ \A k \in Stubs : namespace[StubName(service, k)] = Def(k, service)
         /\ Bases # {} => namespace[BaseName(service)] = Def("base", service)
<1>1. /\ Configured /\ TextMade /\ text \in Shaped
      /\ reported = {n \in Bound(text) : Cardinality(Binding(text, n)) > 1}
  BY ImportedIs
<1>2. namespace = Namespace(text) BY DEF GenerationInv
<1>3. ASSUME NEW line \in ToSet(text), Binds(line), NEW n, line.names = {n}
      PROVE  namespace[n] = line.def
  <2>1. n \in line.names BY <1>3
  <2>2. n \in Bound(text) BY <1>3, <2>1, BoundByLine
  <2>3. ~ (Cardinality(Binding(text, n)) > 1) BY <1>1, <2>2
  <2> QED BY <1>1, <1>2, <1>3, <2>1, <2>2, <2>3, NamespaceIs
<1> QED BY <1>1, <1>3, ClassesDefined

\* The names of the stubs of a service are as many as its stubs, and none is its base's.
LEMMA StubNamesCounted ==
  ASSUME Configured, NEW service \in AnyService
  PROVE  Cardinality({StubName(service, k) : k \in Stubs} \ {BaseName(service)})
           = Cardinality(Stubs)
<1> DEFINE names == {StubName(service, k) : k \in Stubs}
           f == [k \in Stubs |-> StubName(service, k)]
<1>1. names \ {BaseName(service)} = names BY StubAndBase
<1>2. IsFiniteSet(Stubs)
  <2>1. Stubs \subseteq {"sync", "grpclib", "grpcio"} BY DEF Stubs, Transports
  <2>2. IsFiniteSet({"sync", "grpclib", "grpcio"})
    <3>1. IsFiniteSet({"sync"}) BY FS_Singleton
    <3>2. IsFiniteSet({"sync"} \cup {"grpclib"}) BY <3>1, FS_AddElement
    <3>3. IsFiniteSet(({"sync"} \cup {"grpclib"}) \cup {"grpcio"}) BY <3>2, FS_AddElement
    <3>4. ({"sync"} \cup {"grpclib"}) \cup {"grpcio"} = {"sync", "grpclib", "grpcio"} OBVIOUS
    <3> QED BY <3>3, <3>4
  <2> QED BY <2>1, <2>2, FS_Subset
<1>3. f \in Surjection(Stubs, names) BY DEF Surjection
<1>4. f \in Injection(Stubs, names)
  <2>1. f \in [Stubs -> names] OBVIOUS
  <2>2. \A k, l \in Stubs : f[k] = f[l] => k = l BY StubsDiffer
  <2> HIDE DEF f, names
  <2> QED BY <2>1, <2>2 DEF Injection, IsInjective
<1> HIDE DEF f, names
<1>5. Cardinality(names) = Cardinality(Stubs) BY <1>2, <1>3, <1>4, FS_Surjection
<1> QED BY <1>1, <1>5 DEF names

LEMMA CollisionsFollow == GenerationInv => CollisionsReported
<1> SUFFICES ASSUME GenerationInv, place = "imported"
             PROVE  /\ reported =
                         {n \in DOMAIN namespace :
                            Cardinality({i \in DOMAIN text :
                                           Binds(text[i]) /\ n \in text[i].names}) > 1}
                    /\ reported = {} =>
                         \A s \in ToSet(file.services) :
                           /\ \A k \in Stubs : namespace[StubName(s, k)] = Def(k, s)
                           /\ Bases # {} => namespace[BaseName(s)] = Def("base", s)
                    /\ \A s \in ToSet(file.services) :
                         Cardinality({StubName(s, k) : k \in Stubs} \ {BaseName(s)})
                           = Cardinality(Stubs)
  BY DEF CollisionsReported
<1>1. /\ Configured /\ DOMAIN namespace = Bound(text)
      /\ reported = {n \in Bound(text) : Cardinality(Binding(text, n)) > 1}
  BY ImportedIs
<1>2. reported =
        {n \in DOMAIN namespace :
           Cardinality({i \in DOMAIN text : Binds(text[i]) /\ n \in text[i].names}) > 1}
  BY <1>1 DEF Binding
<1>3. \A s \in ToSet(file.services) : s \in AnyService BY <1>1, FileTyped
<1>4. \A s \in ToSet(file.services) :
        Cardinality({StubName(s, k) : k \in Stubs} \ {BaseName(s)}) = Cardinality(Stubs)
  BY <1>1, <1>3, StubNamesCounted
<1> QED BY <1>2, <1>4, ClassesBound

\* CollisionsReported, for all files and options: the validator reports exactly the names
\* that two lines of the module bind, so when it is silent each class of a service has the
\* name that it is declared with (module_validation.py, compiler.py, the templates).
THEOREM GeneratedCollisionsReported == Spec => []CollisionsReported
<1>1. GenerationInv => CollisionsReported BY CollisionsFollow
<1> QED BY <1>1, GenerationInvHolds, PTL

-----------------------------------------------------------------------------
(**************************** what is imported *****************************)

LEMMA NamesFollow == GenerationInv => NamesImported
<1> SUFFICES ASSUME GenerationInv, place = "imported"
             PROVE  /\ Evaluated(text) \ DOMAIN namespace \subseteq When(Stubs = {}, Foreign)
                    /\ Annotated(text) \subseteq DOMAIN namespace \cup TypeCheckingNames
                    /\ Pools \cap DOMAIN namespace \subseteq {<<f>> : f \in response}
  BY DEF NamesImported, Foreign
<1>1. Configured /\ TextMade /\ DOMAIN namespace = Bound(text) BY ImportedIs
<1>2. response = {"default_message_pool"}
                 \cup When(settings.google_protobuf_descriptors,
                           {"default_google_proto_descriptor_pool"})
  BY DEF GenerationInv
<1>3. Pools \cap DOMAIN namespace \subseteq {<<f>> : f \in response}
  <2>1. <<"default_message_pool">> \in {<<f>> : f \in response} BY <1>2
  <2>2. ASSUME <<"default_google_proto_descriptor_pool">> \in Bound(text)
        PROVE  <<"default_google_proto_descriptor_pool">> \in {<<f>> : f \in response}
    <3>1. settings.google_protobuf_descriptors BY <1>1, <2>2, PoolsBound
    <3>2. "default_google_proto_descriptor_pool" \in response BY <1>2, <3>1 DEF When
    <3> QED BY <3>2
  <2> QED BY <1>1, <2>1, <2>2 DEF Pools
<1> QED BY <1>1, <1>3, NamesBound

\* NamesImported, for all files and options: what a generated module evaluates is bound, but
\* for types of other packages when only servers are generated, and a pool is imported only
\* from a file that the plugin writes (header.py.j2, uses_grpcio and uses_grpclib).
THEOREM GeneratedNamesImported == Spec => []NamesImported
<1>1. GenerationInv => NamesImported BY NamesFollow
<1> QED BY <1>1, GenerationInvHolds, PTL

-----------------------------------------------------------------------------
(****************************** what is called *****************************)

\* Stubs and bases choose the same kind of call.
LEMMA SameCardinality ==
  ASSUME NEW m \in AnyMethod
  PROVE  StubCardinality(m) = BaseCardinality(m)
<1>1. m.client_streaming \in BOOLEAN /\ m.server_streaming \in BOOLEAN BY DEF AnyMethod
<1> QED BY <1>1 DEF StubCardinality, BaseCardinality

LEMMA RoutesFollow == GenerationInv => RoutesMeet
<1> SUFFICES ASSUME GenerationInv, place = "called", reported = {},
                    Reachable(file.services[call.service], call.kind, call.method)
             PROVE  LET service == file.services[call.service]
                        pyname == pythonize_method_name(call.method.name)
                        expected == IF pyname \in server.written
                                    THEN Def("answered", <<route(service, call.method), pyname>>)
                                    ELSE Def("unimplemented", <<>>)
                    IN  call.outcome = expected
  BY DEF RoutesMeet
<1>1. PICK s \in ToSet(file.services), k \in Stubs : \E m \in ToSet(s.methods) :
        /\ route(s, m) \in DOMAIN server.mapping
        /\ file.services[call.service] = s /\ call.kind = k /\ call.method = m
        /\ call.outcome = Outcome(namespace[StubName(s, k)], pythonize_method_name(m.name))
  BY DEF GenerationInv, CallMade
<1> DEFINE m == call.method
<1>called. /\ m \in ToSet(s.methods) /\ route(s, m) \in DOMAIN server.mapping
      /\ file.services[call.service] = s /\ call.kind = k
      /\ call.outcome = Outcome(namespace[StubName(s, k)], pythonize_method_name(m.name))
  BY <1>1
<1>2. PICK r \in ToSet(file.services), t \in Transports :
        \E written : server = [mapping |-> Mapping(r, t), written |-> written]
  BY DEF GenerationInv
<1> DEFINE pyname == pythonize_method_name(m.name)
<1>3. file \in Files BY DEF GenerationInv
<1>4. s \in AnyService /\ m \in AnyMethod
  <2>1. Configured BY ImportedIs
  <2>2. s \in AnyService BY <2>1, FileTyped
  <2>3. s.methods \in Seq(AnyMethod) BY <2>2 DEF AnyService
  <2>4. ToSet(s.methods) \subseteq AnyMethod
    <3>1. DOMAIN s.methods = 1 .. Len(s.methods) /\ s.methods \in [1 .. Len(s.methods) -> AnyMethod]
      BY <2>3, LenProperties
    <3> QED BY <3>1 DEF ToSet
  <2> QED BY <1>called, <2>2, <2>4
<1>5. server.mapping = Mapping(r, t) BY <1>2
<1>6. DOMAIN Mapping(r, t) = {route(r, n) : n \in ToSet(r.methods)} BY DEF Mapping
<1>7. r = s
  <2>1. PICK n \in ToSet(r.methods) : route(s, m) = route(r, n) BY <1>called, <1>5, <1>6
  <2>2. r.name = s.name BY <2>1 DEF route
  <2> QED BY <1>3, <2>2, FilesAssumption
<1>8. \A n \in ToSet(s.methods) : route(s, n) = route(s, m) => n = m
  <2>1. \A n \in ToSet(s.methods) : route(s, n) = route(s, m) => n.name = m.name BY DEF route
  <2>2. \A n \in ToSet(s.methods) : n.name = m.name => n = m
    BY <1>3, <1>called, FilesAssumption
  <2> QED BY <2>1, <2>2
<1>9. LastNamed(s, pyname) = m BY <1>called DEF Reachable
<1>10. (CHOOSE n \in ToSet(s.methods) : route(s, n) = route(s, m)) = m BY <1>8
<1>11. Mapping(s, t)[route(s, m)] =
         [pyname |-> pyname, cardinality |-> BaseCardinality(m), works |-> TRUE]
  <2>1. route(s, m) \in {route(s, n) : n \in ToSet(s.methods)} BY <1>called
  <2> DEFINE own == IF t = "grpclib" THEN LastNamed(s, pyname) ELSE m
  <2>2. own = m BY <1>9
  <2>3. Mapping(s, t)[route(s, m)] =
          [pyname |-> pyname, cardinality |-> BaseCardinality(m),
           works |-> BaseCardinality(own) = BaseCardinality(m)]
    BY <1>10, <2>1 DEF Mapping
  <2> QED BY <2>2, <2>3
<1>12. namespace[StubName(s, k)] = Def(k, s) BY ClassesBound
<1>13. Outcome(Def(k, s), pyname) = Dispatched(route(s, m), StubCardinality(m))
  <2>1. k \in {"sync"} \cup Transports BY DEF Stubs
  <2>2. pyname \in PyNames(s) BY <1>called DEF PyNames
  <2>3. k # "sync" => pyname \notin Attributes[k] BY <1>called DEF Reachable
  <2>4. Def(k, s).kind = k /\ Def(k, s).of = s BY DEF Def
  <2> HIDE DEF pyname
  <2> QED BY <1>9, <2>1, <2>2, <2>3, <2>4 DEF Outcome
<1>14. Dispatched(route(s, m), StubCardinality(m)) =
         IF pyname \in server.written THEN Def("answered", <<route(s, m), pyname>>)
         ELSE Def("unimplemented", <<>>)
  <2>1. server.mapping[route(s, m)] =
          [pyname |-> pyname, cardinality |-> BaseCardinality(m), works |-> TRUE]
    BY <1>5, <1>7, <1>11
  <2>2. StubCardinality(m) = BaseCardinality(m) BY <1>4, SameCardinality
  <2> HIDE DEF pyname
  <2> QED BY <1>called, <2>1, <2>2 DEF Dispatched
<1>15. call.outcome = Outcome(Def(k, s), pyname) BY <1>called, <1>12
<1> QED BY <1>called, <1>13, <1>14, <1>15

\* RoutesMeet, for all files, options and attributes of stubs: a method that its stub
\* reaches is answered by the method of the server that the .proto file declares, with its
\* kind of streaming, whatever service with that route the server has
\* (service_stub_*.j2, service_base_*.j2).
THEOREM GeneratedRoutesMeet == Spec => []RoutesMeet
<1>1. GenerationInv => RoutesMeet BY RoutesFollow
<1> QED BY <1>1, GenerationInvHolds, PTL
=============================================================================
