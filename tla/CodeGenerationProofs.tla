------------------------ MODULE CodeGenerationProofs ------------------------
(***************************************************************************)
(* NeverFails, ImportsWritten and ReferencesDenote of CodeGeneration, for  *)
(* every set of packages, types and settings and every size of a request:  *)
(* the passes of generate_code have read each type into exactly one place  *)
(* before the first one is used; what is imported is a package, or lies    *)
(* above one, that generate_code writes in the end; and if names are apart *)
(* (NamesApart), what is written for a type denotes it in the module.  The *)
(* last needs that the aliases of importing.py can be told apart, which is *)
(* a fact about words joined with underscores: the middle of this module.  *)
(***************************************************************************)
EXTENDS CodeGeneration, TLAPS, SequenceTheorems, FiniteSetTheorems

\* The types of package p in the request.
Declared(p) == {o \in Objects : [package |-> p, object |-> o] \in request.types}

RequestOK ==
  /\ request.package \in Packages /\ request.types \subseteq Definitions
  /\ request.fields \subseteq request.types /\ request.methods \subseteq request.types
  /\ Accepted(request)

\* The first pass has put every file that it has visited under its package, and a
\* package under no other.
GatherInv ==
  /\ step = "gather" => todo \subseteq Files
  /\ \A f \in Files : ~(step = "gather" /\ f \in todo) =>
       f.package \in DOMAIN input_files /\ f \in input_files[f.package]
  /\ \A p \in DOMAIN input_files : input_files[p] \subseteq {f \in Files : f.package = p}

\* The second one has read the types of every package that it has visited.
ReadInv ==
  step # "gather" =>
    /\ messages = [p \in DOMAIN input_files |-> messages[p]]
    /\ \A p \in DOMAIN messages : ~(step = "read" /\ p \in todo) =>
         messages[p] = UNION {f.objects : f \in input_files[p]}

IInv == RequestOK /\ GatherInv /\ ReadInv /\ NeverFails

\* A name splits into the package and the type it was put together from, and whatever it
\* splits into is put together to the name again.
LEMMA SplitsOfName ==
  ASSUME NEW d \in Definitions
  PROVE  /\ d \in Splits(FullName(d))
         /\ \A x \in Splits(FullName(d)) : FullName(x) = FullName(d)
<1> DEFINE p == d.package
           o == d.object
           n == p \o o
<1>1. p \in Seq(Words) /\ o \in Seq(Words) /\ o # <<>>
  BY NamesAssumption DEF Definitions
<1>2. Len(p) \in Nat /\ Len(o) \in Nat /\ Len(o) > 0
  BY <1>1, LenProperties, EmptySeq
<1>3. n \in Seq(Words) /\ Len(n) = Len(p) + Len(o)
  BY <1>1, ConcatProperties
<1> HIDE DEF n, p, o
<1>4. SubSeq(n, 1, Len(p)) = p
  <2>1. CASE p = <<>> BY <2>1, SubSeqEmpty
  <2>2. CASE p # <<>>
    <3>1. 1 \in 1 .. Len(p) /\ Len(p) \in 1 .. Len(p) BY <1>1, <1>2, <2>2, EmptySeq
    <3>2. SubSeq(n, 1, Len(p)) = SubSeq(p, 1, Len(p)) BY <1>1, <3>1, SubSeqOfConcat1 DEF n
    <3> QED BY <1>1, <3>2, SubSeqFull
  <2> QED BY <2>1, <2>2
<1>5. SubSeq(n, Len(p) + 1, Len(n)) = o
  <2>1. /\ Len(p) + 1 \in Len(p) + 1 .. Len(p) + Len(o)
        /\ Len(n) \in Len(p) + 1 .. Len(p) + Len(o)
    BY <1>2, <1>3
  <2>2. SubSeq(n, Len(p) + 1, Len(n)) = SubSeq(o, Len(p) + 1 - Len(p), Len(n) - Len(p))
    BY <1>1, <2>1, SubSeqOfConcat2 DEF n
  <2>3. Len(p) + 1 - Len(p) = 1 /\ Len(n) - Len(p) = Len(o) BY <1>2, <1>3
  <2>4. SubSeq(o, 1, Len(o)) = o BY <1>1, SubSeqFull
  <2> QED BY <2>2, <2>3, <2>4
<1>6. d \in Splits(n)
  <2>1. Len(p) \in 0 .. Len(n) - 1 BY <1>2, <1>3
  <2>2. d = [package |-> SubSeq(n, 1, Len(p)), object |-> SubSeq(n, Len(p) + 1, Len(n))]
    BY <1>4, <1>5 DEF Definitions, p, o
  <2> QED BY <2>1, <2>2 DEF Splits
<1>7. ASSUME NEW x \in Splits(n) PROVE FullName(x) = n
  <2>1. PICK i \in 0 .. Len(n) - 1 :
          x = [package |-> SubSeq(n, 1, i), object |-> SubSeq(n, i + 1, Len(n))]
    BY DEF Splits
  <2>2. FullName(x) = SubSeq(n, 1, i) \o SubSeq(n, i + 1, Len(n)) BY <2>1 DEF FullName
  <2>3. 1 \in 1 .. Len(n) + 1 /\ i \in 1 - 1 .. Len(n) /\ Len(n) \in i .. Len(n)
    BY <1>2, <1>3
  <2>4. SubSeq(n, 1, i) \o SubSeq(n, i + 1, Len(n)) = SubSeq(n, 1, Len(n))
    BY <1>3, <2>3, ConcatAdjacentSubSeq
  <2> QED BY <1>3, <2>2, <2>4, SubSeqFull
<1> QED BY <1>6, <1>7 DEF FullName, n, p, o

\* After the two passes the types that were read are those of the request.
LEMMA ReadAll ==
  ASSUME IInv, step \notin {"gather", "read"}
  PROVE  /\ \A d \in request.types : d.package \in DOMAIN messages
                                     /\ d.object \in messages[d.package]
         /\ \A p \in DOMAIN messages : messages[p] \subseteq Declared(p)
<1>1. DOMAIN messages = DOMAIN input_files BY DEF IInv, ReadInv
<1>2. \A p \in DOMAIN messages : messages[p] = UNION {f.objects : f \in input_files[p]}
  BY DEF IInv, ReadInv
<1>3. ASSUME NEW d \in request.types
      PROVE  d.package \in DOMAIN messages /\ d.object \in messages[d.package]
  <2> DEFINE f == [package |-> d.package, objects |-> {d.object}]
  <2>1. f \in Files BY DEF Files
  <2>2. f.package \in DOMAIN input_files /\ f \in input_files[f.package]
    BY <2>1 DEF IInv, GatherInv
  <2>3. f.package = d.package /\ d.object \in f.objects OBVIOUS
  <2> QED BY <1>1, <1>2, <2>2, <2>3
<1>4. ASSUME NEW p \in DOMAIN messages, NEW o \in messages[p] PROVE o \in Declared(p)
  <2>1. PICK f \in input_files[p] : o \in f.objects BY <1>2
  <2>2. f \in Files /\ f.package = p BY <1>1 DEF IInv, GatherInv
  <2>3. PICK d \in request.types : f = [package |-> d.package, objects |-> {d.object}]
    BY <2>1, <2>2 DEF Files
  <2>4. d \in Definitions /\ d.package = p /\ d.object = o
    BY <2>1, <2>2, <2>3 DEF IInv, RequestOK
  <2> QED BY <2>4 DEF Declared, Definitions
<1> QED BY <1>3, <1>4

\* A type of the request is found under its name, and nothing else is.
LEMMA FoundOnce ==
  ASSUME IInv, step \notin {"gather", "read"}, NEW d \in request.types
  PROVE  /\ parse_source_type_name(FullName(d)) = {d}
         /\ Cardinality(parse_source_type_name(FullName(d))) = 1
<1>1. d \in Definitions BY DEF IInv, RequestOK
<1>2. d \in parse_source_type_name(FullName(d))
  BY <1>1, SplitsOfName, ReadAll DEF parse_source_type_name
<1>3. ASSUME NEW x \in parse_source_type_name(FullName(d)) PROVE x = d
  <2>1. x \in Splits(FullName(d)) /\ x.object \in Declared(x.package)
    BY ReadAll DEF parse_source_type_name
  <2>2. x = [package |-> x.package, object |-> x.object] BY <2>1 DEF Splits
  <2>3. x \in request.types BY <2>1, <2>2 DEF Declared
  <2>4. FullName(x) = FullName(d) BY <1>1, <2>1, SplitsOfName
  <2> QED BY <2>3, <2>4 DEF IInv, RequestOK, Accepted
<1>4. parse_source_type_name(FullName(d)) = {d} BY <1>2, <1>3
<1> QED BY <1>4, FS_Singleton

\* So text that uses types of the request is rendered.
LEMMA UseSucceeds ==
  ASSUME IInv, step \notin {"gather", "read"}, NEW types \in SUBSET request.types,
         NEW next, Use(types, next)
  PROVE  step' = next
BY FoundOnce DEF Use

\* The initial states satisfy the invariant.
LEMMA InitIInv == Init => IInv
<1> SUFFICES ASSUME Init PROVE IInv OBVIOUS
<1>1. request \in Requests /\ step = "gather" /\ todo = Files /\ input_files = <<>>
  BY DEF Init
<1>2. RequestOK
  BY <1>1 DEF RequestOK, Requests, kSubset
<1>3. GatherInv BY <1>1 DEF GatherInv
<1>4. ReadInv /\ NeverFails BY <1>1 DEF ReadInv, NeverFails
<1> QED BY <1>2, <1>3, <1>4 DEF IInv

\* Rendering changes nothing that the passes have gathered.
LEMMA RenderInv ==
  ASSUME IInv, step \notin {"gather", "read"},
         step' \in {"stubs", "imports", "bases", "write", "done"},
         UNCHANGED <<request, input_files, messages>>
  PROVE  IInv'
<1>1. Files' = Files BY DEF Files
<1>2. RequestOK' BY DEF IInv, RequestOK, Accepted, FullName
<1>3. GatherInv' BY <1>1 DEF IInv, GatherInv
<1>4. ReadInv' /\ NeverFails' BY DEF IInv, ReadInv, NeverFails
<1> QED BY <1>2, <1>3, <1>4 DEF IInv

\* One step of the first pass.
LEMMA GatherStep ==
  ASSUME IInv, NEW f \in todo, Gather(f)
  PROVE  IInv'
<1>1. step = "gather" /\ f \in Files /\ request' = request
  BY DEF Gather, IInv, GatherInv
<1>2. Files' = Files BY <1>1 DEF Files
<1>3. input_files' = [p \in DOMAIN input_files \cup {f.package} |->
                        IF p = f.package THEN OutputTemplate(p) \cup {f} ELSE input_files[p]]
  BY DEF Gather
<1>4. ASSUME NEW g \in Files, g = f \/ g \notin todo
      PROVE  g.package \in DOMAIN input_files' /\ g \in input_files'[g.package]
  <2>1. CASE g = f BY <1>3, <2>1
  <2>2. CASE g # f
    <3>1. g.package \in DOMAIN input_files /\ g \in input_files[g.package]
      BY <1>4, <2>2 DEF IInv, GatherInv
    <3> QED BY <1>3, <3>1 DEF OutputTemplate
  <2> QED BY <2>1, <2>2
<1>5. ASSUME NEW p \in DOMAIN input_files'
      PROVE  input_files'[p] \subseteq {g \in Files : g.package = p}
  <2>1. \A q \in DOMAIN input_files : input_files[q] \subseteq {g \in Files : g.package = q}
    BY DEF IInv, GatherInv
  <2> QED BY <1>1, <1>3, <1>5, <2>1 DEF OutputTemplate
<1>6. RequestOK' BY <1>1 DEF IInv, RequestOK, Accepted, FullName
<1>7. CASE todo = {f}
  <2>1. step' = "read" /\ todo' = DOMAIN input_files' BY <1>7 DEF Gather
  <2>2. messages' = [p \in DOMAIN input_files' |-> {}] BY DEF Gather
  <2>3. GatherInv' BY <1>2, <1>4, <1>5, <1>7, <2>1 DEF GatherInv
  <2>4. ReadInv' BY <2>1, <2>2 DEF ReadInv
  <2> QED BY <1>6, <2>1, <2>3, <2>4 DEF IInv, NeverFails
<1>8. CASE todo # {f}
  <2>1. step' = "gather" /\ todo' = todo \ {f} BY <1>8 DEF Gather
  <2>2. todo' \subseteq Files' BY <1>1, <1>2, <2>1 DEF IInv, GatherInv
  <2>3. GatherInv' BY <1>2, <1>4, <1>5, <2>1, <2>2 DEF GatherInv
  <2>4. ReadInv' /\ NeverFails' BY <2>1 DEF ReadInv, NeverFails
  <2> QED BY <1>6, <2>3, <2>4 DEF IInv
<1> QED BY <1>7, <1>8

\* One step of the second pass.
LEMMA ReadStep ==
  ASSUME IInv, NEW p \in todo, read_protobuf_type(p)
  PROVE  IInv'
<1>1. /\ step = "read" /\ step' \in {"read", "types"} /\ todo' = todo \ {p}
      /\ step' = "types" => todo = {p}
      /\ messages' = [messages EXCEPT ![p] = UNION {f.objects : f \in input_files[p]}]
      /\ UNCHANGED <<request, input_files>>
  BY DEF read_protobuf_type
<1>2. Files' = Files BY <1>1 DEF Files
<1>3. RequestOK' BY <1>1 DEF IInv, RequestOK, Accepted, FullName
<1>4. GatherInv' BY <1>1, <1>2 DEF IInv, GatherInv
<1>5. ReadInv'
  <2>1. messages = [q \in DOMAIN input_files |-> messages[q]] BY <1>1 DEF IInv, ReadInv
  <2>2. messages' = [q \in DOMAIN input_files |-> messages'[q]] BY <1>1, <2>1
  <2>3. ASSUME NEW q \in DOMAIN messages', ~(step' = "read" /\ q \in todo')
        PROVE  messages'[q] = UNION {f.objects : f \in input_files'[q]}
    <3>1. CASE q = p BY <1>1, <2>1, <2>3, <3>1
    <3>2. CASE q # p
      <4>1. q \notin todo BY <1>1, <2>3, <3>2
      <4>2. messages[q] = UNION {f.objects : f \in input_files[q]}
        BY <1>1, <2>1, <2>3, <4>1 DEF IInv, ReadInv
      <4> QED BY <1>1, <2>1, <2>3, <3>2, <4>2
    <3> QED BY <3>1, <3>2
  <2> QED BY <1>1, <2>2, <2>3 DEF ReadInv
<1>6. NeverFails' BY <1>1 DEF NeverFails
<1> QED BY <1>3, <1>4, <1>5, <1>6 DEF IInv

\* Every step keeps the invariant.
LEMMA StepIInv == IInv /\ [Next]_vars => IInv'
<1> SUFFICES ASSUME IInv, [Next]_vars PROVE IInv' OBVIOUS
<1>1. CASE UNCHANGED vars
  <2>1. Files' = Files BY <1>1 DEF vars, Files
  <2>2. RequestOK' BY <1>1 DEF vars, IInv, RequestOK, Accepted, FullName
  <2>3. GatherInv' BY <1>1, <2>1 DEF vars, IInv, GatherInv
  <2>4. ReadInv' /\ NeverFails' BY <1>1 DEF vars, IInv, ReadInv, NeverFails
  <2> QED BY <2>2, <2>3, <2>4 DEF IInv
<1>2. ASSUME NEW f \in todo, Gather(f) PROVE IInv' BY <1>2, GatherStep
<1>3. ASSUME NEW p \in todo, read_protobuf_type(p) PROVE IInv' BY <1>3, ReadStep
<1>4. request.fields \in SUBSET request.types /\ request.methods \in SUBSET request.types
  BY DEF IInv, RequestOK
<1>5. CASE RenderTypes
  <2>1. step' = "stubs" BY <1>4, <1>5, UseSucceeds DEF RenderTypes
  <2> QED BY <1>5, <2>1, RenderInv DEF RenderTypes
<1>6. CASE RenderStubs
  <2> DEFINE types == IF request.settings[1] THEN request.methods ELSE {}
  <2>1. types \in SUBSET request.types BY <1>4
  <2>2. Use(types, "imports") /\ step = "stubs" BY <1>6 DEF RenderStubs
  <2>3. step' = "imports" BY <2>1, <2>2, UseSucceeds
  <2> QED BY <1>6, <2>3, RenderInv DEF RenderStubs
<1>7. CASE RenderImports BY <1>7, RenderInv DEF RenderImports
<1>8. CASE RenderBases
  <2> DEFINE types == IF request.settings[2] THEN request.methods ELSE {}
  <2>1. types \in SUBSET request.types BY <1>4
  <2>2. Use(types, "write") /\ step = "bases" BY <1>8 DEF RenderBases
  <2>3. step' = "write" BY <2>1, <2>2, UseSucceeds
  <2> QED BY <1>8, <2>3, RenderInv DEF RenderBases
<1>9. CASE Write BY <1>9, RenderInv DEF Write
<1> QED BY <1>1, <1>2, <1>3, <1>5, <1>6, <1>7, <1>8, <1>9 DEF Next

\* However many packages, files and types there are and however protoc orders them, no
\* type is looked up before all are read, and none is found under two packages.
THEOREM GenerationNeverFails == Spec => []NeverFails
<1>1. IInv => NeverFails BY DEF IInv
<1> QED BY <1>1, InitIInv, StepIInv, PTL DEF Spec

-----------------------------------------------------------------------------
\* Every set of naturals that is not empty has a least one.
LEMMA LeastNat ==
  ASSUME NEW T \in SUBSET Nat, T # {}
  PROVE  \E x \in T : \A y \in T : x <= y
<1> DEFINE R == {p \in Nat \X Nat : p[1] < p[2]}
<1>1. IsWellFoundedOn(R, Nat) BY NatLessThanWellFounded DEF OpToRel
<1> HIDE DEF R
<1>2. PICK x \in T : \A y \in T : ~ (<<y, x>> \in R) BY <1>1, WFMin
<1>3. ASSUME NEW y \in T PROVE x <= y
  <2>1. x \in Nat /\ y \in Nat OBVIOUS
  <2>2. <<y, x>> \notin R BY <1>2
  <2>3. <<y, x>> \in Nat \X Nat BY <2>1
  <2>4. ~ (<<y, x>>[1] < <<y, x>>[2]) BY <2>2, <2>3 DEF R
  <2> QED BY <2>1, <2>4
<1> QED BY <1>3

\* The beginnings of a beginning of a sequence are beginnings of the sequence.
LEMMA PrefixOfPrefix ==
  ASSUME NEW s \in Seq(Words), NEW k \in 0 .. Len(s)
  PROVE  /\ SubSeq(s, 1, k) \in Prefixes(s)
         /\ Prefixes(SubSeq(s, 1, k)) \subseteq Prefixes(s)
<1>1. Len(s) \in Nat BY LenProperties
<1>2. SubSeq(s, 1, k) \in Prefixes(s) BY DEF Prefixes
<1>3. Len(SubSeq(s, 1, k)) = k
  <2>1. \A i \in 1 .. k : s[i] \in Words BY <1>1, ElementOfSeq
  <2> QED BY <1>1, <2>1, SubSeqProperties
<1>4. ASSUME NEW l \in 0 .. k PROVE SubSeq(SubSeq(s, 1, k), 1, l) \in Prefixes(s)
  <2>1. CASE l = 0
    <3>1. SubSeq(SubSeq(s, 1, k), 1, l) = <<>> /\ SubSeq(s, 1, 0) = <<>>
      BY <2>1, SubSeqEmpty
    <3> QED BY <1>1, <3>1 DEF Prefixes
  <2>2. CASE l # 0
    <3>1. /\ 1 \in 1 .. Len(s) /\ k \in 1 .. Len(s)
          /\ 1 \in 1 .. k - 1 + 1 /\ l \in 1 .. k - 1 + 1
      BY <1>1, <2>2
    <3>2. SubSeq(SubSeq(s, 1, k), 1, l) = SubSeq(s, 1 + 1 - 1, 1 + l - 1)
      BY <3>1, SubSeqOfSubSeq
    <3>3. 1 + 1 - 1 = 1 /\ 1 + l - 1 = l /\ l \in 0 .. Len(s) BY <1>1
    <3> QED BY <3>2, <3>3 DEF Prefixes
  <2> QED BY <2>1, <2>2
<1>5. Prefixes(SubSeq(s, 1, k)) \subseteq Prefixes(s) BY <1>3, <1>4 DEF Prefixes
<1> QED BY <1>2, <1>5

\* Below a beginning that two packages share, a path leads to where it leads in the other.
LEMMA SharedPath ==
  ASSUME NEW s \in Seq(Words), NEW t \in Seq(Words), NEW k \in 0 .. Len(s),
         k <= Len(t), k < Len(t), SubSeq(s, 1, k) = SubSeq(t, 1, k)
  PROVE  SubSeq(s, 1, k) \o Front(SubSeq(t, k + 1, Len(t))) \in Prefixes(t)
<1>1. Len(s) \in Nat /\ Len(t) \in Nat BY LenProperties
<1> DEFINE below == SubSeq(t, k + 1, Len(t))
<1>2. Len(below) = Len(t) - k
  <2>1. \A i \in k + 1 .. Len(t) : t[i] \in Words BY <1>1, ElementOfSeq
  <2> QED BY <1>1, <2>1, SubSeqProperties
<1>3. Front(below) = SubSeq(t, k + 1, Len(t) - 1)
  <2>1. CASE Len(t) - k = 1
    <3>1. SubSeq(below, 1, 0) = <<>> /\ SubSeq(t, k + 1, Len(t) - 1) = <<>>
      BY <1>1, <2>1, SubSeqEmpty
    <3> QED BY <1>1, <1>2, <2>1, <3>1 DEF Front
  <2>2. CASE Len(t) - k # 1
    <3>1. /\ k + 1 \in 1 .. Len(t) /\ Len(t) \in 1 .. Len(t)
          /\ 1 \in 1 .. Len(t) - (k + 1) + 1 /\ Len(t) - k - 1 \in 1 .. Len(t) - (k + 1) + 1
      BY <1>1, <2>2
    <3>2. SubSeq(below, 1, Len(t) - k - 1)
            = SubSeq(t, (k + 1) + 1 - 1, (k + 1) + (Len(t) - k - 1) - 1)
      BY <3>1, SubSeqOfSubSeq
    <3>3. (k + 1) + 1 - 1 = k + 1 /\ (k + 1) + (Len(t) - k - 1) - 1 = Len(t) - 1 BY <1>1
    <3> QED BY <1>2, <3>2, <3>3 DEF Front
  <2> QED BY <2>1, <2>2
<1>4. SubSeq(t, 1, k) \o SubSeq(t, k + 1, Len(t) - 1) = SubSeq(t, 1, Len(t) - 1)
  <2>1. 1 \in 1 .. Len(t) + 1 /\ k \in 1 - 1 .. Len(t) /\ Len(t) - 1 \in k .. Len(t)
    BY <1>1
  <2> QED BY <2>1, ConcatAdjacentSubSeq
<1>5. Len(t) - 1 \in 0 .. Len(t) BY <1>1
<1> QED BY <1>3, <1>4, <1>5, PrefixOfPrefix

\* Two packages have a longest beginning in common, and differ in what comes next.
LEMMA SharedAncestry ==
  ASSUME NEW s \in Seq(Words), NEW t \in Seq(Words)
  PROVE  \E k \in 0 .. Len(s) :
           /\ k <= Len(t) /\ LongestCommonPrefix({s, t}) = SubSeq(s, 1, k)
           /\ Len(LongestCommonPrefix({s, t})) = k
           /\ SubSeq(s, 1, k) = SubSeq(t, 1, k)
           /\ k < Len(s) /\ k < Len(t) => s[k + 1] # t[k + 1]
<1> DEFINE C == CommonPrefixes({s, t})
           missing(p) == Len(s) - Len(p)
           M == {missing(p) : p \in C}
<1>1. Len(s) \in Nat /\ Len(t) \in Nat BY LenProperties
<1>2. ASSUME NEW p \in C
      PROVE  /\ Len(p) \in 0 .. Len(s) /\ Len(p) <= Len(t)
             /\ p = SubSeq(s, 1, Len(p)) /\ p = SubSeq(t, 1, Len(p))
  <2>1. IsPrefix(p, s) /\ IsPrefix(p, t) BY DEF CommonPrefixes
  <2>2. PICK r \in {s, t} : p \in Prefixes(r) BY DEF CommonPrefixes
  <2>3. r \in Seq(Words) OBVIOUS
  <2>4. PICK l \in 0 .. Len(r) : p = SubSeq(r, 1, l) BY <2>2 DEF Prefixes
  <2>5. \A i \in 1 .. l : r[i] \in Words BY <1>1, <2>3, ElementOfSeq
  <2>6. p \in Seq(Words) BY <1>1, <2>4, <2>5, SubSeqProperties
  <2>7. SubSeq(p, 1, Len(p)) = p /\ Len(p) \in Nat BY <2>6, SubSeqFull, LenProperties
  <2> QED BY <1>1, <2>1, <2>7 DEF IsPrefix
<1>3. <<>> \in C
  <2>1. SubSeq(s, 1, 0) = <<>> /\ SubSeq(t, 1, 0) = <<>> BY SubSeqEmpty
  <2>2. Len(<<>>) = 0 OBVIOUS
  <2>3. \A r \in {s, t} : IsPrefix(<<>>, r) BY <1>1, <2>1, <2>2, SubSeqEmpty DEF IsPrefix
  <2>4. <<>> \in Prefixes(s) BY <1>1, <2>1 DEF Prefixes
  <2> QED BY <2>3, <2>4 DEF CommonPrefixes
<1> HIDE DEF C
<1>4. M \in SUBSET Nat BY <1>1, <1>2
<1>5. PICK x \in M : \A y \in M : x <= y BY <1>3, <1>4, LeastNat
<1>6. PICK p \in C : \A q \in C : Len(q) <= Len(p)
  <2>1. PICK p \in C : x = missing(p) OBVIOUS
  <2>2. ASSUME NEW q \in C PROVE Len(q) <= Len(p)
    <3>1. missing(p) <= missing(q) BY <1>5, <2>1
    <3> QED BY <1>1, <1>2, <3>1
  <2> QED BY <2>2
<1> DEFINE l == LongestCommonPrefix({s, t})
<1>7. l \in C /\ \A q \in C : Len(q) <= Len(l) BY <1>6 DEF LongestCommonPrefix, C
<1> HIDE DEF l
<1>8. ASSUME NEW k \in 0 .. Len(s), k = Len(l), k < Len(s), k < Len(t),
             SubSeq(s, 1, k) = SubSeq(t, 1, k), s[k + 1] = t[k + 1]
      PROVE  FALSE
  <2>1. /\ 1 \in 1 .. Len(s) /\ k + 1 \in 1 .. Len(s)
        /\ 1 \in 1 .. Len(t) /\ k + 1 \in 1 .. Len(t) /\ (k + 1) - 1 = k
    BY <1>1, <1>8
  <2> DEFINE q == SubSeq(s, 1, k + 1)
  <2>2. q = SubSeq(s, 1, k) \o <<s[k + 1]>> BY <2>1, SubSeqRecursiveSecond
  <2>3. SubSeq(t, 1, k + 1) = SubSeq(t, 1, k) \o <<t[k + 1]>> BY <2>1, SubSeqRecursiveSecond
  <2>4. q = SubSeq(t, 1, k + 1) BY <1>8, <2>2, <2>3
  <2>5. q \in Seq(Words) /\ Len(q) = k + 1
    <3>1. \A i \in 1 .. k + 1 : s[i] \in Words BY <1>1, <2>1, ElementOfSeq
    <3> QED BY <1>1, <3>1, SubSeqProperties
  <2>6. SubSeq(q, 1, Len(q)) = q BY <2>5, SubSeqFull
  <2>7. \A r \in {s, t} : IsPrefix(q, r)
    BY <2>1, <2>4, <2>5, <2>6 DEF IsPrefix
  <2>8. q \in Prefixes(s)
    <3>1. k + 1 \in 0 .. Len(s) BY <1>1, <2>1
    <3> QED BY <3>1 DEF Prefixes
  <2> HIDE DEF q
  <2>9. q \in C BY <2>7, <2>8 DEF C, CommonPrefixes
  <2> QED BY <1>7, <1>8, <2>5, <2>9
<1>9. /\ Len(l) \in 0 .. Len(s) /\ Len(l) <= Len(t)
      /\ l = SubSeq(s, 1, Len(l)) /\ l = SubSeq(t, 1, Len(l))
  BY <1>2, <1>7
<1> QED BY <1>8, <1>9 DEF l

\* An import of a reference starts in the current package or above it, and the packages it
\* goes through lead to the current package or to that of the type.
LEMMA StartsInside ==
  ASSUME NEW current \in Seq(Words), NEW source \in Seq(Words), NEW type,
         NEW i \in get_symbol_reference(current, source, type).import
  PROVE  /\ i.up <= Len(current) + 1
         /\ SubSeq(current, 1, Len(current) - (i.up - 1)) \o i.path
              \in Prefixes(current) \cup Prefixes(source)
<1> DEFINE from == SubSeq(current, 1, Len(current) - (i.up - 1)) \o i.path
<1>1. Len(current) \in Nat /\ Len(source) \in Nat BY LenProperties
<1>2. \A k \in 0 .. Len(current) : SubSeq(current, 1, k) \o <<>> = SubSeq(current, 1, k)
  <2> TAKE k \in 0 .. Len(current)
  <2>1. \A j \in 1 .. k : current[j] \in Words BY <1>1, ElementOfSeq
  <2>2. SubSeq(current, 1, k) \in Seq(Words) BY <1>1, <2>1, SubSeqProperties
  <2> QED BY <2>2, ConcatEmptySeq
<1>3. source # current BY DEF get_symbol_reference, reference_sibling
<1>4. CASE IsPrefix(current, source)
  <2>1. i \in reference_descendent(current, source, type).import
    BY <1>3, <1>4 DEF get_symbol_reference
  <2>2. i.up = 1 /\ i.path = Front(SubSeq(source, Len(current) + 1, Len(source)))
    <3> DEFINE below == SubSeq(source, Len(current) + 1, Len(source))
    <3>1. \E alias : i = [up |-> 1, path |-> Front(below), name |-> Last(below),
                          alias |-> alias]
      BY <2>1, Zenon DEF reference_descendent
    <3> QED BY <3>1
  <2>3. /\ Len(current) <= Len(source)
        /\ SubSeq(current, 1, Len(current)) = SubSeq(source, 1, Len(current))
    BY <1>4 DEF IsPrefix
  <2>4. Len(current) < Len(source)
    <3>1. SubSeq(current, 1, Len(current)) = current /\ SubSeq(source, 1, Len(source)) = source
      BY SubSeqFull
    <3> QED BY <1>1, <1>3, <2>3, <3>1
  <2>5. SubSeq(current, 1, Len(current)) \o Front(SubSeq(source, Len(current) + 1, Len(source)))
          \in Prefixes(source)
    BY <1>1, <2>3, <2>4, SharedPath
  <2>6. Len(current) - (i.up - 1) = Len(current) /\ i.up <= Len(current) + 1 BY <1>1, <2>2
  <2> QED BY <2>2, <2>5, <2>6
<1>5. CASE ~IsPrefix(current, source) /\ IsPrefix(source, current)
  <2>1. i \in reference_ancestor(current, source, type).import
    BY <1>3, <1>5 DEF get_symbol_reference
  <2>2. Len(source) <= Len(current) BY <1>5 DEF IsPrefix
  <2>3. CASE source = <<>>
    <3>1. i.up = Len(current) - Len(source) + 1 /\ i.path = <<>>
      BY <2>1, <2>3 DEF reference_ancestor
    <3>2. Len(source) = 0 BY <2>3
    <3>3. i.up <= Len(current) + 1 /\ Len(current) - (i.up - 1) = 0 BY <1>1, <3>1, <3>2
    <3>4. from = SubSeq(current, 1, 0) BY <1>1, <1>2, <3>1, <3>3
    <3>5. 0 \in 0 .. Len(current) BY <1>1
    <3> QED BY <3>3, <3>4, <3>5, PrefixOfPrefix
  <2>4. CASE source # <<>>
    <3>1. i.up = Len(current) - Len(source) + 2 /\ i.path = <<>>
      BY <2>1, <2>4 DEF reference_ancestor
    <3>2. Len(source) > 0 BY <1>1, <2>4, EmptySeq
    <3>3. i.up <= Len(current) + 1 /\ Len(current) - (i.up - 1) = Len(source) - 1
      BY <1>1, <2>2, <3>1, <3>2
    <3>4. Len(source) - 1 \in 0 .. Len(current) BY <1>1, <2>2, <3>2
    <3>5. from = SubSeq(current, 1, Len(source) - 1) BY <1>2, <3>1, <3>3, <3>4
    <3> QED BY <3>3, <3>4, <3>5, PrefixOfPrefix
  <2> QED BY <2>3, <2>4
<1>6. CASE ~IsPrefix(current, source) /\ ~IsPrefix(source, current)
  <2> DEFINE shared == LongestCommonPrefix({current, source})
  <2>1. i \in reference_cousin(current, source, type).import
    BY <1>3, <1>6 DEF get_symbol_reference
  <2>2. /\ i.up = Len(current) - Len(shared) + 1
        /\ i.path = Front(SubSeq(source, Len(shared) + 1, Len(source)))
    <3> DEFINE below == SubSeq(source, Len(shared) + 1, Len(source))
    <3>1. \E alias : i = [up |-> Len(current) - Len(shared) + 1, path |-> Front(below),
                          name |-> Last(below), alias |-> alias]
      BY <2>1, Zenon DEF reference_cousin
    <3> QED BY <3>1
  <2>3. PICK k \in 0 .. Len(current) :
          /\ k <= Len(source) /\ Len(shared) = k
          /\ SubSeq(current, 1, k) = SubSeq(source, 1, k)
    BY SharedAncestry
  <2>4. k < Len(source)
    <3>1. SUFFICES ASSUME k = Len(source) PROVE FALSE BY <1>1, <2>3
    <3>2. SubSeq(source, 1, Len(source)) = SubSeq(current, 1, Len(source)) BY <2>3, <3>1
    <3>3. Len(source) <= Len(current) BY <1>1, <3>1
    <3> QED BY <1>6, <3>2, <3>3 DEF IsPrefix
  <2>5. SubSeq(current, 1, k) \o Front(SubSeq(source, k + 1, Len(source))) \in Prefixes(source)
    BY <2>3, <2>4, SharedPath
  <2> HIDE DEF shared
  <2>6. Len(current) - (i.up - 1) = k /\ i.up <= Len(current) + 1 BY <1>1, <2>2, <2>3
  <2> QED BY <2>2, <2>3, <2>5, <2>6
<1> QED BY <1>4, <1>5, <1>6

-----------------------------------------------------------------------------
\* Every import is that of a reference to a type of the request, and the modules written
\* are the packages with files and those above them.
ImportInv ==
  /\ emitted \subseteq imports_end
  /\ \A i \in imports_end : \E d \in request.types :
       i \in get_symbol_reference(request.package, d.package,
                                 pythonize_class_name(d.object)).import
  /\ step = "done" => response = output_paths \cup init_files

\* The package that is followed and those of the types of the request have files.
LEMMA PackagesRead ==
  ASSUME IInv, step # "gather"
  PROVE  /\ request.package \in output_paths
         /\ \A d \in request.types : d.package \in output_paths
<1>1. \A f \in Files : f.package \in DOMAIN input_files BY DEF IInv, GatherInv
<1>2. [package |-> request.package, objects |-> {}] \in Files BY DEF Files
<1>3. \A d \in request.types : [package |-> d.package, objects |-> {d.object}] \in Files
  BY DEF Files
<1>4. request.package \in output_paths BY <1>1, <1>2 DEF output_paths
<1>5. \A d \in request.types : d.package \in output_paths BY <1>1, <1>3 DEF output_paths
<1> QED BY <1>4, <1>5

\* Text that uses types of the request adds the imports of references to them.
LEMMA UseImports ==
  ASSUME IInv, ImportInv, step \notin {"gather", "read"}, NEW types \in SUBSET request.types,
         NEW next, Use(types, next), request' = request, emitted' = emitted,
         next # "done"
  PROVE  ImportInv'
<1>1. \A d \in types : Cardinality(parse_source_type_name(FullName(d))) = 1
  BY FoundOnce
<1>2. /\ step' = next
      /\ imports_end' = imports_end \cup
           UNION {get_type_reference(FullName(d)).import : d \in types}
  BY <1>1 DEF Use
<1>3. ASSUME NEW d \in types
      PROVE  get_type_reference(FullName(d)) =
               get_symbol_reference(request.package, d.package, pythonize_class_name(d.object))
  <2>1. parse_source_type_name(FullName(d)) = {d} BY FoundOnce
  <2>2. (CHOOSE x \in parse_source_type_name(FullName(d)) : TRUE) = d BY <2>1
  <2> QED BY <2>2 DEF get_type_reference
<1>4. ASSUME NEW i \in imports_end'
      PROVE  \E d \in request.types :
               i \in get_symbol_reference(request.package, d.package,
                                         pythonize_class_name(d.object)).import
  <2>1. CASE i \in imports_end BY <2>1 DEF ImportInv
  <2>2. CASE i \notin imports_end BY <1>2, <1>3, <2>2
  <2> QED BY <2>1, <2>2
<1> QED BY <1>2, <1>4 DEF ImportInv

\* Every step keeps what is known of the imports.
LEMMA StepImportInv == IInv /\ ImportInv /\ [Next]_vars => ImportInv'
<1> SUFFICES ASSUME IInv, ImportInv, [Next]_vars PROVE ImportInv' OBVIOUS
<1>1. CASE UNCHANGED vars BY <1>1 DEF vars, ImportInv, output_paths, init_files
<1>2. ASSUME NEW f \in todo, Gather(f) PROVE ImportInv' BY <1>2 DEF Gather, ImportInv
<1>3. ASSUME NEW p \in todo, read_protobuf_type(p) PROVE ImportInv'
  BY <1>3 DEF read_protobuf_type, ImportInv
<1>4. request.fields \in SUBSET request.types /\ request.methods \in SUBSET request.types
  BY DEF IInv, RequestOK
<1>5. CASE RenderTypes BY <1>4, <1>5, UseImports DEF RenderTypes
<1>6. CASE RenderStubs
  <2> DEFINE types == IF request.settings[1] THEN request.methods ELSE {}
  <2>1. types \in SUBSET request.types BY <1>4
  <2> QED BY <1>6, <2>1, UseImports DEF RenderStubs
<1>7. CASE RenderImports BY <1>7 DEF RenderImports, ImportInv
<1>8. CASE RenderBases
  <2> DEFINE types == IF request.settings[2] THEN request.methods ELSE {}
  <2>1. types \in SUBSET request.types BY <1>4
  <2> QED BY <1>8, <2>1, UseImports DEF RenderBases
<1>9. CASE Write BY <1>9 DEF Write, ImportInv, output_paths, init_files
<1> QED BY <1>1, <1>2, <1>3, <1>5, <1>6, <1>7, <1>8, <1>9 DEF Next

\* Once the plugin has written its files, every import starts in packages with a module.
LEMMA ImportsFound == IInv /\ ImportInv => ImportsWritten
<1> SUFFICES ASSUME IInv, ImportInv, step = "done", NEW i \in emitted
             PROVE  i.up <= Len(request.package) + 1 /\ Prefixes(From(i)) \subseteq response
  BY DEF ImportsWritten
<1>1. PICK d \in request.types :
        i \in get_symbol_reference(request.package, d.package,
                                  pythonize_class_name(d.object)).import
  BY DEF ImportInv
<1>2. request.package \in Seq(Words) /\ d.package \in Seq(Words)
  BY NamesAssumption DEF IInv, RequestOK, Definitions
<1>3. i.up <= Len(request.package) + 1
      /\ From(i) \in Prefixes(request.package) \cup Prefixes(d.package)
  BY <1>1, <1>2, StartsInside DEF From
<1>4. PICK p \in {request.package, d.package} : From(i) \in Prefixes(p) BY <1>3
<1>5. p \in output_paths /\ p \in Seq(Words) BY <1>2, <1>4, PackagesRead
<1>6. PICK k \in 0 .. Len(p) : From(i) = SubSeq(p, 1, k) BY <1>4 DEF Prefixes
<1>7. Prefixes(From(i)) \subseteq Prefixes(p) BY <1>5, <1>6, PrefixOfPrefix
<1>8. Prefixes(p) \subseteq response BY <1>5 DEF ImportInv, init_files
<1> QED BY <1>3, <1>7, <1>8

\* Whatever the packages of a request are and whichever of them the module of a package
\* refers to, below, above or beside it, the plugin writes every package that Python
\* passes on the way of an import, and no import leaves the output directory.
THEOREM GeneratedImportsWritten == Spec => []ImportsWritten
<1>1. Init => ImportInv BY DEF Init, ImportInv
<1> QED BY <1>1, InitIInv, StepIInv, StepImportInv, ImportsFound, PTL DEF Spec


-----------------------------------------------------------------------------
(************************** sequences of sequences *************************)

\* A set that has zero and with each number the next has every number.
LEMMA Induction ==
  ASSUME NEW T, 0 \in T, \A n \in Nat : n \in T => n + 1 \in T
  PROVE  \A n \in Nat : n \in T
<1> DEFINE F == {n \in Nat : n \notin T}
<1> SUFFICES ASSUME F # {} PROVE FALSE OBVIOUS
<1>1. PICK x \in F : \A y \in F : x <= y
  <2>1. F \in SUBSET Nat OBVIOUS
  <2> HIDE DEF F
  <2> QED BY <2>1, LeastNat
<1>2. x # 0 /\ x - 1 \in Nat OBVIOUS
<1>3. x - 1 \notin F BY <1>1, <1>2
<1>4. (x - 1) + 1 \in T BY <1>2, <1>3
<1> QED BY <1>4

\* A set that has with two sequences their join.
Joins(C) == \A a, b \in C : a \o b \in C

\* The steps of joining sequences, the first j of them in step j.
Joining(C, seqs) ==
  {g \in Seq(C) : /\ Len(g) = Len(seqs) /\ g[1] = seqs[1]
                  /\ \A j \in 1 .. Len(seqs) : j > 1 => g[j] = g[j - 1] \o seqs[j]}

\* FlattenSeq ends with what these steps end with.
LEMMA FlattenSteps ==
  ASSUME NEW C, Joins(C), NEW seqs \in Seq(C) \ {<<>>}
  PROVE  \E g \in Joining(C, seqs) : FlattenSeq(seqs) = g[Len(seqs)]
<1>0. PICK n \in Nat \ {0} : n = Len(seqs)
  <2>1. Len(seqs) \in Nat \ {0} BY EmptySeq
  <2> QED BY <2>1
<1>1a. seqs \in [1 .. n -> C] BY <1>0, LenProperties
<1> DEFINE Upto(k) == {g \in [1 .. k -> C] :
                         /\ g[1] = seqs[1]
                         /\ \A j \in 1 .. k : j > 1 => g[j] = g[j - 1] \o seqs[j]}
           T == {k \in Nat : k + 1 <= n => Upto(k + 1) # {}}
<1>1. 0 \in T
  <2>1. 1 \in 1 .. n /\ seqs[1] \in C BY <1>1a
  <2>2. [j \in 1 .. 1 |-> seqs[1]] \in Upto(1) BY <2>1
  <2> HIDE DEF Upto
  <2> QED BY <2>2
<1>2. ASSUME NEW k \in Nat, k \in T PROVE k + 1 \in T
  <2> SUFFICES ASSUME (k + 1) + 1 <= n PROVE Upto((k + 1) + 1) # {}
    <3> HIDE DEF Upto
    <3> QED OBVIOUS
  <2> DEFINE m == k + 1
  <2>1. m \in Nat /\ m >= 1 /\ m <= n /\ m + 1 <= n OBVIOUS
  <2>2. PICK g : g \in Upto(m)
    <3>1. Upto(m) # {} BY <1>2, <2>1
    <3> HIDE DEF Upto
    <3> QED BY <3>1
  <2> HIDE DEF m
  <2> DEFINE h == [j \in 1 .. m + 1 |-> IF j <= m THEN g[j] ELSE g[m] \o seqs[m + 1]]
  <2>3. m \in 1 .. m /\ m + 1 \in 1 .. n BY <2>1
  <2>4. g[m] \o seqs[m + 1] \in C
    <3>1. g[m] \in C /\ seqs[m + 1] \in C BY <1>1a, <2>2, <2>3
    <3> QED BY <3>1 DEF Joins
  <2>5. h \in [1 .. m + 1 -> C]
    <3> SUFFICES ASSUME NEW j \in 1 .. m + 1 PROVE h[j] \in C OBVIOUS
    <3>1. CASE j <= m
      <4>1. j \in 1 .. m BY <2>1, <3>1
      <4> QED BY <2>2, <3>1, <4>1
    <3>2. CASE ~ (j <= m) BY <2>4, <3>2
    <3> QED BY <3>1, <3>2
  <2>6. h[1] = seqs[1] BY <2>1, <2>2
  <2>7. ASSUME NEW j \in 1 .. m + 1, j > 1 PROVE h[j] = h[j - 1] \o seqs[j]
    <3>1. j - 1 \in 1 .. m + 1 /\ j - 1 <= m BY <2>1, <2>7
    <3>2. CASE j <= m
      <4>1. j \in 1 .. m BY <2>1, <3>2
      <4> QED BY <2>2, <2>7, <3>1, <3>2, <4>1
    <3>3. CASE ~ (j <= m)
      <4>1. j = m + 1 /\ j - 1 = m BY <2>1, <3>3
      <4> QED BY <3>1, <3>3, <4>1
    <3> QED BY <3>2, <3>3
  <2>8. h \in Upto(m + 1) BY <2>5, <2>6, <2>7
  <2> HIDE DEF Upto
  <2> QED BY <2>8 DEF m
<1>3. PICK k \in Nat : n = k + 1
  <2>1. n - 1 \in Nat /\ n = (n - 1) + 1 OBVIOUS
  <2> QED BY <2>1
<1>4. k \in T
  <2> HIDE DEF T
  <2> QED BY <1>1, <1>2, Induction
<1>5. PICK g : g \in Upto(n)
  <2>1. Upto(n) # {}
    <3> HIDE DEF Upto
    <3> QED BY <1>3, <1>4
  <2> HIDE DEF Upto
  <2> QED BY <2>1
<1> DEFINE Join(f) == f = [i \in 1 .. Len(seqs) |->
                             IF i = 1 THEN seqs[i] ELSE f[i - 1] \o seqs[i]]
           join == CHOOSE f : Join(f)
<1>6. Len(seqs) = n BY <1>0
<1>7. Join(g)
  <2>1. g = [i \in 1 .. n |-> g[i]] BY <1>5
  <2>2. g[1] = seqs[1] /\ \A i \in 1 .. n : i > 1 => g[i] = g[i - 1] \o seqs[i]
    BY <1>5
  <2>3. \A i \in 1 .. n : i # 1 => i > 1 OBVIOUS
  <2>4. \A i \in 1 .. n : g[i] = IF i = 1 THEN seqs[i] ELSE g[i - 1] \o seqs[i]
    BY <2>2, <2>3
  <2> QED BY <1>6, <2>1, <2>4
<1>8. Join(join)
  <2> HIDE DEF Join
  <2> QED BY <1>7
<1>9. FlattenSeq(seqs) = join[n] BY <1>6 DEF FlattenSeq
<1>10. join = [i \in 1 .. n |-> IF i = 1 THEN seqs[i] ELSE join[i - 1] \o seqs[i]]
  BY <1>6, <1>8
<1> HIDE DEF join
<1>11. \A i \in 1 .. n : join[i] = g[i]
  <2> DEFINE U == {i \in Nat : i + 1 <= n => join[i + 1] = g[i + 1]}
  <2>1. 0 \in U
    <3>1. 1 \in 1 .. n OBVIOUS
    <3>2. join[1] = seqs[1] BY <1>10, <3>1
    <3> QED BY <1>5, <3>2
  <2>2. ASSUME NEW i \in Nat, i \in U PROVE i + 1 \in U
    <3> SUFFICES ASSUME (i + 1) + 1 <= n PROVE join[(i + 1) + 1] = g[(i + 1) + 1] OBVIOUS
    <3>1. (i + 1) + 1 \in 1 .. n /\ (i + 1) + 1 # 1 /\ ((i + 1) + 1) - 1 = i + 1
          /\ i + 1 <= n /\ (i + 1) + 1 > 1
      OBVIOUS
    <3>2. join[i + 1] = g[i + 1] BY <2>2, <3>1
    <3> DEFINE x == (i + 1) + 1
    <3>3. x \in 1 .. n /\ x # 1 /\ x - 1 = i + 1 /\ x > 1 BY <3>1
    <3> HIDE DEF x
    <3>4. join[x] = join[x - 1] \o seqs[x] BY <1>10, <3>3
    <3>5. g[x] = g[x - 1] \o seqs[x] BY <1>5, <3>3
    <3>6. join[x] = g[x] BY <3>2, <3>3, <3>4, <3>5
    <3> QED BY <3>6 DEF x
  <2>3. \A i \in Nat : i \in U
    <3> HIDE DEF U
    <3> QED BY <2>1, <2>2, Induction
  <2>4. ASSUME NEW i \in 1 .. n PROVE join[i] = g[i]
    <3>1. i - 1 \in Nat /\ (i - 1) + 1 = i /\ i <= n OBVIOUS
    <3>2. i - 1 \in U
      <4> HIDE DEF U
      <4> QED BY <2>3, <3>1
    <3> QED BY <3>1, <3>2
  <2> QED BY <2>4
<1>12. n \in 1 .. n OBVIOUS
<1>13. FlattenSeq(seqs) = g[n] BY <1>9, <1>11, <1>12
<1>14. g \in Seq(C) /\ Len(g) = n BY <1>5
<1> QED BY <1>0, <1>5, <1>13, <1>14 DEF Joining

\* A set that has with two sequences their join has what is joined from its sequences.
LEMMA FlattenStays ==
  ASSUME NEW C, Joins(C), NEW seqs \in Seq(C) \ {<<>>}
  PROVE  FlattenSeq(seqs) \in C
<1>1. PICK g \in Joining(C, seqs) : FlattenSeq(seqs) = g[Len(seqs)] BY FlattenSteps
<1>2. g \in Seq(C) /\ Len(g) = Len(seqs) BY DEF Joining
<1>3. Len(seqs) \in Nat \ {0} BY EmptySeq
<1>4. Len(seqs) \in 1 .. Len(g) BY <1>2, <1>3
<1> QED BY <1>1, <1>2, <1>4, ElementOfSeq

LEMMA SeqJoins == ASSUME NEW S PROVE Joins(Seq(S))
BY ConcatProperties DEF Joins

\* What the steps are made of.
LEMMA JoiningStep ==
  ASSUME NEW S, NEW seqs \in Seq(Seq(S)), NEW g \in Joining(Seq(S), seqs)
  PROVE  /\ \A j \in 1 .. Len(seqs) : g[j] \in Seq(S) /\ seqs[j] \in Seq(S)
         /\ g[1] = seqs[1]
         /\ \A j \in 1 .. Len(seqs) : j > 1 => g[j] = g[j - 1] \o seqs[j]
BY ElementOfSeq DEF Joining

\* What is joined in a step is followed by something in the end.
LEMMA JoiningRest ==
  ASSUME NEW S, NEW seqs \in Seq(Seq(S)), NEW g \in Joining(Seq(S), seqs)
  PROVE  \A k \in 1 .. Len(seqs) : \E q \in Seq(S) : g[Len(seqs)] = g[k] \o q
<1> TAKE k \in 1 .. Len(seqs)
<1> DEFINE n == Len(seqs)
           Goes(l) == l <= n => \E q \in Seq(S) : g[l] = g[k] \o q
           T == {l \in Nat : Goes(k + l)}
<1>1. n \in Nat BY LenProperties
<1>2. 0 \in T
  <2>1. g[k] \in Seq(S) /\ <<>> \in Seq(S) BY JoiningStep, EmptySeq
  <2>2. g[k] \o <<>> = g[k] BY <2>1, ConcatEmptySeq
  <2>3. k + 0 = k OBVIOUS
  <2> QED BY <2>1, <2>2, <2>3
<1>3. ASSUME NEW l \in Nat, l \in T PROVE l + 1 \in T
  <2> DEFINE x == k + (l + 1)
  <2>1. x \in Nat /\ x - 1 = k + l /\ x > 1 /\ k + l >= 1 OBVIOUS
  <2> HIDE DEF x
  <2>2. ASSUME x <= n PROVE \E q \in Seq(S) : g[x] = g[k] \o q
    <3>1. x \in 1 .. n /\ k + l <= n BY <1>1, <2>1, <2>2
    <3>2. PICK q \in Seq(S) : g[k + l] = g[k] \o q BY <1>3, <3>1
    <3>3. g[x] = g[k + l] \o seqs[x] BY <2>1, <3>1, JoiningStep
    <3>4. g[k] \in Seq(S) /\ seqs[x] \in Seq(S) BY <3>1, JoiningStep
    <3>5. PICK u \in Seq(S), v \in Seq(S) : u = g[k] /\ v = seqs[x] BY <3>4
    <3>6. u \o (q \o v) = (u \o q) \o v BY ConcatAssociative
    <3>7. q \o v \in Seq(S) BY ConcatProperties
    <3>8. g[x] = u \o (q \o v) BY <3>2, <3>3, <3>5, <3>6
    <3> QED BY <3>5, <3>7, <3>8
  <2>3. Goes(x) BY <2>2
  <2> HIDE DEF Goes
  <2> QED BY <2>3 DEF x
<1>4. \A l \in Nat : l \in T
  <2> HIDE DEF T
  <2> QED BY <1>2, <1>3, Induction
<1>5. n - k \in Nat /\ k + (n - k) = n BY <1>1
<1>6. Goes(n)
  <2>1. n - k \in T
    <3> HIDE DEF T
    <3> QED BY <1>4, <1>5
  <2> HIDE DEF Goes
  <2> QED BY <1>5, <2>1
<1>7. n <= n BY <1>1
<1> HIDE DEF n
<1> QED BY <1>6, <1>7 DEF n

\* What comes first is followed by something.
LEMMA FlattenFirst ==
  ASSUME NEW S, NEW seqs \in Seq(Seq(S)) \ {<<>>}
  PROVE  \E q \in Seq(S) : FlattenSeq(seqs) = seqs[1] \o q
<1>1. PICK g \in Joining(Seq(S), seqs) : FlattenSeq(seqs) = g[Len(seqs)]
  BY SeqJoins, FlattenSteps
<1>2. Len(seqs) \in Nat \ {0} /\ 1 \in 1 .. Len(seqs) BY EmptySeq
<1>3. g[1] = seqs[1] BY JoiningStep
<1>4. \A k \in 1 .. Len(seqs) : \E q \in Seq(S) : g[Len(seqs)] = g[k] \o q
  BY JoiningRest
<1>5. PICK q \in Seq(S) : g[Len(seqs)] = g[1] \o q BY <1>2, <1>4
<1> QED BY <1>1, <1>3, <1>5


-----------------------------------------------------------------------------
(************************** underscores in names ***************************)

Plain(x) == \A i \in 1 .. Len(x) : x[i] # Underscore

\* No underscore is at the end or before another one, nor, if clean, at the beginning.
Tidy(x) == \A i \in 1 .. Len(x) : x[i] = Underscore => i < Len(x) /\ x[i + 1] # Underscore

Clean(x) == Len(x) > 0 /\ x[1] # Underscore /\ Tidy(x)

\* What is where in two sequences that are joined.
LEMMA ConcatAt ==
  ASSUME NEW S, NEW a \in Seq(S), NEW b \in Seq(S)
  PROVE  /\ a \o b \in Seq(S) /\ Len(a \o b) = Len(a) + Len(b)
         /\ \A i \in 1 .. Len(a) : (a \o b)[i] = a[i]
         /\ \A j \in 1 .. Len(b) : (a \o b)[Len(a) + j] = b[j]
<1>1. Len(a) \in Nat /\ Len(b) \in Nat BY LenProperties
<1>2. /\ a \o b \in Seq(S) /\ Len(a \o b) = Len(a) + Len(b)
      /\ \A i \in 1 .. Len(a) + Len(b) :
           (a \o b)[i] = IF i <= Len(a) THEN a[i] ELSE b[i - Len(a)]
  BY ConcatProperties
<1> DEFINE x == a \o b
<1>3. \A i \in 1 .. Len(a) : x[i] = a[i]
  <2> TAKE i \in 1 .. Len(a)
  <2>1. i \in 1 .. Len(a) + Len(b) /\ i <= Len(a) BY <1>1
  <2> QED BY <1>2, <2>1
<1>4. \A j \in 1 .. Len(b) : x[Len(a) + j] = b[j]
  <2> TAKE j \in 1 .. Len(b)
  <2>1. Len(a) + j \in 1 .. Len(a) + Len(b) /\ ~ (Len(a) + j <= Len(a))
        /\ (Len(a) + j) - Len(a) = j
    BY <1>1
  <2> QED BY <1>2, <2>1
<1> QED BY <1>2, <1>3, <1>4

LEMMA PlainJoins == ASSUME NEW S PROVE Joins({x \in Seq(S) : Plain(x)})
<1> SUFFICES ASSUME NEW a \in Seq(S), NEW b \in Seq(S), Plain(a), Plain(b)
             PROVE  a \o b \in Seq(S) /\ Plain(a \o b)
  BY DEF Joins
<1> DEFINE x == a \o b
<1>1. Len(a) \in Nat /\ Len(b) \in Nat BY LenProperties
<1>2. /\ x \in Seq(S) /\ Len(x) = Len(a) + Len(b)
      /\ \A i \in 1 .. Len(a) : x[i] = a[i]
      /\ \A j \in 1 .. Len(b) : x[Len(a) + j] = b[j]
  BY ConcatAt
<1> HIDE DEF x
<1>3. ASSUME NEW i \in 1 .. Len(x) PROVE x[i] # Underscore
  <2>1. i \in 1 .. Len(a) \/ \E j \in 1 .. Len(b) : i = Len(a) + j
    <3>1. CASE i <= Len(a) BY <3>1
    <3>2. CASE ~ (i <= Len(a))
      <4>1. i - Len(a) \in 1 .. Len(b) /\ i = Len(a) + (i - Len(a)) BY <1>1, <1>2, <3>2
      <4> QED BY <4>1
    <3> QED BY <3>1, <3>2
  <2> QED BY <1>2, <2>1 DEF Plain
<1> QED BY <1>2, <1>3 DEF Plain, x

LEMMA TidyJoins == ASSUME NEW S PROVE Joins({x \in Seq(S) : Tidy(x)})
<1> SUFFICES ASSUME NEW a \in Seq(S), NEW b \in Seq(S), Tidy(a), Tidy(b)
             PROVE  a \o b \in Seq(S) /\ Tidy(a \o b)
  BY DEF Joins
<1> DEFINE x == a \o b
<1>1. Len(a) \in Nat /\ Len(b) \in Nat BY LenProperties
<1>2. /\ x \in Seq(S) /\ Len(x) = Len(a) + Len(b)
      /\ \A i \in 1 .. Len(a) : x[i] = a[i]
      /\ \A j \in 1 .. Len(b) : x[Len(a) + j] = b[j]
  BY ConcatAt
<1> HIDE DEF x
<1>3. ASSUME NEW i \in 1 .. Len(x), x[i] = Underscore
      PROVE  i < Len(x) /\ x[i + 1] # Underscore
  <2>1. CASE i <= Len(a)
    <3>1. i < Len(a) /\ a[i + 1] # Underscore BY <1>1, <1>2, <1>3, <2>1 DEF Tidy
    <3>2. i + 1 \in 1 .. Len(a) /\ i < Len(x) BY <1>1, <1>2, <2>1, <3>1
    <3> QED BY <1>2, <3>1, <3>2
  <2>2. CASE ~ (i <= Len(a))
    <3>1. PICK j \in 1 .. Len(b) : i = Len(a) + j
      <4>1. i - Len(a) \in 1 .. Len(b) /\ i = Len(a) + (i - Len(a)) BY <1>1, <1>2, <2>2
      <4> QED BY <4>1
    <3>2. j < Len(b) /\ b[j + 1] # Underscore BY <1>2, <1>3, <3>1 DEF Tidy
    <3>3. j + 1 \in 1 .. Len(b) /\ i + 1 = Len(a) + (j + 1) /\ i < Len(x)
      BY <1>1, <1>2, <3>1, <3>2
    <3> QED BY <1>2, <3>2, <3>3
  <2> QED BY <2>1, <2>2
<1> QED BY <1>2, <1>3 DEF Tidy, x

LEMMA PlainIsTidy == ASSUME NEW x, Plain(x) PROVE Tidy(x)
BY DEF Plain, Tidy

\* If two sequences that begin as long are equal, so are their beginnings and rests.
LEMMA SameLength ==
  ASSUME NEW S, NEW a \in Seq(S), NEW q \in Seq(S), NEW b \in Seq(S), NEW r \in Seq(S),
         a \o q = b \o r, Len(a) = Len(b)
  PROVE  a = b /\ q = r
<1>1. \A i \in 1 .. Len(a) : (a \o q)[i] = a[i] BY ConcatAt
<1>2. \A i \in 1 .. Len(a) : (b \o r)[i] = b[i] BY ConcatAt
<1>3. \A i \in 1 .. Len(a) : a[i] = b[i] BY <1>1, <1>2
<1>4. a = b BY <1>3, SeqEqual
<1>5. a \o q = a \o r BY <1>4
<1> QED BY <1>4, <1>5, ConcatSimplifications

\* A run of underscores.
LEMMA UnderscoreRun ==
  ASSUME NEW S, Underscore \in S, NEW k \in Nat
  PROVE  /\ Underscores(k) \in Seq(S) /\ Len(Underscores(k)) = k
         /\ \A i \in 1 .. k : Underscores(k)[i] = Underscore
BY DEF Underscores

\* What stands before an underscore and has none of them is told by the whole.
LEMMA SingleEnds ==
  ASSUME NEW S, NEW x \in Seq(S), NEW y \in Seq(S), NEW q \in Seq(S), NEW r \in Seq(S),
         Plain(x), Plain(y), x \o q = y \o r, Len(q) > 0, Len(r) > 0,
         q[1] = Underscore, r[1] = Underscore
  PROVE  x = y
<1>1. ASSUME NEW a \in Seq(S), NEW b \in Seq(S), NEW p \in Seq(S), NEW t \in Seq(S),
             Plain(b), a \o p = b \o t, Len(p) > 0, p[1] = Underscore
      PROVE  Len(b) <= Len(a)
  <2> SUFFICES ASSUME Len(a) < Len(b) PROVE FALSE BY LenProperties
  <2>1. Len(a) \in Nat /\ Len(b) \in Nat /\ Len(p) \in Nat BY LenProperties
  <2>2. 1 \in 1 .. Len(p) /\ Len(a) + 1 \in 1 .. Len(b) BY <1>1, <2>1
  <2>3. (a \o p)[Len(a) + 1] = Underscore
    <3>1. \A j \in 1 .. Len(p) : (a \o p)[Len(a) + j] = p[j] BY ConcatAt
    <3> QED BY <1>1, <2>2, <3>1
  <2>4. (b \o t)[Len(a) + 1] = b[Len(a) + 1] BY <2>2, ConcatAt
  <2>5. b[Len(a) + 1] # Underscore BY <1>1, <2>2 DEF Plain
  <2> QED BY <1>1, <2>3, <2>4, <2>5
<1>2. Len(y) <= Len(x) BY <1>1
<1>3. Len(x) <= Len(y) BY <1>1
<1>4. Len(x) = Len(y) BY <1>2, <1>3, LenProperties
<1> QED BY <1>4, SameLength

\* What stands before two underscores, and is tidy, is told by the whole.
LEMMA DoubleEnds ==
  ASSUME NEW S, NEW x \in Seq(S), NEW y \in Seq(S), NEW q \in Seq(S), NEW r \in Seq(S),
         Tidy(x), Tidy(y), x \o q = y \o r, Len(q) > 1, Len(r) > 1,
         q[1] = Underscore, q[2] = Underscore, r[1] = Underscore, r[2] = Underscore
  PROVE  x = y
<1>1. ASSUME NEW a \in Seq(S), NEW b \in Seq(S), NEW p \in Seq(S), NEW t \in Seq(S),
             Tidy(b), a \o p = b \o t, Len(p) > 1, p[1] = Underscore, p[2] = Underscore
      PROVE  Len(b) <= Len(a)
  <2> SUFFICES ASSUME Len(a) < Len(b) PROVE FALSE BY LenProperties
  <2>1. Len(a) \in Nat /\ Len(b) \in Nat /\ Len(p) \in Nat BY LenProperties
  <2>2. 1 \in 1 .. Len(p) /\ 2 \in 1 .. Len(p) /\ Len(a) + 1 \in 1 .. Len(b)
    BY <1>1, <2>1
  <2>3. (a \o p)[Len(a) + 1] = Underscore /\ (a \o p)[Len(a) + 2] = Underscore
    <3>1. \A j \in 1 .. Len(p) : (a \o p)[Len(a) + j] = p[j] BY ConcatAt
    <3> QED BY <1>1, <2>2, <3>1
  <2>4. \A i \in 1 .. Len(b) : (b \o t)[i] = b[i] BY ConcatAt
  <2>5. b[Len(a) + 1] = Underscore BY <1>1, <2>2, <2>3, <2>4
  <2>6. Len(a) + 1 < Len(b) /\ b[(Len(a) + 1) + 1] # Underscore
    BY <1>1, <2>2, <2>5 DEF Tidy
  <2>7. (Len(a) + 1) + 1 = Len(a) + 2 /\ Len(a) + 2 \in 1 .. Len(b) BY <2>1, <2>6
  <2> QED BY <1>1, <2>3, <2>4, <2>6, <2>7
<1>2. Len(y) <= Len(x) BY <1>1
<1>3. Len(x) <= Len(y) BY <1>1
<1>4. Len(x) = Len(y) BY <1>2, <1>3, LenProperties
<1> QED BY <1>4, SameLength

\* The underscores before something that does not start with one can be counted.
LEMMA UnderscoresStripped ==
  ASSUME NEW S, Underscore \in S, NEW k \in Nat, NEW l \in Nat,
         NEW x \in Seq(S), NEW y \in Seq(S), Len(x) > 0, Len(y) > 0,
         x[1] # Underscore, y[1] # Underscore, Underscores(k) \o x = Underscores(l) \o y
  PROVE  k = l /\ x = y
<1>1. ASSUME NEW m \in Nat, NEW n \in Nat, NEW a \in Seq(S), NEW b \in Seq(S),
             Len(a) > 0, a[1] # Underscore, Underscores(m) \o a = Underscores(n) \o b
      PROVE  n <= m
  <2> SUFFICES ASSUME m < n PROVE FALSE OBVIOUS
  <2> DEFINE u == Underscores(m)
             v == Underscores(n)
  <2>1. u \in Seq(S) /\ Len(u) = m /\ v \in Seq(S) /\ Len(v) = n
        /\ \A i \in 1 .. n : v[i] = Underscore
    BY UnderscoreRun
  <2>2. u \o a = v \o b BY <1>1
  <2> HIDE DEF u, v
  <2>3. 1 \in 1 .. Len(a) /\ m + 1 \in 1 .. n BY <1>1, LenProperties
  <2>4. (u \o a)[m + 1] = a[1] BY <2>1, <2>3, ConcatAt
  <2>5. (v \o b)[m + 1] = v[m + 1] BY <2>1, <2>3, ConcatAt
  <2> QED BY <1>1, <2>1, <2>2, <2>3, <2>4, <2>5
<1>2. l <= k BY <1>1
<1>3. k <= l BY <1>1
<1>4. k = l BY <1>2, <1>3
<1>5. Underscores(k) \in Seq(S) BY UnderscoreRun
<1> QED BY <1>4, <1>5, ConcatSimplifications

-----------------------------------------------------------------------------
(***************************** joined names ********************************)

\* The codes of the members of a sequence, and a code whose words tell where they end.
Coded(f, s) == [i \in 1 .. Len(s) |-> f[s[i]]]

SelfDelimiting(S, W, f) ==
  /\ f \in [W -> Seq(S)]
  /\ \A w \in W : Len(f[w]) > 0
  /\ \A v, w \in W : \A q, r \in Seq(S) : f[v] \o q = f[w] \o r => v = w

LEMMA CodedTypes ==
  ASSUME NEW S, NEW W, NEW f, SelfDelimiting(S, W, f), NEW s \in Seq(W)
  PROVE  /\ Coded(f, s) \in Seq(Seq(S)) /\ Len(Coded(f, s)) = Len(s) /\ Len(s) \in Nat
         /\ \A i \in 1 .. Len(s) : /\ s[i] \in W /\ Coded(f, s)[i] = f[s[i]]
                                   /\ f[s[i]] \in Seq(S) /\ Len(f[s[i]]) > 0
<1>1. Len(s) \in Nat /\ \A i \in 1 .. Len(s) : s[i] \in W BY LenProperties, ElementOfSeq
<1>2. \A i \in 1 .. Len(s) : f[s[i]] \in Seq(S) /\ Len(f[s[i]]) > 0
  BY <1>1 DEF SelfDelimiting
<1> QED BY <1>1, <1>2 DEF Coded

Steps(S, f, s) == Joining(Seq(S), Coded(f, s))

Stepwise(S, f, s, g) ==
  /\ \A j \in 1 .. Len(s) : g[j] \in Seq(S)
  /\ Len(s) > 0 => g[1] = f[s[1]]
  /\ \A j \in 1 .. Len(s) : j > 1 => g[j] = g[j - 1] \o f[s[j]]
  /\ \A j \in 1 .. Len(s) : \E q \in Seq(S) : g[Len(s)] = g[j] \o q

LEMMA CodedSteps ==
  ASSUME NEW S, NEW W, NEW f, SelfDelimiting(S, W, f), NEW s \in Seq(W),
         NEW g \in Steps(S, f, s)
  PROVE  Stepwise(S, f, s, g)
<1> DEFINE a == Coded(f, s)
<1>1. /\ a \in Seq(Seq(S)) /\ Len(a) = Len(s) /\ Len(s) \in Nat
      /\ \A i \in 1 .. Len(s) : a[i] = f[s[i]]
  BY CodedTypes
<1>2. g \in Joining(Seq(S), a) BY DEF Steps
<1> HIDE DEF a
<1>3. /\ \A j \in 1 .. Len(a) : g[j] \in Seq(S)
      /\ g[1] = a[1]
      /\ \A j \in 1 .. Len(a) : j > 1 => g[j] = g[j - 1] \o a[j]
  BY <1>1, <1>2, JoiningStep
<1>4. \A j \in 1 .. Len(a) : \E q \in Seq(S) : g[Len(a)] = g[j] \o q
  BY <1>1, <1>2, JoiningRest
<1>5. Len(s) > 0 => 1 \in 1 .. Len(s) BY <1>1
<1> QED BY <1>1, <1>3, <1>4, <1>5 DEF Stepwise

\* As far as both go, what is joined tells the members of two sequences alike.
LEMMA DecodedAlike ==
  ASSUME NEW S, NEW W, NEW f, SelfDelimiting(S, W, f), NEW s \in Seq(W), NEW t \in Seq(W),
         NEW g \in Steps(S, f, s), NEW h \in Steps(S, f, t), g[Len(s)] = h[Len(t)]
  PROVE  \A k \in 1 .. Len(s) : k <= Len(t) => g[k] = h[k] /\ s[k] = t[k]
<1>1. \A a, b, c \in Seq(S) : (a \o b) \o c = a \o (b \o c) BY ConcatAssociative
<1>2. Len(s) \in Nat /\ \A i \in 1 .. Len(s) : s[i] \in W /\ f[s[i]] \in Seq(S)
  BY CodedTypes
<1>3. Len(t) \in Nat /\ \A i \in 1 .. Len(t) : t[i] \in W /\ f[t[i]] \in Seq(S)
  BY CodedTypes
<1>5. /\ \A j \in 1 .. Len(s) : g[j] \in Seq(S)
      /\ Len(s) > 0 => g[1] = f[s[1]]
      /\ \A j \in 1 .. Len(s) : j > 1 => g[j] = g[j - 1] \o f[s[j]]
      /\ \A j \in 1 .. Len(s) : \E q \in Seq(S) : g[Len(s)] = g[j] \o q
  <2>1. Stepwise(S, f, s, g) BY CodedSteps
  <2> QED BY <2>1 DEF Stepwise
<1>6. /\ \A j \in 1 .. Len(t) : h[j] \in Seq(S)
      /\ Len(t) > 0 => h[1] = f[t[1]]
      /\ \A j \in 1 .. Len(t) : j > 1 => h[j] = h[j - 1] \o f[t[j]]
      /\ \A j \in 1 .. Len(t) : \E q \in Seq(S) : h[Len(t)] = h[j] \o q
  <2>1. Stepwise(S, f, t, h) BY CodedSteps
  <2> QED BY <2>1 DEF Stepwise
<1>7. \A v, w \in W : \A q, r \in Seq(S) : f[v] \o q = f[w] \o r => v = w
  BY DEF SelfDelimiting
<1> DEFINE Same(k) == k <= Len(s) /\ k <= Len(t) => g[k] = h[k] /\ s[k] = t[k]
           T == {k \in Nat : Same(k + 1)}
<1>8. 0 \in T
  <2> SUFFICES ASSUME 1 <= Len(s), 1 <= Len(t) PROVE g[1] = h[1] /\ s[1] = t[1] OBVIOUS
  <2>1. 1 \in 1 .. Len(s) /\ 1 \in 1 .. Len(t) BY <1>2, <1>3
  <2>2. g[1] = f[s[1]] /\ h[1] = f[t[1]] /\ s[1] \in W /\ t[1] \in W
    BY <1>2, <1>3, <1>5, <1>6, <2>1
  <2>3. PICK q \in Seq(S) : g[Len(s)] = g[1] \o q BY <1>5, <2>1
  <2>4. PICK r \in Seq(S) : h[Len(t)] = h[1] \o r BY <1>6, <2>1
  <2>5. s[1] = t[1] BY <1>7, <2>2, <2>3, <2>4
  <2> QED BY <2>2, <2>5
<1>9. ASSUME NEW k \in Nat, k \in T PROVE k + 1 \in T
  <2> DEFINE x == (k + 1) + 1
  <2>1. x \in Nat /\ x - 1 = k + 1 /\ x > 1 OBVIOUS
  <2> HIDE DEF x
  <2>2. ASSUME x <= Len(s), x <= Len(t) PROVE g[x] = h[x] /\ s[x] = t[x]
    <3>1. /\ x \in 1 .. Len(s) /\ x \in 1 .. Len(t)
          /\ x - 1 \in 1 .. Len(s) /\ x - 1 \in 1 .. Len(t)
          /\ k + 1 <= Len(s) /\ k + 1 <= Len(t)
      BY <1>2, <1>3, <2>1, <2>2
    <3>2. g[x - 1] = h[x - 1] BY <1>9, <2>1, <3>1
    <3>3. /\ g[x] = g[x - 1] \o f[s[x]] /\ h[x] = h[x - 1] \o f[t[x]]
          /\ s[x] \in W /\ t[x] \in W /\ f[s[x]] \in Seq(S) /\ f[t[x]] \in Seq(S)
      BY <1>2, <1>3, <1>5, <1>6, <2>1, <3>1
    <3>4. PICK u \in Seq(S), c \in Seq(S), d \in Seq(S) :
            u = g[x - 1] /\ c = f[s[x]] /\ d = f[t[x]]
      BY <1>5, <3>1, <3>3
    <3>5. PICK q \in Seq(S) : g[Len(s)] = g[x] \o q BY <1>5, <3>1
    <3>6. PICK r \in Seq(S) : h[Len(t)] = h[x] \o r BY <1>6, <3>1
    <3>7. (u \o c) \o q = (u \o d) \o r BY <3>2, <3>3, <3>4, <3>5, <3>6
    <3>8. (u \o c) \o q = u \o (c \o q) /\ (u \o d) \o r = u \o (d \o r)
      BY <1>1
    <3>9. c \o q \in Seq(S) /\ d \o r \in Seq(S) BY ConcatProperties
    <3>10. c \o q = d \o r BY <3>7, <3>8, <3>9, ConcatSimplifications
    <3>11. s[x] = t[x] BY <1>7, <3>3, <3>4, <3>10
    <3> QED BY <3>2, <3>3, <3>11
  <2>3. Same(x) BY <2>2
  <2> HIDE DEF Same
  <2> QED BY <2>3 DEF x
<1>10. \A k \in Nat : k \in T
  <2> HIDE DEF T
  <2> QED BY <1>8, <1>9, Induction
<1> TAKE k \in 1 .. Len(s)
<1>11. k - 1 \in Nat /\ (k - 1) + 1 = k /\ k <= Len(s) BY <1>2
<1>12. Same(k)
  <2>1. k - 1 \in T
    <3> HIDE DEF T
    <3> QED BY <1>10, <1>11
  <2> HIDE DEF Same
  <2> QED BY <1>11, <2>1
<1> QED BY <1>11, <1>12

\* So what is joined from a self-delimiting code is decoded in one way.
LEMMA Decoded ==
  ASSUME NEW S, NEW W, NEW f, SelfDelimiting(S, W, f),
         NEW s \in Seq(W), NEW t \in Seq(W), Len(s) > 0, Len(t) > 0,
         FlattenSeq(Coded(f, s)) = FlattenSeq(Coded(f, t))
  PROVE  s = t
<1>1. ASSUME NEW a \in Seq(W), Len(a) > 0
      PROVE  \E g \in Steps(S, f, a) : FlattenSeq(Coded(f, a)) = g[Len(a)]
  <2>1. Coded(f, a) \in Seq(Seq(S)) /\ Len(Coded(f, a)) = Len(a) BY CodedTypes
  <2>2. Coded(f, a) # <<>> BY <1>1, <2>1, EmptySeq
  <2> QED BY <2>1, <2>2, SeqJoins, FlattenSteps DEF Steps
<1>2. PICK g \in Steps(S, f, s) : FlattenSeq(Coded(f, s)) = g[Len(s)] BY <1>1
<1>3. PICK h \in Steps(S, f, t) : FlattenSeq(Coded(f, t)) = h[Len(t)] BY <1>1
<1>4. ASSUME NEW a \in Seq(W), NEW b \in Seq(W), Len(a) > 0, Len(a) < Len(b),
             NEW i \in Steps(S, f, a), NEW j \in Steps(S, f, b), i[Len(a)] = j[Len(b)]
      PROVE  FALSE
  <2> DEFINE n == Len(a)
  <2>1. n \in Nat /\ n > 0 /\ Len(b) \in Nat /\ n < Len(b) BY <1>4, LenProperties
  <2>2. n \in 1 .. Len(a) /\ n <= Len(b) /\ n \in 1 .. Len(b) /\ n + 1 \in 1 .. Len(b)
        /\ n + 1 > 1 /\ (n + 1) - 1 = n
    BY <2>1
  <2>3. \A k \in 1 .. Len(a) : k <= Len(b) => i[k] = j[k] BY <1>4, DecodedAlike
  <2>4. j[n] = j[Len(b)] BY <1>4, <2>2, <2>3
  <2> HIDE DEF n
  <2>5. \A k \in 1 .. Len(b) : f[b[k]] \in Seq(S) /\ Len(f[b[k]]) > 0 BY CodedTypes
  <2>6. /\ \A k \in 1 .. Len(b) : j[k] \in Seq(S)
        /\ \A k \in 1 .. Len(b) : k > 1 => j[k] = j[k - 1] \o f[b[k]]
        /\ \A k \in 1 .. Len(b) : \E q \in Seq(S) : j[Len(b)] = j[k] \o q
    <3>1. Stepwise(S, f, b, j) BY CodedSteps
    <3> QED BY <3>1 DEF Stepwise
  <2>7. PICK u \in Seq(S), v \in Seq(S) : u = j[n] /\ v = f[b[n + 1]] /\ Len(v) > 0
    BY <2>2, <2>5, <2>6
  <2>8. PICK q \in Seq(S) : j[Len(b)] = j[n + 1] \o q BY <2>2, <2>6
  <2>9. j[n + 1] = u \o v BY <2>2, <2>6, <2>7
  <2>10. (u \o v) \o q = u BY <2>4, <2>7, <2>8, <2>9
  <2>11. \A c, d \in Seq(S) : c \o d \in Seq(S) /\ Len(c \o d) = Len(c) + Len(d)
    BY ConcatProperties
  <2>12. Len((u \o v) \o q) = (Len(u) + Len(v)) + Len(q) BY <2>11
  <2>13. Len(u) \in Nat /\ Len(v) \in Nat /\ Len(q) \in Nat BY LenProperties
  <2>14. Len(v) > 0 BY <2>7
  <2>15. Len(u) = (Len(u) + Len(v)) + Len(q) BY <2>10, <2>12
  <2> QED BY <2>13, <2>14, <2>15
<1>5. g[Len(s)] = h[Len(t)] BY <1>2, <1>3
<1>6. ~ (Len(s) < Len(t)) BY <1>4, <1>5
<1>7. ~ (Len(t) < Len(s)) BY <1>4, <1>5
<1>8. Len(s) = Len(t) /\ Len(s) \in Nat BY <1>6, <1>7, LenProperties
<1>9. \A k \in 1 .. Len(s) : k <= Len(t) => g[k] = h[k] /\ s[k] = t[k]
  BY <1>5, DecodedAlike
<1>10. \A k \in 1 .. Len(s) : s[k] = t[k] BY <1>8, <1>9
<1> QED BY <1>8, <1>10, SeqEqual

\* What is joined by a separator, and one more at the end, are the words each with one.
LEMMA JoinedWithEnd ==
  ASSUME NEW S, NEW words \in Seq(Seq(S)), Len(words) > 0, NEW sep \in Seq(S)
  PROVE  /\ Joined(words, sep) \in Seq(S)
         /\ \E q \in Seq(S) : Joined(words, sep) = words[1] \o q
         /\ Joined(words, sep) \o sep = FlattenSeq([i \in 1 .. Len(words) |-> words[i] \o sep])
<1> DEFINE n == Len(words)
           a == [i \in 1 .. n |-> IF i = 1 THEN words[i] ELSE sep \o words[i]]
           b == [i \in 1 .. n |-> words[i] \o sep]
<1>1. n \in Nat /\ n > 0 /\ DOMAIN words = 1 .. n BY LenProperties
<1>2. \A i \in 1 .. n : words[i] \in Seq(S) BY ElementOfSeq
<1>3. \A u, v \in Seq(S) : u \o v \in Seq(S) BY ConcatProperties
<1>4. a \in Seq(Seq(S)) /\ Len(a) = n
  <2>1. \A i \in 1 .. n : (IF i = 1 THEN words[i] ELSE sep \o words[i]) \in Seq(S)
    BY <1>2, <1>3
  <2> HIDE DEF n
  <2> QED BY <1>1, <2>1
<1>5. b \in Seq(Seq(S)) /\ Len(b) = n
  <2>1. \A i \in 1 .. n : words[i] \o sep \in Seq(S) BY <1>2, <1>3
  <2> HIDE DEF n
  <2> QED BY <1>1, <2>1
<1>6. 1 \in 1 .. n BY <1>1
<1>7. /\ a[1] = words[1] /\ b[1] = words[1] \o sep
      /\ \A i \in 1 .. n : i > 1 => a[i] = sep \o words[i] /\ b[i] = words[i] \o sep
  <2> HIDE DEF n
  <2> QED BY <1>6
<1>8. Joined(words, sep) = FlattenSeq(a) BY <1>1 DEF Joined
<1> HIDE DEF a, b
<1>9. a # <<>> /\ b # <<>> BY <1>1, <1>4, <1>5, EmptySeq
<1>10. PICK g \in Joining(Seq(S), a) : FlattenSeq(a) = g[Len(a)]
  BY <1>4, <1>9, SeqJoins, FlattenSteps
<1>11. PICK h \in Joining(Seq(S), b) : FlattenSeq(b) = h[Len(b)]
  BY <1>5, <1>9, SeqJoins, FlattenSteps
<1>12. /\ \A j \in 1 .. Len(a) : g[j] \in Seq(S)
       /\ g[1] = a[1] /\ \A j \in 1 .. Len(a) : j > 1 => g[j] = g[j - 1] \o a[j]
  BY <1>4, JoiningStep
<1>13. /\ h[1] = b[1] /\ \A j \in 1 .. Len(b) : j > 1 => h[j] = h[j - 1] \o b[j]
  BY <1>5, JoiningStep
<1> HIDE DEF n
<1>14. \A u, v, w \in Seq(S) : (u \o v) \o w = u \o (v \o w) BY ConcatAssociative
<1> DEFINE Ends(k) == k <= n => g[k] \o sep = h[k]
           T == {k \in Nat : Ends(k + 1)}
<1>15. 0 \in T
  <2>1. g[1] \o sep = h[1] BY <1>7, <1>12, <1>13
  <2> QED BY <2>1
<1>16. ASSUME NEW k \in Nat, k \in T PROVE k + 1 \in T
  <2> DEFINE x == (k + 1) + 1
  <2>1. x \in Nat /\ x - 1 = k + 1 /\ x > 1 OBVIOUS
  <2> HIDE DEF x
  <2>2. ASSUME x <= n PROVE g[x] \o sep = h[x]
    <3>1. x \in 1 .. n /\ x - 1 \in 1 .. n /\ k + 1 <= n BY <1>1, <2>1, <2>2
    <3>2. g[x - 1] \o sep = h[x - 1] BY <1>16, <2>1, <3>1
    <3>3. PICK u \in Seq(S), w \in Seq(S) : u = g[x - 1] /\ w = words[x]
      BY <1>2, <1>4, <1>12, <3>1 DEF n
    <3>4. g[x] = u \o (sep \o w) BY <1>4, <1>7, <1>12, <2>1, <3>1, <3>3
    <3>5. h[x] = (u \o sep) \o (w \o sep) BY <1>5, <1>7, <1>13, <2>1, <3>1, <3>2, <3>3
    <3>6. sep \o w \in Seq(S) /\ w \o sep \in Seq(S) BY <1>3
    <3>7. (u \o (sep \o w)) \o sep = u \o ((sep \o w) \o sep) BY <1>14, <3>6
    <3>8. (sep \o w) \o sep = sep \o (w \o sep) BY <1>14
    <3>9. (u \o sep) \o (w \o sep) = u \o (sep \o (w \o sep)) BY <1>14, <3>6
    <3> QED BY <3>4, <3>5, <3>7, <3>8, <3>9
  <2>3. Ends(x) BY <2>2
  <2> HIDE DEF Ends
  <2> QED BY <2>3 DEF x
<1>17. \A k \in Nat : k \in T
  <2> HIDE DEF T
  <2> QED BY <1>15, <1>16, Induction
<1>18. Ends(n)
  <2>1. n - 1 \in Nat /\ (n - 1) + 1 = n BY <1>1
  <2>2. n - 1 \in T
    <3> HIDE DEF T
    <3> QED BY <1>17, <2>1
  <2> HIDE DEF Ends
  <2> QED BY <2>1, <2>2
<1>19. n <= n /\ n \in 1 .. n BY <1>1
<1>20. g[n] \o sep = h[n] BY <1>18, <1>19
<1>21. FlattenSeq(a) \in Seq(S) BY <1>4, <1>10, <1>12, <1>19
<1>22. \E q \in Seq(S) : FlattenSeq(a) = a[1] \o q BY <1>4, <1>9, FlattenFirst
<1>23. FlattenSeq(a) \o sep = FlattenSeq(b) BY <1>4, <1>5, <1>10, <1>11, <1>20
<1>24. b = [i \in 1 .. Len(words) |-> words[i] \o sep] BY DEF b, n
<1> QED BY <1>7, <1>8, <1>21, <1>22, <1>23, <1>24

-----------------------------------------------------------------------------
(**************************** names as written *****************************)

LEMMA PackageSeqs == \A p \in Packages : p \in Seq(PackageWords) /\ p \in Seq(Words)
<1> TAKE p \in Packages
<1>1. p \in Seq(Words) BY NamesAssumption
<1>2. Len(p) \in Nat /\ p \in [1 .. Len(p) -> Words] BY <1>1, LenProperties
<1>3. \A i \in 1 .. Len(p) : p[i] \in PackageWords BY <1>2 DEF PackageWords, Range
<1>4. p \in Seq(PackageWords) BY <1>1, <1>3
<1> QED BY <1>1, <1>4

\* A word of a package has no underscore, and, in snake case, none but between two words.
LEMMA PackageWordPlain ==
  ASSUME NamesApart, NEW w \in PackageWords
  PROVE  w \in Words /\ w \in Seq(Atoms) /\ Len(w) > 0 /\ Plain(w) /\ Underscore \in Atoms
<1>1. PICK p \in Packages : w \in Range(p) BY DEF PackageWords
<1>2. w \in Words BY <1>1 DEF Words
<1>3. w \in Seq(Atoms) BY <1>2, NamesAssumption
<1>4. Len(w) > 0 /\ ~ Contains(w, Underscore) BY DEF NamesApart
<1>5. Plain(w) BY <1>4 DEF Contains, Plain
<1>6. Underscore \in Atoms BY DEF Atoms
<1> QED BY <1>2, <1>3, <1>4, <1>5, <1>6

\* A word in snake case.
LEMMA SnakeClean ==
  ASSUME NamesApart, NEW w \in PackageWords
  PROVE  snake_case(w) \in Seq(Atoms) /\ Clean(snake_case(w))
<1>1. w \in Seq(Atoms) /\ Len(w) \in Nat /\ Len(w) > 0 /\ Plain(w) /\ DOMAIN w = 1 .. Len(w)
      /\ \A i \in 1 .. Len(w) : w[i] \in Atoms /\ w[i] # Underscore
  BY PackageWordPlain, LenProperties, ElementOfSeq DEF Plain
<1>2. 1 \in 1 .. Len(w) BY <1>1
<1>3. CASE snake_case(w) = w
  <2>1. Clean(w) BY <1>1, <1>2, PlainIsTidy DEF Clean
  <2> QED BY <1>1, <1>3, <2>1
<1>4. CASE snake_case(w) # w
  <2> DEFINE n == Len(w)
             a == [i \in 1 .. n |-> Lowered(w, i)]
             C == {x \in Seq(Atoms) : Tidy(x)}
  <2>1. snake_case(w) = FlattenSeq(a) BY <1>1, <1>4 DEF snake_case
  <2>2. \A c \in DOMAIN Lower : Lower[c] \in Atoms /\ Lower[c] # Underscore
    BY NamesAssumption DEF Atoms, Range
  <2>3. Underscore \in Atoms BY PackageWordPlain
  <2>4. ASSUME NEW x \in Atoms, x # Underscore PROVE <<x>> \in C /\ <<Underscore, x>> \in C
    <3>1. Tidy(<<x>>) BY <2>4 DEF Tidy
    <3>2. Tidy(<<Underscore, x>>)
      <4> DEFINE y == <<Underscore, x>>
      <4>1. Len(y) = 2 /\ y[1] = Underscore /\ y[2] = x OBVIOUS
      <4> HIDE DEF y
      <4>2. \A i \in 1 .. Len(y) : y[i] = Underscore => i = 1 BY <2>4, <4>1
      <4>3. Tidy(y) BY <2>4, <4>1, <4>2 DEF Tidy
      <4> QED BY <4>3 DEF y
    <3> QED BY <2>3, <2>4, <3>1, <3>2
  <2>5. ASSUME NEW i \in 1 .. n
        PROVE  /\ Lowered(w, i) \in C
               /\ i = 1 => \E x \in Atoms : x # Underscore /\ Lowered(w, i) = <<x>>
    <3>1. w[i] \in Atoms /\ w[i] # Underscore BY <1>1
    <3> HIDE DEF C
    <3>2. CASE ~ Capital(w[i])
      <4>1. Lowered(w, i) = <<w[i]>> BY <3>2 DEF Lowered
      <4> QED BY <2>4, <3>1, <4>1
    <3>3. CASE Capital(w[i])
      <4> DEFINE y == Lower[w[i]]
      <4>1. y \in Atoms /\ y # Underscore BY <2>2, <3>3 DEF Capital
      <4>2. Lowered(w, i) = IF i = 1 THEN <<y>> ELSE <<Underscore, y>> BY <3>3 DEF Lowered
      <4> HIDE DEF y
      <4> QED BY <2>4, <4>1, <4>2
    <3> QED BY <3>2, <3>3
  <2>6. a \in Seq(C) /\ Len(a) = n /\ a[1] = Lowered(w, 1)
    <3> HIDE DEF C
    <3>1. n \in Nat /\ 1 \in 1 .. n /\ \A i \in 1 .. n : Lowered(w, i) \in C
      BY <1>1, <1>2, <2>5
    <3> HIDE DEF n
    <3> QED BY <3>1
  <2>7. a # <<>> BY <1>1, <2>6
  <2>8. a \in Seq(Seq(Atoms))
    <3>1. \A i \in 1 .. n : a[i] \in Seq(Atoms) BY <2>5
    <3> QED BY <1>1, <2>6, <3>1
  <2>9. FlattenSeq(a) \in C
    <3> HIDE DEF a
    <3> QED BY <2>6, <2>7, TidyJoins, FlattenStays
  <2>10. PICK q \in Seq(Atoms) : FlattenSeq(a) = a[1] \o q
    <3> HIDE DEF a
    <3> QED BY <2>7, <2>8, FlattenFirst
  <2>11. PICK x \in Atoms : x # Underscore /\ a[1] = <<x>> BY <1>2, <2>5, <2>6
  <2> HIDE DEF a
  <2>12. FlattenSeq(a) = <<x>> \o q /\ <<x>> \in Seq(Atoms) /\ Len(<<x>>) = 1
    BY <2>10, <2>11
  <2> DEFINE z == <<x>> \o q
  <2>13. z[1] = x /\ Len(z) > 0
    <3>1. \A y \in Seq(Atoms) : Len(y) = 1 => (y \o q)[1] = y[1] /\ Len(y \o q) > 0
      <4> TAKE y \in Seq(Atoms)
      <4>1. Len(y \o q) = Len(y) + Len(q) /\ \A i \in 1 .. Len(y) : (y \o q)[i] = y[i]
        BY ConcatAt
      <4> QED BY <4>1, LenProperties
    <3>2. <<x>>[1] = x OBVIOUS
    <3> QED BY <2>12, <3>1, <3>2
  <2> HIDE DEF z
  <2>14. FlattenSeq(a) = z BY <2>12 DEF z
  <2>15. Clean(z) BY <2>9, <2>11, <2>13, <2>14 DEF Clean
  <2> QED BY <2>1, <2>9, <2>14, <2>15
<1> QED BY <1>3, <1>4

\* The name of a class has no underscore.
LEMMA ClassPlain ==
  ASSUME NEW o \in Objects
  PROVE  pythonize_class_name(o) \in Seq(Atoms) /\ Plain(pythonize_class_name(o))
<1> DEFINE atoms == FlattenSeq(o)
           n == Len(atoms)
           a == [i \in 1 .. n |-> IF atoms[i] = Underscore THEN <<>> ELSE <<Upper(atoms[i])>>]
           C == {x \in Seq(Atoms) : Plain(x)}
<1>1. o \in Seq(Words) \ {<<>>} /\ Words \subseteq Seq(Atoms) BY NamesAssumption
<1>2. o \in Seq(Seq(Atoms)) \ {<<>>}
  <2>1. \A i \in 1 .. Len(o) : o[i] \in Seq(Atoms) BY <1>1, ElementOfSeq
  <2> QED BY <1>1, <2>1
<1>3. atoms \in Seq(Atoms) BY <1>2, SeqJoins, FlattenStays
<1> HIDE DEF atoms
<1>4. n \in Nat /\ DOMAIN atoms = 1 .. n /\ \A i \in 1 .. n : atoms[i] \in Atoms
  BY <1>3, LenProperties, ElementOfSeq
<1>5. pythonize_class_name(o) = FlattenSeq(a)
  BY <1>4 DEF pythonize_class_name, atoms
<1>6. \A x \in Atoms : x # Underscore => Upper(x) \in Atoms /\ Upper(x) # Underscore
  BY NamesAssumption DEF Upper, Atoms
<1>7. \A x \in Atoms : x # Underscore => <<x>> \in C BY DEF Plain
<1>8. <<>> \in C BY DEF Plain
<1> HIDE DEF C
<1>9. \A i \in 1 .. n : (IF atoms[i] = Underscore THEN <<>> ELSE <<Upper(atoms[i])>>) \in C
  BY <1>4, <1>6, <1>7, <1>8
<1> HIDE DEF n
<1>10. a \in Seq(C) /\ Len(a) = n BY <1>4, <1>9
<1>11. CASE n = 0
  <2>1. a = <<>> /\ Len(a) = 0 BY <1>10, <1>11
  <2>2. FlattenSeq(a) = <<>> BY <2>1 DEF FlattenSeq
  <2> QED BY <1>5, <1>8, <2>2 DEF C
<1>12. CASE n # 0
  <2>1. a # <<>> BY <1>10, <1>12
  <2> HIDE DEF a
  <2>2. Joins(C) BY PlainJoins DEF C
  <2>3. FlattenSeq(a) \in C BY <1>10, <2>1, <2>2, FlattenStays
  <2> QED BY <1>5, <2>3 DEF C
<1> QED BY <1>11, <1>12

-----------------------------------------------------------------------------
(***************************** aliases as codes ****************************)

BelowCode == [w \in PackageWords |-> w \o <<Underscore>>]

BesideCode == [w \in PackageWords |-> safe_snake_case(w) \o Underscores(2)]

LEMMA AtomsAssociate == \A x, y, z \in Seq(Atoms) : (x \o y) \o z = x \o (y \o z)
BY ConcatAssociative

\* Two underscores, and whatever follows them.
Doubled(e) == Len(e) > 1 /\ e[1] = Underscore /\ e[2] = Underscore

\* What follows the words, k underscores ahead, in the aliases of ancestors and cousins.
Starts(a, k, y) == \E e \in Seq(Atoms) : Doubled(e) /\ a = Underscores(k) \o (y \o e)

LEMMA DoubledJoin ==
  ASSUME NEW e \in Seq(Atoms), NEW q \in Seq(Atoms), Doubled(e)
  PROVE  e \o q \in Seq(Atoms) /\ Doubled(e \o q)
<1>1. /\ e \o q \in Seq(Atoms) /\ Len(e \o q) = Len(e) + Len(q)
      /\ \A i \in 1 .. Len(e) : (e \o q)[i] = e[i]
  BY ConcatAt
<1>2. Len(e) \in Nat /\ Len(q) \in Nat /\ Len(e) > 1 BY LenProperties DEF Doubled
<1>3. 1 \in 1 .. Len(e) /\ 2 \in 1 .. Len(e) BY <1>2
<1>4. (e \o q)[1] = Underscore /\ (e \o q)[2] = Underscore BY <1>1, <1>3 DEF Doubled
<1>5. Len(e \o q) > 1 BY <1>1, <1>2
<1> QED BY <1>1, <1>4, <1>5 DEF Doubled

LEMMA TwoUnderscores ==
  ASSUME Underscore \in Atoms
  PROVE  Underscores(2) \in Seq(Atoms) /\ Doubled(Underscores(2))
<1> DEFINE u == Underscores(2)
<1>1. u \in Seq(Atoms) /\ Len(u) = 2 /\ \A i \in 1 .. 2 : u[i] = Underscore
  BY UnderscoreRun
<1> HIDE DEF u
<1>2. u[1] = Underscore /\ u[2] = Underscore BY <1>1
<1>3. Doubled(u) BY <1>1, <1>2 DEF Doubled
<1> QED BY <1>1, <1>3 DEF u

\* A word of a path below, with its underscore, tells where it ends.
LEMMA BelowDelimits == ASSUME NamesApart PROVE SelfDelimiting(Atoms, PackageWords, BelowCode)
<1> DEFINE u == <<Underscore>>
<1>1. ASSUME NEW w \in PackageWords PROVE u \in Seq(Atoms) /\ Len(u) = 1 /\ u[1] = Underscore
  BY PackageWordPlain
<1> HIDE DEF u
<1>2. ASSUME NEW w \in PackageWords PROVE w \o u \in Seq(Atoms) /\ Len(w \o u) > 0
  <2>1. w \in Seq(Atoms) /\ Len(w) \in Nat /\ Len(u) = 1 /\ u \in Seq(Atoms)
    BY <1>1, PackageWordPlain, LenProperties
  <2>2. w \o u \in Seq(Atoms) /\ Len(w \o u) = Len(w) + Len(u) BY <2>1, ConcatAt
  <2> QED BY <2>1, <2>2
<1>3. ASSUME NEW v \in PackageWords, NEW w \in PackageWords, NEW q \in Seq(Atoms),
             NEW r \in Seq(Atoms), (v \o u) \o q = (w \o u) \o r
      PROVE  v = w
  <2>1. v \in Seq(Atoms) /\ w \in Seq(Atoms) /\ Plain(v) /\ Plain(w) BY PackageWordPlain
  <2>2. u \in Seq(Atoms) /\ Len(u) = 1 /\ u[1] = Underscore BY <1>1
  <2>4. v \o (u \o q) = w \o (u \o r) BY <1>3, <2>1, <2>2, AtomsAssociate
  <2>5. ASSUME NEW x \in Seq(Atoms)
        PROVE  u \o x \in Seq(Atoms) /\ Len(u \o x) > 0 /\ (u \o x)[1] = Underscore
    <3>1. /\ u \o x \in Seq(Atoms) /\ Len(u \o x) = Len(u) + Len(x)
          /\ \A i \in 1 .. Len(u) : (u \o x)[i] = u[i]
      BY <2>2, ConcatAt
    <3> QED BY <2>2, <3>1, LenProperties
  <2> QED BY <2>1, <2>4, <2>5, SingleEnds
<1>4. \A w \in PackageWords : BelowCode[w] = w \o u BY DEF BelowCode, u
<1>5. BelowCode \in [PackageWords -> Seq(Atoms)] BY <1>2 DEF BelowCode, u
<1>6. \A w \in PackageWords : Len(BelowCode[w]) > 0 BY <1>2, <1>4
<1>7. \A v, w \in PackageWords : \A q, r \in Seq(Atoms) :
        BelowCode[v] \o q = BelowCode[w] \o r => v = w
  <2> SUFFICES ASSUME NEW v \in PackageWords, NEW w \in PackageWords, NEW q \in Seq(Atoms),
                      NEW r \in Seq(Atoms), BelowCode[v] \o q = BelowCode[w] \o r
               PROVE  v = w
    OBVIOUS
  <2>1. (v \o u) \o q = (w \o u) \o r BY <1>4
  <2> QED BY <1>3, <2>1
<1> QED BY <1>5, <1>6, <1>7 DEF SelfDelimiting

\* A word of a path beside is followed by two underscores, one more after a keyword.
LEMMA SafeSplits ==
  ASSUME NamesApart, NEW w \in PackageWords
  PROVE  /\ safe_snake_case(w) \in Seq(Atoms)
         /\ \E e \in Seq(Atoms) : /\ Doubled(e)
                                  /\ safe_snake_case(w) \o Underscores(2) = snake_case(w) \o e
<1> DEFINE s == snake_case(w)
           u == <<Underscore>>
           d == Underscores(2)
<1>1. s \in Seq(Atoms) BY SnakeClean
<1>2. Underscore \in Atoms BY PackageWordPlain
<1>3. d \in Seq(Atoms) /\ Doubled(d) BY <1>2, TwoUnderscores
<1>4. u \in Seq(Atoms) /\ Len(u) = 1 /\ u[1] = Underscore BY <1>2
<1> HIDE DEF u, d
<1>5. CASE s \notin Keywords
  <2>1. safe_snake_case(w) = s BY <1>5 DEF safe_snake_case
  <2> QED BY <1>1, <1>3, <2>1 DEF d
<1>6. CASE s \in Keywords
  <2>1. safe_snake_case(w) = Append(s, Underscore) BY <1>6 DEF safe_snake_case
  <2> HIDE DEF s
  <2>2. safe_snake_case(w) = s \o u BY <1>1, <1>2, <2>1, AppendIsConcat DEF u
  <2>3. /\ u \o d \in Seq(Atoms) /\ Len(u \o d) = Len(u) + Len(d)
        /\ \A i \in 1 .. Len(u) : (u \o d)[i] = u[i]
        /\ \A i \in 1 .. Len(d) : (u \o d)[Len(u) + i] = d[i]
    <3>1. u \in Seq(Atoms) /\ d \in Seq(Atoms) BY <1>3, <1>4
    <3> QED BY <3>1, ConcatAt
  <2>4. Len(d) \in Nat /\ Len(d) > 1 /\ d[1] = Underscore
    BY <1>3, LenProperties DEF Doubled
  <2>5. 1 \in 1 .. Len(u) /\ 1 \in 1 .. Len(d) /\ Len(u) + 1 = 2 BY <1>4, <2>4
  <2>6. (u \o d)[1] = Underscore /\ (u \o d)[2] = Underscore /\ Len(u \o d) > 1
    BY <1>4, <2>3, <2>4, <2>5
  <2>7. Doubled(u \o d) BY <2>6 DEF Doubled
  <2>8. (s \o u) \o d = s \o (u \o d) /\ s \o u \in Seq(Atoms)
    BY <1>1, <1>3, <1>4, ConcatAssociative, ConcatProperties
  <2> QED BY <2>2, <2>3, <2>7, <2>8 DEF s, d
<1> QED BY <1>5, <1>6

\* So it tells where it ends, and, no two words being alike in snake case, which it is.
LEMMA BesideDelimits == ASSUME NamesApart PROVE SelfDelimiting(Atoms, PackageWords, BesideCode)
<1> DEFINE c(w) == safe_snake_case(w) \o Underscores(2)
<1>1. ASSUME NEW w \in PackageWords
      PROVE  \E e \in Seq(Atoms) : Doubled(e) /\ c(w) = snake_case(w) \o e
  BY SafeSplits
<1> HIDE DEF c
<1>2. ASSUME NEW w \in PackageWords PROVE c(w) \in Seq(Atoms) /\ Len(c(w)) > 0
  <2>1. PICK e \in Seq(Atoms) : Doubled(e) /\ c(w) = snake_case(w) \o e BY <1>1
  <2>2. snake_case(w) \in Seq(Atoms) BY SnakeClean
  <2>3. c(w) \in Seq(Atoms) /\ Len(c(w)) = Len(snake_case(w)) + Len(e)
    BY <2>1, <2>2, ConcatAt
  <2>4. Len(snake_case(w)) \in Nat /\ Len(e) \in Nat /\ Len(e) > 1
    BY <2>1, <2>2, LenProperties DEF Doubled
  <2> QED BY <2>3, <2>4
<1>3. ASSUME NEW v \in PackageWords, NEW w \in PackageWords, NEW q \in Seq(Atoms),
             NEW r \in Seq(Atoms), c(v) \o q = c(w) \o r
      PROVE  v = w
  <2>1. PICK x \in Seq(Atoms), y \in Seq(Atoms) :
          x = snake_case(v) /\ y = snake_case(w) /\ Clean(x) /\ Clean(y)
    BY SnakeClean
  <2>2. PICK d \in Seq(Atoms) : Doubled(d) /\ c(v) = x \o d BY <1>1, <2>1
  <2>3. PICK e \in Seq(Atoms) : Doubled(e) /\ c(w) = y \o e BY <1>1, <2>1
  <2>4. (x \o d) \o q = (y \o e) \o r BY <1>3, <2>2, <2>3
  <2>5. x \o (d \o q) = y \o (e \o r) BY <2>4, AtomsAssociate
  <2>6. d \o q \in Seq(Atoms) /\ Doubled(d \o q) BY <2>2, DoubledJoin
  <2>7. e \o r \in Seq(Atoms) /\ Doubled(e \o r) BY <2>3, DoubledJoin
  <2>8. Tidy(x) /\ Tidy(y) BY <2>1 DEF Clean
  <2>9. x = y BY <2>5, <2>6, <2>7, <2>8, DoubleEnds DEF Doubled
  <2> QED BY <2>1, <2>9 DEF NamesApart
<1>4. \A w \in PackageWords : BesideCode[w] = c(w) BY DEF BesideCode, c
<1>5. BesideCode \in [PackageWords -> Seq(Atoms)] BY <1>2 DEF BesideCode, c
<1> QED BY <1>2, <1>3, <1>4, <1>5 DEF SelfDelimiting

\* The underscores ahead and the first word are told by the whole.
LEMMA StartsApart ==
  ASSUME Underscore \in Atoms, NEW k \in Nat, NEW l \in Nat, NEW y \in Seq(Atoms),
         NEW z \in Seq(Atoms), Clean(y), Clean(z), NEW a, Starts(a, k, y), Starts(a, l, z)
  PROVE  k = l /\ y = z
<1>1. PICK d \in Seq(Atoms) : Doubled(d) /\ a = Underscores(k) \o (y \o d) BY DEF Starts
<1>2. PICK e \in Seq(Atoms) : Doubled(e) /\ a = Underscores(l) \o (z \o e) BY DEF Starts
<1>3. ASSUME NEW x \in Seq(Atoms), Clean(x), NEW r \in Seq(Atoms)
      PROVE  x \o r \in Seq(Atoms) /\ Len(x \o r) > 0 /\ (x \o r)[1] # Underscore
  <2>1. Len(x) \in Nat /\ Len(r) \in Nat /\ Len(x) > 0 /\ x[1] # Underscore
    BY <1>3, LenProperties DEF Clean
  <2>2. /\ x \o r \in Seq(Atoms) /\ Len(x \o r) = Len(x) + Len(r)
        /\ \A i \in 1 .. Len(x) : (x \o r)[i] = x[i]
    BY ConcatAt
  <2> QED BY <2>1, <2>2
<1>4. PICK m \in Seq(Atoms), n \in Seq(Atoms) :
        /\ m = y \o d /\ n = z \o e /\ Len(m) > 0 /\ Len(n) > 0
        /\ m[1] # Underscore /\ n[1] # Underscore
  BY <1>3
<1>5. k = l /\ m = n BY <1>1, <1>2, <1>4, UnderscoresStripped
<1>6. y \o d = z \o e BY <1>4, <1>5
<1>7. Tidy(y) /\ Tidy(z) BY DEF Clean
<1>8. y = z BY <1>1, <1>2, <1>6, <1>7, DoubleEnds DEF Doubled
<1> QED BY <1>5, <1>8

\* What is said of a path by the alias of a package below, and of one beside.
LEMMA BelowText ==
  ASSUME NamesApart, NEW b \in Seq(PackageWords), Len(b) > 0
  PROVE  /\ Joined(b, <<Underscore>>) \in Seq(Atoms)
         /\ \E q \in Seq(Atoms) : Joined(b, <<Underscore>>) = b[1] \o q
         /\ Joined(b, <<Underscore>>) \o <<Underscore>> = FlattenSeq(Coded(BelowCode, b))
<1>1. Len(b) \in Nat /\ \A i \in 1 .. Len(b) : b[i] \in PackageWords
  BY LenProperties, ElementOfSeq
<1>2. \A i \in 1 .. Len(b) : b[i] \in Seq(Atoms) BY <1>1, PackageWordPlain
<1>3. b \in Seq(Seq(Atoms)) BY <1>2, LenProperties
<1>4. 1 \in 1 .. Len(b) BY <1>1
<1>5. <<Underscore>> \in Seq(Atoms)
  <2>1. Underscore \in Atoms BY <1>1, <1>4, PackageWordPlain
  <2> QED BY <2>1
<1>6. Coded(BelowCode, b) = [i \in 1 .. Len(b) |-> b[i] \o <<Underscore>>]
  BY <1>1 DEF Coded, BelowCode
<1> DEFINE u == <<Underscore>>
<1> HIDE DEF u
<1>7. u \in Seq(Atoms) BY <1>5 DEF u
<1>8. /\ Joined(b, u) \in Seq(Atoms)
      /\ \E q \in Seq(Atoms) : Joined(b, u) = b[1] \o q
      /\ Joined(b, u) \o u = FlattenSeq([i \in 1 .. Len(b) |-> b[i] \o u])
  BY <1>3, <1>7, JoinedWithEnd
<1> QED BY <1>6, <1>8 DEF u

BesideText(b) ==
  Joined([i \in DOMAIN b |-> safe_snake_case(b[i])], Underscores(2)) \o Underscores(2)

LEMMA BesideStarts ==
  ASSUME NamesApart, NEW b \in Seq(PackageWords), Len(b) > 0
  PROVE  /\ BesideText(b) = FlattenSeq(Coded(BesideCode, b))
         /\ \E e \in Seq(Atoms) : Doubled(e) /\ BesideText(b) = snake_case(b[1]) \o e
<1> DEFINE safe == [i \in DOMAIN b |-> safe_snake_case(b[i])]
           u == Underscores(2)
           a == Coded(BesideCode, b)
<1>1. /\ Len(b) \in Nat /\ DOMAIN b = 1 .. Len(b)
      /\ \A i \in 1 .. Len(b) : b[i] \in PackageWords
  BY LenProperties, ElementOfSeq
<1>2. 1 \in 1 .. Len(b) BY <1>1
<1>3. safe \in Seq(Seq(Atoms)) /\ Len(safe) = Len(b)
  <2>1. \A i \in 1 .. Len(b) : safe_snake_case(b[i]) \in Seq(Atoms) BY <1>1, SafeSplits
  <2> QED BY <1>1, <2>1
<1>4. u \in Seq(Atoms)
  <2>1. Underscore \in Atoms BY <1>1, <1>2, PackageWordPlain
  <2> QED BY <2>1, TwoUnderscores
<1>5. a = [i \in 1 .. Len(safe) |-> safe[i] \o u] BY <1>1, <1>3 DEF Coded, BesideCode
<1> HIDE DEF safe, u
<1>6. Joined(safe, u) \o u = FlattenSeq([i \in 1 .. Len(safe) |-> safe[i] \o u])
  BY <1>3, <1>4, JoinedWithEnd
<1>7. BesideText(b) = FlattenSeq(a) BY <1>5, <1>6 DEF BesideText, safe, u
<1>8. SelfDelimiting(Atoms, PackageWords, BesideCode) BY BesideDelimits
<1>9. a \in Seq(Seq(Atoms)) /\ Len(a) = Len(b) /\ a[1] = BesideCode[b[1]]
  BY <1>2, <1>8, CodedTypes
<1> HIDE DEF a
<1>10. a # <<>> BY <1>9, EmptySeq
<1>11. PICK q \in Seq(Atoms) : FlattenSeq(a) = a[1] \o q BY <1>9, <1>10, FlattenFirst
<1> DEFINE w == b[1]
<1>12. w \in PackageWords BY <1>1, <1>2
<1> HIDE DEF w
<1>13. PICK d \in Seq(Atoms) :
         Doubled(d) /\ safe_snake_case(w) \o Underscores(2) = snake_case(w) \o d
  BY <1>12, SafeSplits
<1>14. a[1] = snake_case(w) \o d BY <1>9, <1>12, <1>13 DEF BesideCode, w
<1>15. snake_case(w) \in Seq(Atoms) BY <1>12, SnakeClean
<1>16. FlattenSeq(a) = snake_case(w) \o (d \o q)
  <2>1. FlattenSeq(a) = (snake_case(w) \o d) \o q BY <1>11, <1>14
  <2> QED BY <1>15, <2>1, AtomsAssociate
<1>17. d \o q \in Seq(Atoms) /\ Doubled(d \o q) BY <1>13, DoubledJoin
<1>18. \E e \in Seq(Atoms) : Doubled(e) /\ BesideText(b) = snake_case(b[1]) \o e
  BY <1>7, <1>16, <1>17 DEF w
<1>19. BesideText(b) = FlattenSeq(Coded(BesideCode, b)) BY <1>7 DEF a
<1> QED BY <1>18, <1>19

-----------------------------------------------------------------------------
\* The alias of a package s, or of its type t, in a package c above, below or beside it.
BelowForm(c, s, a) ==
  \E b \in Seq(PackageWords) : Len(b) > 0 /\ s = c \o b /\ a = Joined(b, <<Underscore>>)

RootForm(c, s, t, a) ==
  Len(c) > 0 /\ s = <<>> /\ a = Underscores(Len(c)) \o (t \o Underscores(2))

AboveForm(c, s, a) ==
  \E k \in 1 .. Len(c) :
    s = SubSeq(c, 1, k) /\ a = Underscores((Len(c) - k) + 1) \o (c[k] \o Underscores(2))

BesideForm(c, s, a) ==
  \E k \in 0 .. Len(c) - 1 : \E b \in Seq(PackageWords) :
    /\ Len(b) > 0 /\ s = SubSeq(c, 1, k) \o b /\ b[1] # c[k + 1]
    /\ a = Underscores(Len(c) - k) \o BesideText(b)

AheadForm(c, s, t, a) == RootForm(c, s, t, a) \/ AboveForm(c, s, a) \/ BesideForm(c, s, a)

\* The name of a class, and a word of a package as it is and in snake case, are clean.
LEMMA CleanNames ==
  ASSUME NamesApart
  PROVE  /\ \A t \in ClassNames : t \in Seq(Atoms) /\ Clean(t) /\ Plain(t)
         /\ \A w \in PackageWords : w \in Seq(Atoms) /\ Clean(w) /\ Plain(w)
<1>1. ASSUME NEW x \in Seq(Atoms), Plain(x), Len(x) > 0 PROVE Clean(x)
  <2>1. 1 \in 1 .. Len(x) BY <1>1, LenProperties
  <2>2. x[1] # Underscore BY <1>1, <2>1 DEF Plain
  <2> QED BY <1>1, <2>2, PlainIsTidy DEF Clean
<1>2. ASSUME NEW t \in ClassNames PROVE t \in Seq(Atoms) /\ Plain(t) /\ Len(t) > 0
  <2>1. t \in Seq(Atoms) /\ Plain(t) BY ClassPlain DEF ClassNames
  <2>2. t # <<>> BY DEF NamesApart
  <2>3. Len(t) \in Nat \ {0} BY <2>1, <2>2, EmptySeq
  <2> QED BY <2>1, <2>3
<1>3. \A w \in PackageWords : w \in Seq(Atoms) /\ Plain(w) /\ Len(w) > 0
  BY PackageWordPlain
<1> QED BY <1>1, <1>2, <1>3

\* What an alias starts with: a word, or underscores, and then the name of a class, the
\* last word of an ancestor, or the first of a cousin that the two do not share.
LEMMA AheadStarts ==
  ASSUME NamesApart, Underscore \in Atoms, NEW c \in Seq(PackageWords),
         NEW s, NEW t \in ClassNames, NEW a
  PROVE  /\ RootForm(c, s, t, a) => Starts(a, Len(c), t)
         /\ \A k \in 1 .. Len(c) :
              a = Underscores((Len(c) - k) + 1) \o (c[k] \o Underscores(2)) =>
                Starts(a, (Len(c) - k) + 1, c[k])
         /\ \A k \in 0 .. Len(c) - 1 : \A b \in Seq(PackageWords) :
              Len(b) > 0 /\ a = Underscores(Len(c) - k) \o BesideText(b) =>
                Starts(a, Len(c) - k, snake_case(b[1]))
<1>1. Underscores(2) \in Seq(Atoms) /\ Doubled(Underscores(2)) BY TwoUnderscores
<1>2. RootForm(c, s, t, a) => Starts(a, Len(c), t) BY <1>1 DEF RootForm, Starts
<1>3. \A k \in 1 .. Len(c) :
        a = Underscores((Len(c) - k) + 1) \o (c[k] \o Underscores(2)) =>
          Starts(a, (Len(c) - k) + 1, c[k])
  BY <1>1 DEF Starts
<1>4. ASSUME NEW k \in 0 .. Len(c) - 1, NEW b \in Seq(PackageWords), Len(b) > 0,
             a = Underscores(Len(c) - k) \o BesideText(b)
      PROVE  Starts(a, Len(c) - k, snake_case(b[1]))
  <2>1. PICK e \in Seq(Atoms) : Doubled(e) /\ BesideText(b) = snake_case(b[1]) \o e
    BY <1>4, BesideStarts
  <2> QED BY <1>4, <2>1 DEF Starts
<1> QED BY <1>2, <1>3, <1>4

\* A class of the package without a name is told from everything else.
LEMMA RootTells ==
  ASSUME NamesApart, NEW c \in Seq(PackageWords), NEW t \in ClassNames, NEW t2 \in ClassNames,
         NEW s, NEW s2, NEW a, RootForm(c, s, t, a), AheadForm(c, s2, t2, a)
  PROVE  s2 = s /\ t2 = t
<1>0. Underscore \in Atoms BY DEF Atoms
<1>1. Len(c) \in Nat BY LenProperties
<1>2. Starts(a, Len(c), t) BY <1>0, AheadStarts
<1>3. t \in Seq(Atoms) /\ Clean(t) /\ t2 \in Seq(Atoms) /\ Clean(t2) BY CleanNames
<1>4. CASE RootForm(c, s2, t2, a)
  <2>1. Starts(a, Len(c), t2) BY <1>0, <1>4, AheadStarts
  <2>2. t = t2 BY <1>0, <1>1, <1>2, <1>3, <2>1, StartsApart
  <2> QED BY <1>4, <2>2 DEF RootForm
<1>5. CASE AboveForm(c, s2, a)
  <2>1. PICK k \in 1 .. Len(c) : a = Underscores((Len(c) - k) + 1) \o (c[k] \o Underscores(2))
    BY <1>5 DEF AboveForm
  <2>2. Starts(a, (Len(c) - k) + 1, c[k]) BY <1>0, <2>1, AheadStarts
  <2>3. c[k] \in PackageWords BY <1>1, ElementOfSeq
  <2>4. c[k] \in Seq(Atoms) /\ Clean(c[k]) BY <2>3, CleanNames
  <2>5. (Len(c) - k) + 1 \in Nat BY <1>1
  <2>6. t = c[k] BY <1>0, <1>1, <1>2, <1>3, <2>2, <2>4, <2>5, StartsApart
  <2> QED BY <2>3, <2>6 DEF NamesApart
<1>6. CASE BesideForm(c, s2, a)
  <2>1. PICK k \in 0 .. Len(c) - 1, b \in Seq(PackageWords) :
          Len(b) > 0 /\ a = Underscores(Len(c) - k) \o BesideText(b)
    BY <1>6 DEF BesideForm
  <2>2. Starts(a, Len(c) - k, snake_case(b[1])) BY <1>0, <2>1, AheadStarts
  <2>3. 1 \in 1 .. Len(b) BY <2>1, LenProperties
  <2>4. b[1] \in PackageWords BY <2>3, ElementOfSeq
  <2>5. snake_case(b[1]) \in Seq(Atoms) /\ Clean(snake_case(b[1])) BY <2>4, SnakeClean
  <2>6. Len(c) - k \in Nat BY <1>1
  <2>7. t = snake_case(b[1]) BY <1>0, <1>1, <1>2, <1>3, <2>2, <2>5, <2>6, StartsApart
  <2> QED BY <2>4, <2>7 DEF NamesApart
<1> QED BY <1>4, <1>5, <1>6 DEF AheadForm

\* An ancestor is told from other ancestors, and from cousins.
LEMMA AboveTells ==
  ASSUME NamesApart, NEW c \in Seq(PackageWords), NEW s, NEW s2, NEW a,
         AboveForm(c, s, a), AboveForm(c, s2, a) \/ BesideForm(c, s2, a)
  PROVE  s2 = s
<1>0. Underscore \in Atoms BY DEF Atoms
<1>1. Len(c) \in Nat BY LenProperties
<1>2. PICK k \in 1 .. Len(c) :
        s = SubSeq(c, 1, k) /\ a = Underscores((Len(c) - k) + 1) \o (c[k] \o Underscores(2))
  BY DEF AboveForm
<1>3. /\ c[k] \in PackageWords /\ c[k] \in Seq(Atoms) /\ Clean(c[k])
      /\ (Len(c) - k) + 1 \in Nat
  <2>1. c[k] \in PackageWords BY <1>1, ElementOfSeq
  <2> QED BY <1>1, <2>1, CleanNames
<1>4. Starts(a, (Len(c) - k) + 1, c[k])
  <2> DEFINE y == c[k]
  <2>1. Underscores(2) \in Seq(Atoms) /\ Doubled(Underscores(2)) BY <1>0, TwoUnderscores
  <2> QED BY <1>2, <2>1 DEF Starts
<1>5. CASE AboveForm(c, s2, a)
  <2>1. PICK l \in 1 .. Len(c) :
          s2 = SubSeq(c, 1, l) /\ a = Underscores((Len(c) - l) + 1) \o (c[l] \o Underscores(2))
    BY <1>5 DEF AboveForm
  <2>2. c[l] \in Seq(Atoms) /\ Clean(c[l]) /\ (Len(c) - l) + 1 \in Nat
    <3>1. c[l] \in PackageWords BY <1>1, ElementOfSeq
    <3> QED BY <1>1, <3>1, CleanNames
  <2>3. Underscores(2) \in Seq(Atoms) /\ Doubled(Underscores(2)) BY <1>0, TwoUnderscores
  <2>4. Starts(a, (Len(c) - l) + 1, c[l]) BY <2>1, <2>3 DEF Starts
  <2>5. (Len(c) - k) + 1 = (Len(c) - l) + 1
    BY <1>0, <1>3, <1>4, <2>2, <2>4, StartsApart
  <2>6. k = l BY <1>1, <2>5
  <2> QED BY <1>2, <2>1, <2>6
<1>6. CASE BesideForm(c, s2, a)
  <2>1. PICK l \in 0 .. Len(c) - 1, b \in Seq(PackageWords) :
          Len(b) > 0 /\ b[1] # c[l + 1] /\ a = Underscores(Len(c) - l) \o BesideText(b)
    BY <1>6 DEF BesideForm
  <2>2. PICK e \in Seq(Atoms) : Doubled(e) /\ BesideText(b) = snake_case(b[1]) \o e
    BY <2>1, BesideStarts
  <2>3. Starts(a, Len(c) - l, snake_case(b[1])) BY <2>1, <2>2 DEF Starts
  <2>4. 1 \in 1 .. Len(b) BY <2>1, LenProperties
  <2>5. b[1] \in PackageWords BY <2>4, ElementOfSeq
  <2>6. /\ snake_case(b[1]) \in Seq(Atoms) /\ Clean(snake_case(b[1]))
        /\ Len(c) - l \in Nat
    BY <1>1, <2>5, SnakeClean
  <2>7. (Len(c) - k) + 1 = Len(c) - l /\ c[k] = snake_case(b[1])
    <3> DEFINE x == c[k]
               y == snake_case(b[1])
    <3>1. x \in Seq(Atoms) /\ Clean(x) /\ Starts(a, (Len(c) - k) + 1, x) BY <1>3, <1>4
    <3>2. y \in Seq(Atoms) /\ Clean(y) /\ Starts(a, Len(c) - l, y) BY <2>3, <2>6
    <3> HIDE DEF x, y
    <3>3. (Len(c) - k) + 1 = Len(c) - l /\ x = y
      BY <1>0, <1>3, <2>6, <3>1, <3>2, StartsApart
    <3> QED BY <3>3 DEF x, y
  <2>8. k = l + 1 BY <1>1, <2>7
  <2> QED BY <1>3, <2>1, <2>5, <2>7, <2>8 DEF NamesApart
<1> QED BY <1>5, <1>6

\* A cousin is told from other cousins.
LEMMA BesideTells ==
  ASSUME NamesApart, NEW c \in Seq(PackageWords), NEW s, NEW s2, NEW a,
         BesideForm(c, s, a), BesideForm(c, s2, a)
  PROVE  s2 = s
<1>0. Underscore \in Atoms BY DEF Atoms
<1>1. Len(c) \in Nat BY LenProperties
<1>2. PICK k \in 0 .. Len(c) - 1, b \in Seq(PackageWords) :
        Len(b) > 0 /\ s = SubSeq(c, 1, k) \o b /\ a = Underscores(Len(c) - k) \o BesideText(b)
  BY DEF BesideForm
<1>3. PICK l \in 0 .. Len(c) - 1, d \in Seq(PackageWords) :
        Len(d) > 0 /\ s2 = SubSeq(c, 1, l) \o d /\ a = Underscores(Len(c) - l) \o BesideText(d)
  BY DEF BesideForm
<1>4. ASSUME NEW x \in Seq(PackageWords), Len(x) > 0
      PROVE  /\ snake_case(x[1]) \in Seq(Atoms) /\ Clean(snake_case(x[1]))
             /\ BesideText(x) \in Seq(Atoms)
             /\ BesideText(x) = FlattenSeq(Coded(BesideCode, x))
             /\ \E e \in Seq(Atoms) : Doubled(e) /\ BesideText(x) = snake_case(x[1]) \o e
  <2>1. 1 \in 1 .. Len(x) BY <1>4, LenProperties
  <2>2. x[1] \in PackageWords BY <2>1, ElementOfSeq
  <2>3. snake_case(x[1]) \in Seq(Atoms) /\ Clean(snake_case(x[1])) BY <2>2, SnakeClean
  <2>4. PICK e \in Seq(Atoms) : Doubled(e) /\ BesideText(x) = snake_case(x[1]) \o e
    BY <1>4, BesideStarts
  <2>5. snake_case(x[1]) \o e \in Seq(Atoms) BY <2>3, ConcatProperties
  <2>6. BesideText(x) = FlattenSeq(Coded(BesideCode, x)) BY <1>4, BesideStarts
  <2> QED BY <2>3, <2>4, <2>5, <2>6
<1>5. /\ Starts(a, Len(c) - k, snake_case(b[1]))
      /\ snake_case(b[1]) \in Seq(Atoms) /\ Clean(snake_case(b[1])) /\ Len(c) - k \in Nat
  <2>1. PICK e \in Seq(Atoms) : Doubled(e) /\ BesideText(b) = snake_case(b[1]) \o e
    BY <1>2, <1>4
  <2>2. a = Underscores(Len(c) - k) \o (snake_case(b[1]) \o e) BY <1>2, <2>1
  <2>3. Starts(a, Len(c) - k, snake_case(b[1])) BY <2>1, <2>2 DEF Starts
  <2>4. Len(c) - k \in Nat BY <1>1
  <2> QED BY <1>2, <1>4, <2>3, <2>4
<1>6. /\ Starts(a, Len(c) - l, snake_case(d[1]))
      /\ snake_case(d[1]) \in Seq(Atoms) /\ Clean(snake_case(d[1])) /\ Len(c) - l \in Nat
  <2>1. PICK e \in Seq(Atoms) : Doubled(e) /\ BesideText(d) = snake_case(d[1]) \o e
    BY <1>3, <1>4
  <2>2. a = Underscores(Len(c) - l) \o (snake_case(d[1]) \o e) BY <1>3, <2>1
  <2>3. Starts(a, Len(c) - l, snake_case(d[1])) BY <2>1, <2>2 DEF Starts
  <2>4. Len(c) - l \in Nat BY <1>1
  <2> QED BY <1>3, <1>4, <2>3, <2>4
<1>7. Len(c) - k = Len(c) - l BY <1>0, <1>5, <1>6, StartsApart
<1>8. k = l BY <1>1, <1>7
<1>9. BesideText(b) = BesideText(d)
  <2> DEFINE u == Underscores(Len(c) - k)
             x == BesideText(b)
             y == BesideText(d)
  <2>1. x \in Seq(Atoms) /\ y \in Seq(Atoms) BY <1>2, <1>3, <1>4
  <2>2. u \in Seq(Atoms) BY <1>0, <1>5, UnderscoreRun
  <2>3. u \o x = u \o y BY <1>2, <1>3, <1>8
  <2> HIDE DEF u, x, y
  <2>4. x = y BY <2>1, <2>2, <2>3, SameLength
  <2> QED BY <2>4 DEF x, y
<1>10. FlattenSeq(Coded(BesideCode, b)) = FlattenSeq(Coded(BesideCode, d))
  BY <1>2, <1>3, <1>4, <1>9
<1>11. SelfDelimiting(Atoms, PackageWords, BesideCode) BY BesideDelimits
<1>12. b = d BY <1>2, <1>3, <1>10, <1>11, Decoded
<1> QED BY <1>2, <1>3, <1>8, <1>12

\* The alias of what is ahead starts with an underscore, and that of what is below does not.
LEMMA AheadText ==
  ASSUME NamesApart, NEW c \in Seq(PackageWords), NEW t \in ClassNames, NEW s, NEW a,
         AheadForm(c, s, t, a)
  PROVE  a \in Seq(Atoms) /\ Len(a) > 0 /\ a[1] = Underscore
<1>0. Underscore \in Atoms /\ Len(c) \in Nat BY LenProperties DEF Atoms
<1>1. ASSUME NEW k \in Nat, k > 0, NEW y \in Seq(Atoms), a = Underscores(k) \o y
      PROVE  a \in Seq(Atoms) /\ Len(a) > 0 /\ a[1] = Underscore
  <2>1. /\ Underscores(k) \in Seq(Atoms) /\ Len(Underscores(k)) = k
        /\ \A i \in 1 .. k : Underscores(k)[i] = Underscore
    BY <1>0, UnderscoreRun
  <2> DEFINE u == Underscores(k)
  <2>2. a = u \o y /\ u \in Seq(Atoms) /\ Len(u) = k /\ \A i \in 1 .. k : u[i] = Underscore
    BY <1>1, <2>1
  <2> HIDE DEF u
  <2>3. /\ u \o y \in Seq(Atoms) /\ Len(u \o y) = Len(u) + Len(y)
        /\ \A i \in 1 .. Len(u) : (u \o y)[i] = u[i]
    BY <2>2, ConcatAt
  <2>4. 1 \in 1 .. k /\ Len(y) \in Nat BY <1>1, LenProperties
  <2> QED BY <2>2, <2>3, <2>4
<1>2. Underscores(2) \in Seq(Atoms) BY <1>0, TwoUnderscores
<1>3. CASE RootForm(c, s, t, a)
  <2>1. Len(c) > 0 /\ a = Underscores(Len(c)) \o (t \o Underscores(2)) BY <1>3 DEF RootForm
  <2>2. t \in Seq(Atoms) BY CleanNames
  <2>3. t \o Underscores(2) \in Seq(Atoms) BY <1>2, <2>2, ConcatProperties
  <2> QED BY <1>0, <1>1, <2>1, <2>3
<1>4. CASE AboveForm(c, s, a)
  <2>1. PICK k \in 1 .. Len(c) : a = Underscores((Len(c) - k) + 1) \o (c[k] \o Underscores(2))
    BY <1>4 DEF AboveForm
  <2>2. c[k] \in PackageWords BY <1>0, ElementOfSeq
  <2>3. c[k] \in Seq(Atoms) BY <2>2, CleanNames
  <2>4. c[k] \o Underscores(2) \in Seq(Atoms) BY <1>2, <2>3, ConcatProperties
  <2>5. (Len(c) - k) + 1 \in Nat /\ (Len(c) - k) + 1 > 0 BY <1>0
  <2> QED BY <1>1, <2>1, <2>4, <2>5
<1>5. CASE BesideForm(c, s, a)
  <2>1. PICK k \in 0 .. Len(c) - 1, d \in Seq(PackageWords) :
          Len(d) > 0 /\ a = Underscores(Len(c) - k) \o BesideText(d)
    BY <1>5 DEF BesideForm
  <2>2. PICK e \in Seq(Atoms) : BesideText(d) = snake_case(d[1]) \o e BY <2>1, BesideStarts
  <2>3. 1 \in 1 .. Len(d) BY <2>1, LenProperties
  <2>4. d[1] \in PackageWords BY <2>3, ElementOfSeq
  <2>5. snake_case(d[1]) \in Seq(Atoms) BY <2>4, SnakeClean
  <2>6. BesideText(d) \in Seq(Atoms) BY <2>2, <2>5, ConcatProperties
  <2>7. Len(c) - k \in Nat /\ Len(c) - k > 0 BY <1>0
  <2> QED BY <1>1, <2>1, <2>6, <2>7
<1> QED BY <1>3, <1>4, <1>5 DEF AheadForm

LEMMA BelowFirst ==
  ASSUME NamesApart, NEW c \in Seq(PackageWords), NEW s, NEW a, BelowForm(c, s, a)
  PROVE  a \in Seq(Atoms) /\ a[1] # Underscore /\ (Plain(a) => a \in PackageWords)
<1>1. PICK b \in Seq(PackageWords) : Len(b) > 0 /\ a = Joined(b, <<Underscore>>)
  BY DEF BelowForm
<1> DEFINE w == b[1]
           one == <<Underscore>>
<1>2. w \in PackageWords /\ w \in Seq(Atoms) /\ Clean(w) /\ Plain(w)
  <2>1. 1 \in 1 .. Len(b) BY <1>1, LenProperties
  <2>2. b[1] \in PackageWords BY <2>1, ElementOfSeq
  <2> QED BY <2>2, CleanNames
<1>3. a \in Seq(Atoms) BY <1>1, BelowText
<1>4. PICK q \in Seq(Atoms) : a = w \o q BY <1>1, BelowText
<1>5. one \in Seq(Atoms) /\ Len(one) = 1 /\ one[1] = Underscore
  <2>1. Underscore \in Atoms BY DEF Atoms
  <2> QED BY <2>1
<1>6. PICK r \in Seq(Atoms) : a \o one = (w \o one) \o r
  <2> DEFINE seqs == Coded(BelowCode, b)
  <2>1. SelfDelimiting(Atoms, PackageWords, BelowCode) BY BelowDelimits
  <2>2. 1 \in 1 .. Len(b) BY <1>1, LenProperties
  <2>3. seqs \in Seq(Seq(Atoms)) /\ Len(seqs) = Len(b) /\ seqs[1] = BelowCode[w]
    BY <2>1, <2>2, CodedTypes
  <2>4. a \o one = FlattenSeq(seqs) BY <1>1, BelowText
  <2>5. BelowCode[w] = w \o one BY <1>2 DEF BelowCode
  <2> HIDE DEF seqs, w, one
  <2>6. seqs # <<>> BY <1>1, <2>3, EmptySeq
  <2>7. PICK r \in Seq(Atoms) : FlattenSeq(seqs) = seqs[1] \o r BY <2>3, <2>6, FlattenFirst
  <2> QED BY <2>3, <2>4, <2>5, <2>7
<1> HIDE DEF w, one
<1>7. a[1] # Underscore
  <2>1. 1 \in 1 .. Len(w) /\ w[1] # Underscore BY <1>2, LenProperties DEF Clean
  <2>2. \A i \in 1 .. Len(w) : (w \o q)[i] = w[i] BY <1>2, ConcatAt
  <2> QED BY <1>4, <2>1, <2>2
<1>8. ASSUME Plain(a) PROVE a \in PackageWords
  <2>2. a \o one = w \o (one \o r) BY <1>2, <1>5, <1>6, AtomsAssociate
  <2>3. /\ one \o r \in Seq(Atoms) /\ Len(one \o r) = Len(one) + Len(r)
        /\ \A i \in 1 .. Len(one) : (one \o r)[i] = one[i]
    BY <1>5, ConcatAt
  <2>4. Len(one \o r) > 0 /\ (one \o r)[1] = Underscore
    <3>1. Len(r) \in Nat /\ 1 \in 1 .. Len(one) BY <1>5, LenProperties
    <3> QED BY <1>5, <2>3, <3>1
  <2>5. Len(one) > 0 BY <1>5
  <2>6. a = w BY <1>2, <1>3, <1>5, <1>8, <2>2, <2>3, <2>4, <2>5, SingleEnds
  <2> QED BY <1>2, <2>6
<1> QED BY <1>3, <1>7, <1>8

\* A package below is told from other packages below.
LEMMA BelowTells ==
  ASSUME NamesApart, NEW c \in Seq(PackageWords), NEW s, NEW s2, NEW a,
         BelowForm(c, s, a), BelowForm(c, s2, a)
  PROVE  s2 = s
<1>1. PICK b \in Seq(PackageWords) : Len(b) > 0 /\ s = c \o b /\ a = Joined(b, <<Underscore>>)
  BY DEF BelowForm
<1>2. PICK d \in Seq(PackageWords) : Len(d) > 0 /\ s2 = c \o d /\ a = Joined(d, <<Underscore>>)
  BY DEF BelowForm
<1>3. SelfDelimiting(Atoms, PackageWords, BelowCode) BY BelowDelimits
<1>4. /\ a \o <<Underscore>> = FlattenSeq(Coded(BelowCode, b))
      /\ a \o <<Underscore>> = FlattenSeq(Coded(BelowCode, d))
  BY <1>1, <1>2, BelowText
<1>5. b = d BY <1>1, <1>2, <1>3, <1>4, Decoded
<1> QED BY <1>1, <1>2, <1>5

AliasForm(c, s, t, a) == BelowForm(c, s, a) \/ AheadForm(c, s, t, a)

\* The name of a package is empty only if it is the one without a name.
LEMMA RootAlone ==
  ASSUME NEW c \in Seq(PackageWords), NEW t, NEW a, AliasForm(c, <<>>, t, a)
  PROVE  RootForm(c, <<>>, t, a)
<1>0. Len(c) \in Nat /\ Len(<<>>) = 0 BY LenProperties
<1>1. ASSUME NEW x \in Seq(PackageWords), NEW b \in Seq(PackageWords), Len(b) > 0
      PROVE  x \o b # <<>>
  <2>1. Len(x \o b) = Len(x) + Len(b) /\ Len(x) \in Nat /\ Len(b) \in Nat
    BY ConcatProperties, LenProperties
  <2> QED BY <1>0, <1>1, <2>1
<1>2. ASSUME NEW k \in 0 .. Len(c)
      PROVE  SubSeq(c, 1, k) \in Seq(PackageWords) /\ Len(SubSeq(c, 1, k)) = k
  <2>1. \A i \in 1 .. k : c[i] \in PackageWords BY <1>0, ElementOfSeq
  <2> QED BY <1>0, <2>1, SubSeqProperties
<1>3. ~ BelowForm(c, <<>>, a) BY <1>1 DEF BelowForm
<1>4. ~ AboveForm(c, <<>>, a)
  <2>1. ASSUME NEW k \in 1 .. Len(c) PROVE SubSeq(c, 1, k) # <<>>
    <3>1. k \in 0 .. Len(c) /\ k # 0 BY <1>0
    <3> QED BY <1>0, <1>2, <3>1
  <2> QED BY <2>1 DEF AboveForm
<1>5. ~ BesideForm(c, <<>>, a)
  <2>1. ASSUME NEW k \in 0 .. Len(c) - 1, NEW b \in Seq(PackageWords), Len(b) > 0
        PROVE  SubSeq(c, 1, k) \o b # <<>>
    <3>1. k \in 0 .. Len(c) BY <1>0
    <3> QED BY <1>1, <1>2, <2>1, <3>1
  <2> QED BY <2>1 DEF BesideForm
<1> QED BY <1>3, <1>4, <1>5 DEF AliasForm, AheadForm

\* No two packages have the same alias in a package, nor have two types of the package
\* without a name.  No class and nothing in the header has the name of an alias.
LEMMA AliasTells ==
  ASSUME NamesApart, NEW c \in Seq(PackageWords), NEW t \in ClassNames, NEW t2 \in ClassNames,
         NEW s, NEW s2, NEW a, AliasForm(c, s, t, a), AliasForm(c, s2, t2, a)
  PROVE  /\ s2 = s
         /\ s = <<>> => t2 = t
         /\ a \notin ClassNames /\ a \notin HeaderNames
<1>1. BelowForm(c, s, a) => a[1] # Underscore /\ ~ AheadForm(c, s2, t2, a)
  BY BelowFirst, AheadText
<1>2. BelowForm(c, s2, a) => a[1] # Underscore /\ ~ AheadForm(c, s, t, a)
  BY BelowFirst, AheadText
<1>3. s2 = s
  <2>1. CASE BelowForm(c, s, a) BY <1>1, <2>1, BelowTells DEF AliasForm
  <2>2. CASE ~ BelowForm(c, s, a)
    <3>1. AheadForm(c, s, t, a) /\ AheadForm(c, s2, t2, a) BY <1>2, <2>2 DEF AliasForm
    <3>2. CASE RootForm(c, s, t, a) BY <3>1, <3>2, RootTells
    <3>3. CASE RootForm(c, s2, t2, a) BY <3>1, <3>3, RootTells
    <3>4. CASE AboveForm(c, s, a) /\ (AboveForm(c, s2, a) \/ BesideForm(c, s2, a))
      BY <3>4, AboveTells
    <3>5. CASE AboveForm(c, s2, a) /\ BesideForm(c, s, a) BY <3>5, AboveTells
    <3>6. CASE BesideForm(c, s, a) /\ BesideForm(c, s2, a) BY <3>6, BesideTells
    <3> QED BY <3>1, <3>2, <3>3, <3>4, <3>5, <3>6 DEF AheadForm
  <2> QED BY <2>1, <2>2
<1>4. ASSUME s = <<>> PROVE t2 = t
  <2>1. RootForm(c, s, t, a) /\ RootForm(c, s2, t2, a) BY <1>3, <1>4, RootAlone
  <2> QED BY <2>1, RootTells DEF AheadForm
<1>5. a \in Seq(Atoms) /\ (Plain(a) => a \in PackageWords)
  <2>1. CASE BelowForm(c, s, a) BY <2>1, BelowFirst
  <2>2. CASE AheadForm(c, s, t, a)
    <3>1. a \in Seq(Atoms) /\ Len(a) > 0 /\ a[1] = Underscore BY <2>2, AheadText
    <3>2. 1 \in 1 .. Len(a) BY <3>1, LenProperties
    <3> QED BY <3>1, <3>2 DEF Plain
  <2> QED BY <2>1, <2>2 DEF AliasForm
<1>6. a \notin ClassNames
  <2>1. \A n \in ClassNames : Plain(n) /\ n \notin PackageWords BY CleanNames DEF NamesApart
  <2> QED BY <1>5, <2>1
<1>7. a \notin HeaderNames
  <2> SUFFICES ASSUME a \in HeaderNames PROVE FALSE OBVIOUS
  <2>1. \A i \in DOMAIN a : a[i] \in Atoms BY <1>5, ElementOfSeq, LenProperties
  <2>2. Range(a) \subseteq Atoms BY <2>1 DEF Range
  <2>3. a \notin PackageWords /\ ~ Contains(a, Underscore) BY <2>2 DEF NamesApart
  <2>4. Plain(a) BY <2>3 DEF Contains, Plain
  <2> QED BY <1>5, <2>3, <2>4
<1> QED BY <1>3, <1>4, <1>6, <1>7

-----------------------------------------------------------------------------
\* A sequence is what comes first and what is left.
LEMMA SplitAt ==
  ASSUME NEW S, NEW s \in Seq(S), NEW k \in 0 .. Len(s)
  PROVE  /\ SubSeq(s, 1, k) \in Seq(S) /\ Len(SubSeq(s, 1, k)) = k
         /\ \A i \in 1 .. k : SubSeq(s, 1, k)[i] = s[i]
         /\ SubSeq(s, k + 1, Len(s)) \in Seq(S) /\ Len(SubSeq(s, k + 1, Len(s))) = Len(s) - k
         /\ k < Len(s) => SubSeq(s, k + 1, Len(s))[1] = s[k + 1]
         /\ s = SubSeq(s, 1, k) \o SubSeq(s, k + 1, Len(s))
<1>1. Len(s) \in Nat /\ \A i \in 1 .. Len(s) : s[i] \in S BY LenProperties, ElementOfSeq
<1>2. /\ SubSeq(s, 1, k) \in Seq(S) /\ Len(SubSeq(s, 1, k)) = k
      /\ \A i \in 1 .. k : SubSeq(s, 1, k)[i] = s[i]
  <2>1. \A i \in 1 .. k : s[i] \in S BY <1>1
  <2> QED BY <2>1, SubSeqProperties
<1>3. /\ SubSeq(s, k + 1, Len(s)) \in Seq(S) /\ Len(SubSeq(s, k + 1, Len(s))) = Len(s) - k
      /\ k < Len(s) => SubSeq(s, k + 1, Len(s))[1] = s[k + 1]
  <2>1. \A i \in k + 1 .. Len(s) : s[i] \in S BY <1>1
  <2> QED BY <1>1, <2>1, SubSeqProperties
<1>4. s = SubSeq(s, 1, k) \o SubSeq(s, k + 1, Len(s))
  <2>1. 1 \in 1 .. Len(s) + 1 /\ k \in 1 - 1 .. Len(s) /\ Len(s) \in k .. Len(s) BY <1>1
  <2>2. SubSeq(s, 1, k) \o SubSeq(s, k + 1, Len(s)) = SubSeq(s, 1, Len(s))
    BY <2>1, ConcatAdjacentSubSeq
  <2> QED BY <2>2, SubSeqFull
<1> QED BY <1>2, <1>3, <1>4

\* What stands ahead of a path, with all of the path but its last word, and that word.
LEMMA FrontAndLast ==
  ASSUME NEW S, NEW x \in Seq(S), NEW b \in Seq(S), Len(b) > 0
  PROVE  /\ Last(b) \in S /\ x \o Front(b) \in Seq(S)
         /\ Append(x \o Front(b), Last(b)) = x \o b
<1>1. Len(b) \in Nat /\ Len(b) \in 1 .. Len(b) /\ Len(b) - 1 \in 0 .. Len(b)
  BY LenProperties
<1>2. Last(b) \in S BY <1>1, ElementOfSeq DEF Last
<1>3. Front(b) \in Seq(S) BY <1>1, SplitAt DEF Front
<1>4. b = Front(b) \o <<Last(b)>>
  <2>1. SubSeq(b, 1, Len(b)) = SubSeq(b, 1, Len(b) - 1) \o <<b[Len(b)]>>
    <3>1. 1 \in 1 .. Len(b) /\ Len(b) \in 1 .. Len(b) BY <1>1
    <3> QED BY <3>1, SubSeqRecursiveSecond
  <2> QED BY <2>1, SubSeqFull DEF Front, Last
<1> DEFINE f == Front(b)
           l == Last(b)
<1>5. f \in Seq(S) /\ l \in S /\ b = f \o <<l>> BY <1>2, <1>3, <1>4
<1> HIDE DEF f, l
<1>6. x \o f \in Seq(S) /\ <<l>> \in Seq(S) BY <1>5, ConcatProperties
<1>7. Append(x \o f, l) = (x \o f) \o <<l>> BY <1>5, <1>6, AppendIsConcat
<1>8. (x \o f) \o <<l>> = x \o (f \o <<l>>) BY <1>5, <1>6, ConcatAssociative
<1> QED BY <1>5, <1>6, <1>7, <1>8 DEF f, l

\* Where an import of a reference from package c to a type of package s leads: to the
\* package, or, if it has no name, to the class of the type.
Origin(c, i) == SubSeq(c, 1, Len(c) - (i.up - 1)) \o i.path

Leads(c, s, t, i, e) ==
  /\ s = <<>> => Origin(c, i) = <<>> /\ i.name = t /\ e = Class(i.alias)
  /\ s # <<>> => /\ Origin(c, i) \in Seq(PackageWords) /\ i.name \in PackageWords
                 /\ Append(Origin(c, i), i.name) = s /\ e = Attribute(i.alias, t)

Led(c, s, t, r) ==
  \E i : r.import = {i} /\ AliasForm(c, s, t, i.alias) /\ Leads(c, s, t, i, r.expression)

LEMMA DescendentLed ==
  ASSUME NEW c \in Seq(PackageWords), NEW s \in Seq(PackageWords), NEW t,
         s # c, IsPrefix(c, s)
  PROVE  Led(c, s, t, reference_descendent(c, s, t))
<1> DEFINE b == SubSeq(s, Len(c) + 1, Len(s))
           i == [up |-> 1, path |-> Front(b), name |-> Last(b),
                 alias |-> Joined(b, <<Underscore>>)]
           r == reference_descendent(c, s, t)
<1>1. Len(c) \in Nat /\ Len(s) \in Nat BY LenProperties
<1>2. Len(c) <= Len(s) /\ SubSeq(s, 1, Len(c)) = c
  <2>1. SubSeq(c, 1, Len(c)) = c BY SubSeqFull
  <2> QED BY <2>1 DEF IsPrefix
<1>3. Len(c) \in 0 .. Len(s) BY <1>1, <1>2
<1>4. b \in Seq(PackageWords) /\ Len(b) = Len(s) - Len(c) /\ s = c \o b
  BY <1>2, <1>3, SplitAt
<1>5. Len(b) > 0
  <2>1. Len(c) # Len(s)
    <3>1. SubSeq(s, 1, Len(s)) = s BY SubSeqFull
    <3> QED BY <1>2, <3>1
  <2>2. Len(c) <= Len(s) BY <1>2
  <2>3. Len(b) = Len(s) - Len(c) BY <1>4
  <2> HIDE DEF b
  <2> QED BY <1>1, <2>1, <2>2, <2>3
<1>6. r.import = {i} /\ r.expression = Attribute(i.alias, t) BY DEF reference_descendent
<1>7. AliasForm(c, s, t, i.alias) BY <1>4, <1>5 DEF AliasForm, BelowForm
<1>8. Origin(c, i) = c \o Front(b)
  <2>1. Len(c) - (i.up - 1) = Len(c) BY <1>1
  <2>2. SubSeq(c, 1, Len(c)) = c BY SubSeqFull
  <2> QED BY <2>1, <2>2 DEF Origin
<1>9. Last(b) \in PackageWords /\ c \o Front(b) \in Seq(PackageWords)
      /\ Append(c \o Front(b), Last(b)) = s
  <2> HIDE DEF b
  <2> QED BY <1>4, <1>5, FrontAndLast
<1>10. s # <<>>
  <2>1. Len(s) # 0 BY <1>1, <1>4, <1>5
  <2> QED BY <2>1
<1>11. Leads(c, s, t, i, r.expression)
  <2>1. i.name = Last(b) OBVIOUS
  <2> HIDE DEF i, r, b
  <2> QED BY <1>6, <1>8, <1>9, <1>10, <2>1 DEF Leads
<1> HIDE DEF i, r
<1>12. Led(c, s, t, r) BY <1>6, <1>7, <1>11 DEF Led
<1> QED BY <1>12 DEF r

LEMMA AncestorLed ==
  ASSUME NamesApart, NEW c \in Seq(PackageWords), NEW s \in Seq(PackageWords),
         NEW t \in ClassNames, s # c, IsPrefix(s, c)
  PROVE  Led(c, s, t, reference_ancestor(c, s, t))
<1>0. /\ Len(c) \in Nat /\ Len(s) \in Nat /\ Underscore \in Atoms
      /\ Underscores(2) \in Seq(Atoms) /\ t \in Seq(Atoms)
      /\ \A k \in Nat : Underscores(k) \in Seq(Atoms)
  <2>1. Underscore \in Atoms BY DEF Atoms
  <2>2. \A k \in Nat : Underscores(k) \in Seq(Atoms) BY <2>1, UnderscoreRun
  <2> QED BY <2>1, <2>2, LenProperties, CleanNames
<1>1. Len(s) < Len(c) /\ s = SubSeq(c, 1, Len(s))
  <2>1. SubSeq(s, 1, Len(s)) = s /\ SubSeq(c, 1, Len(c)) = c BY SubSeqFull
  <2>2. Len(s) <= Len(c) /\ s = SubSeq(c, 1, Len(s)) BY <2>1 DEF IsPrefix
  <2>3. Len(s) # Len(c) BY <2>1, <2>2
  <2>4. Len(s) <= Len(c) BY <2>2
  <2>5. Len(s) < Len(c) BY <1>0, <2>3, <2>4
  <2> QED BY <2>2, <2>5
<1>2. \A k \in 0 .. Len(c) : /\ SubSeq(c, 1, k) \in Seq(PackageWords)
                             /\ SubSeq(c, 1, k) \o <<>> = SubSeq(c, 1, k)
  <2> TAKE k \in 0 .. Len(c)
  <2>1. SubSeq(c, 1, k) \in Seq(PackageWords) BY SplitAt
  <2> QED BY <2>1, ConcatEmptySeq
<1> DEFINE r == reference_ancestor(c, s, t)
<1>3. CASE s = <<>>
  <2> DEFINE a == Underscores(Len(c) - Len(s)) \o t \o Underscores(2)
             i == [up |-> Len(c) - Len(s) + 1, path |-> <<>>, name |-> t, alias |-> a]
  <2>1. r.import = {i} /\ r.expression = Class(a) BY <1>3 DEF reference_ancestor
  <2>2. Len(s) = 0 /\ Len(c) - Len(s) = Len(c) BY <1>0, <1>3
  <2>3. RootForm(c, s, t, a)
    <3>1. a = Underscores(Len(c)) \o (t \o Underscores(2))
      <4>1. PICK u \in Seq(Atoms) : u = Underscores(Len(c)) BY <1>0
      <4>2. PICK v \in Seq(Atoms) : v = Underscores(2) BY <1>0
      <4>3. (u \o t) \o v = u \o (t \o v) BY <1>0, AtomsAssociate
      <4> QED BY <2>2, <4>1, <4>2, <4>3
    <3> QED BY <1>1, <1>3, <2>2, <3>1 DEF RootForm
  <2>4. i.alias = a /\ i.name = t /\ i.path = <<>> /\ i.up = Len(c) - Len(s) + 1 OBVIOUS
  <2> HIDE DEF i, a, r
  <2>5. Len(c) - (i.up - 1) = 0 /\ 0 \in 0 .. Len(c) BY <1>0, <2>2, <2>4
  <2>6. Origin(c, i) = <<>>
    <3>1. SubSeq(c, 1, 0) = <<>> BY SubSeqEmpty
    <3> QED BY <1>2, <2>4, <2>5, <3>1 DEF Origin
  <2>7. Leads(c, s, t, i, r.expression) BY <1>3, <2>1, <2>4, <2>6 DEF Leads
  <2>8. AliasForm(c, s, t, i.alias) BY <2>3, <2>4 DEF AliasForm, AheadForm
  <2>9. Led(c, s, t, r) BY <2>1, <2>7, <2>8 DEF Led
  <2> QED BY <2>9 DEF r
<1>4. CASE s # <<>>
  <2> DEFINE k == Len(s)
             a == Underscores(Len(c) - k + 1) \o Last(s) \o Underscores(2)
             i == [up |-> Len(c) - k + 2, path |-> <<>>, name |-> Last(s), alias |-> a]
  <2>1. r.import = {i} /\ r.expression = Attribute(a, t) BY <1>4 DEF reference_ancestor
  <2>2. k \in 1 .. Len(c) /\ k \in 1 .. k
    <3>1. k # 0 BY <1>4, EmptySeq
    <3>2. k < Len(c) BY <1>1
    <3> HIDE DEF k
    <3>3. k \in Nat BY <1>0 DEF k
    <3> QED BY <1>0, <3>1, <3>2, <3>3
  <2>3. Last(s) \in PackageWords /\ Last(s) = c[k]
    <3>1. s[k] \in PackageWords BY <2>2, ElementOfSeq
    <3>2. \A j \in 1 .. k : SubSeq(c, 1, k)[j] = c[j]
      <4>1. k \in 0 .. Len(c) BY <1>0, <2>2
      <4> QED BY <4>1, SplitAt
    <3> QED BY <1>1, <2>2, <3>1, <3>2 DEF Last
  <2>4. Last(s) \in Seq(Atoms) BY <2>3, CleanNames
  <2>5. AboveForm(c, s, a)
    <3>1. Underscores(Len(c) - k + 1) \in Seq(Atoms)
      <4>1. Len(c) - k + 1 \in Nat BY <1>0, <2>2
      <4> QED BY <1>0, <4>1
    <3>2. a = Underscores((Len(c) - k) + 1) \o (c[k] \o Underscores(2))
      <4>1. PICK u \in Seq(Atoms) : u = Underscores(Len(c) - k + 1) BY <3>1
      <4>2. PICK v \in Seq(Atoms) : v = Underscores(2) BY <1>0
      <4>3. PICK w \in Seq(Atoms) : w = Last(s) /\ w = c[k] BY <2>3, <2>4
      <4>4. (u \o w) \o v = u \o (w \o v) BY AtomsAssociate
      <4>5. a = (u \o w) \o v BY <4>1, <4>2, <4>3
      <4> QED BY <4>1, <4>2, <4>3, <4>4, <4>5
    <3> QED BY <1>1, <2>2, <3>2 DEF AboveForm
  <2>6. i.alias = a /\ i.name = Last(s) /\ i.path = <<>> /\ i.up = Len(c) - k + 2 OBVIOUS
  <2> HIDE DEF i, a, r
  <2>7. Len(c) - (i.up - 1) = k - 1 /\ k - 1 \in 0 .. Len(c) BY <1>0, <2>2, <2>6
  <2>8. Origin(c, i) = SubSeq(c, 1, k - 1) /\ Origin(c, i) \in Seq(PackageWords)
    BY <1>2, <2>6, <2>7 DEF Origin
  <2>9. Append(Origin(c, i), Last(s)) = s
    <3>1. 1 \in 1 .. Len(c) /\ k \in 1 .. Len(c) BY <1>0, <2>2
    <3>2. SubSeq(c, 1, k) = SubSeq(c, 1, k - 1) \o <<c[k]>>
      BY <2>2, <3>1, SubSeqRecursiveSecond
    <3>3. Append(Origin(c, i), Last(s)) = Origin(c, i) \o <<Last(s)>>
      BY <2>3, <2>8, AppendIsConcat
    <3> QED BY <1>1, <2>3, <2>8, <3>2, <3>3
  <2>10. Leads(c, s, t, i, r.expression) BY <1>4, <2>1, <2>3, <2>6, <2>8, <2>9 DEF Leads
  <2>11. AliasForm(c, s, t, i.alias) BY <2>5, <2>6 DEF AliasForm, AheadForm
  <2>12. Led(c, s, t, r) BY <2>1, <2>10, <2>11 DEF Led
  <2> QED BY <2>12 DEF r
<1> QED BY <1>3, <1>4

LEMMA CousinLed ==
  ASSUME NamesApart, NEW c \in Seq(PackageWords), NEW s \in Seq(PackageWords),
         NEW t \in ClassNames, ~ IsPrefix(c, s), ~ IsPrefix(s, c)
  PROVE  Led(c, s, t, reference_cousin(c, s, t))
<1>0. Len(c) \in Nat /\ Len(s) \in Nat /\ Underscore \in Atoms BY LenProperties DEF Atoms
<1> DEFINE shared == LongestCommonPrefix({c, s})
           r == reference_cousin(c, s, t)
<1>1. PICK k \in 0 .. Len(c) :
        /\ k <= Len(s) /\ Len(shared) = k /\ SubSeq(c, 1, k) = SubSeq(s, 1, k)
        /\ k < Len(c) /\ k < Len(s) => c[k + 1] # s[k + 1]
  <2>1. c \in Seq(Words) /\ s \in Seq(Words)
    <3>1. \A x \in Seq(PackageWords) : x \in Seq(Words)
      <4>1. PackageWords \subseteq Words BY DEF PackageWords, Words
      <4> QED BY <4>1
    <3> QED BY <3>1
  <2> QED BY <2>1, SharedAncestry
<1>2. k < Len(c) /\ k < Len(s)
  <2>1. k # Len(c)
    <3> SUFFICES ASSUME k = Len(c) PROVE FALSE OBVIOUS
    <3> QED BY <1>1 DEF IsPrefix
  <2>2. k # Len(s)
    <3> SUFFICES ASSUME k = Len(s) PROVE FALSE OBVIOUS
    <3>1. Len(s) <= Len(c) BY <1>0
    <3> QED BY <1>1, <3>1 DEF IsPrefix
  <2> QED BY <1>0, <1>1, <2>1, <2>2
<1> DEFINE b == SubSeq(s, k + 1, Len(s))
           safe == [j \in DOMAIN b |-> safe_snake_case(b[j])]
           a == Underscores(Len(c) - k) \o Joined(safe, Underscores(2)) \o Underscores(2)
           i == [up |-> Len(c) - k + 1, path |-> Front(b), name |-> Last(b), alias |-> a]
<1>3. r.import = {i} /\ r.expression = Attribute(a, t) BY <1>1 DEF reference_cousin
<1>4. /\ k \in 0 .. Len(s) /\ k \in 0 .. Len(c)
      /\ b \in Seq(PackageWords) /\ Len(b) > 0 /\ s = SubSeq(s, 1, k) \o b
      /\ b[1] = s[k + 1] /\ SubSeq(c, 1, k) \in Seq(PackageWords)
  <2>1. k \in 0 .. Len(s) BY <1>0, <1>1
  <2>2. SubSeq(c, 1, k) \in Seq(PackageWords) BY SplitAt
  <2>3. /\ b \in Seq(PackageWords) /\ Len(b) = Len(s) - k /\ s = SubSeq(s, 1, k) \o b
        /\ b[1] = s[k + 1]
    BY <1>2, <2>1, SplitAt
  <2> HIDE DEF b
  <2>4. Len(b) > 0 BY <1>0, <1>2, <2>1, <2>3
  <2> QED BY <2>1, <2>2, <2>3, <2>4
<1> HIDE DEF shared, b
<1>5. a = Underscores(Len(c) - k) \o BesideText(b)
  <2>1. BesideText(b) = Joined(safe, Underscores(2)) \o Underscores(2) BY DEF BesideText
  <2>2. safe \in Seq(Seq(Atoms)) /\ Len(safe) > 0
    <3>1. /\ Len(b) \in Nat /\ DOMAIN b = 1 .. Len(b)
          /\ \A j \in 1 .. Len(b) : b[j] \in PackageWords
      BY <1>4, LenProperties, ElementOfSeq
    <3>2. \A j \in 1 .. Len(b) : safe_snake_case(b[j]) \in Seq(Atoms) BY <3>1, SafeSplits
    <3>3. safe \in Seq(Seq(Atoms)) /\ Len(safe) = Len(b) BY <3>1, <3>2
    <3> QED BY <1>4, <3>3
  <2>3. Underscores(2) \in Seq(Atoms) BY <1>0, TwoUnderscores
  <2> HIDE DEF safe
  <2>4. Joined(safe, Underscores(2)) \in Seq(Atoms) BY <2>2, <2>3, JoinedWithEnd
  <2>5. Underscores(Len(c) - k) \in Seq(Atoms)
    <3>1. Len(c) - k \in Nat BY <1>0, <1>2
    <3> QED BY <1>0, <3>1, UnderscoreRun
  <2> QED BY <2>1, <2>3, <2>4, <2>5, AtomsAssociate
<1>6. i.alias = a /\ i.name = Last(b) /\ i.path = Front(b) /\ i.up = Len(c) - k + 1 OBVIOUS
<1> HIDE DEF i, a, r
<1>7. BesideForm(c, s, a)
  <2>1. k \in 0 .. Len(c) - 1 BY <1>0, <1>2
  <2> QED BY <1>1, <1>2, <1>4, <1>5, <2>1 DEF BesideForm
<1>8. Origin(c, i) = SubSeq(c, 1, k) \o Front(b)
  <2>1. Len(c) - (i.up - 1) = k BY <1>0, <1>4, <1>6
  <2> QED BY <1>6, <2>1 DEF Origin
<1>9. /\ Last(b) \in PackageWords /\ SubSeq(c, 1, k) \o Front(b) \in Seq(PackageWords)
      /\ Append(SubSeq(c, 1, k) \o Front(b), Last(b)) = SubSeq(c, 1, k) \o b
  BY <1>4, FrontAndLast
<1>10. s # <<>> BY <1>2, <1>4
<1>11. Leads(c, s, t, i, r.expression)
  BY <1>1, <1>3, <1>4, <1>6, <1>8, <1>9, <1>10 DEF Leads
<1>12. AliasForm(c, s, t, i.alias) BY <1>6, <1>7 DEF AliasForm, AheadForm
<1>13. Led(c, s, t, r) BY <1>3, <1>11, <1>12 DEF Led
<1> QED BY <1>13 DEF r

\* Whichever way a reference goes, its import leads to the package of its type.
LEMMA ReferenceLed ==
  ASSUME NamesApart, NEW c \in Seq(PackageWords), NEW s \in Seq(PackageWords),
         NEW t \in ClassNames, s # c
  PROVE  Led(c, s, t, get_symbol_reference(c, s, t))
BY DescendentLed, AncestorLed, CousinLed DEF get_symbol_reference

-----------------------------------------------------------------------------
\* The reference that the followed module makes to a type.
ReferenceTo(d) ==
  get_symbol_reference(request.package, d.package, pythonize_class_name(d.object))

\* The expressions written are those of references, and what they need is imported: by the
\* end of the module, or, after they are written, by the import statements.
RefInv ==
  /\ request.settings \in Settings
  /\ \A r \in references : /\ r.type \in request.types
                           /\ r.expression = ReferenceTo(r.type).expression
                           /\ ReferenceTo(r.type).import \subseteq imports_end
  /\ step = "imports" /\ request.settings[1] =>
       \A d \in request.methods : ReferenceTo(d).import \subseteq imports_end
  /\ step \in {"bases", "write", "done"} =>
       \A r \in references : ReferenceTo(r.type).import \subseteq emitted
  /\ step = "bases" /\ request.settings[1] =>
       \A d \in request.methods : ReferenceTo(d).import \subseteq emitted

\* What rendering text that uses types of the request writes.
LEMMA UseRefers ==
  ASSUME IInv, step \notin {"gather", "read"}, NEW types \in SUBSET request.types,
         NEW next, Use(types, next)
  PROVE  /\ step' = next
         /\ imports_end' = imports_end \cup UNION {ReferenceTo(d).import : d \in types}
         /\ references' = references \cup
              {[type |-> d, expression |-> ReferenceTo(d).expression] : d \in types}
<1>1. \A d \in types : Cardinality(parse_source_type_name(FullName(d))) = 1
  BY FoundOnce
<1>2. ASSUME NEW d \in types PROVE get_type_reference(FullName(d)) = ReferenceTo(d)
  <2>1. parse_source_type_name(FullName(d)) = {d} BY FoundOnce
  <2>2. (CHOOSE x \in parse_source_type_name(FullName(d)) : TRUE) = d BY <2>1
  <2> QED BY <2>2 DEF get_type_reference, ReferenceTo
<1>3. /\ step' = next
      /\ imports_end' = imports_end \cup
           UNION {get_type_reference(FullName(d)).import : d \in types}
      /\ references' = references \cup
           {[type |-> d, expression |-> get_type_reference(FullName(d)).expression] :
              d \in types}
  BY <1>1 DEF Use
<1>4. {get_type_reference(FullName(d)).import : d \in types}
        = {ReferenceTo(d).import : d \in types}
  BY <1>2
<1>5. {[type |-> d, expression |-> get_type_reference(FullName(d)).expression] : d \in types}
        = {[type |-> d, expression |-> ReferenceTo(d).expression] : d \in types}
  BY <1>2
<1> QED BY <1>3, <1>4, <1>5

\* The initial states, and every step, have what is known of the references.
LEMMA InitRefInv == Init => RefInv
<1> SUFFICES ASSUME Init PROVE RefInv OBVIOUS
<1>1. request \in Requests /\ step = "gather" /\ references = {} BY DEF Init
<1>2. request.settings \in Settings BY <1>1 DEF Requests
<1> QED BY <1>1, <1>2 DEF RefInv

LEMMA StepRefInv ==
  ASSUME NamesApart, IInv, RefInv, [Next]_vars
  PROVE  RefInv'
<1>0. (request' = request) => \A d : ReferenceTo(d)' = ReferenceTo(d) BY DEF ReferenceTo
<1>1. CASE UNCHANGED vars BY <1>0, <1>1 DEF vars, RefInv
<1>2. ASSUME NEW f \in todo, Gather(f) PROVE RefInv'
  <2>1. step' \in {"gather", "read"} BY <1>2 DEF Gather
  <2> QED BY <1>0, <1>2, <2>1 DEF Gather, RefInv
<1>3. ASSUME NEW p \in todo, read_protobuf_type(p) PROVE RefInv'
  <2>1. step' \in {"read", "types"} BY <1>3 DEF read_protobuf_type
  <2> QED BY <1>0, <1>3, <2>1 DEF read_protobuf_type, RefInv
<1>4. request.fields \in SUBSET request.types /\ request.methods \in SUBSET request.types
  BY DEF IInv, RequestOK
<1>5. ASSUME NEW types \in SUBSET request.types, NEW next, Use(types, next),
             step \notin {"gather", "read"}, request' = request
      PROVE  /\ \A d \in types : ReferenceTo(d).import \subseteq imports_end'
             /\ \A r \in references' :
                  /\ r.type \in request.types
                  /\ r.expression = ReferenceTo(r.type).expression
                  /\ ReferenceTo(r.type).import \subseteq imports_end'
                  /\ r \in references \/ r.type \in types
  <2>1. /\ imports_end' = imports_end \cup UNION {ReferenceTo(d).import : d \in types}
        /\ references' = references \cup
             {[type |-> d, expression |-> ReferenceTo(d).expression] : d \in types}
    BY <1>5, UseRefers
  <2>2. \A d \in types : ReferenceTo(d).import \subseteq imports_end' BY <2>1
  <2>3. ASSUME NEW r \in references'
        PROVE  /\ r.type \in request.types
               /\ r.expression = ReferenceTo(r.type).expression
               /\ ReferenceTo(r.type).import \subseteq imports_end'
               /\ r \in references \/ r.type \in types
    <3>1. CASE r \in references BY <2>1, <3>1 DEF RefInv
    <3>2. CASE r \notin references
      <4>1. PICK d \in types : r = [type |-> d, expression |-> ReferenceTo(d).expression]
        BY <2>1, <3>2
      <4>2. r.type = d /\ r.expression = ReferenceTo(d).expression BY <4>1
      <4> QED BY <2>2, <4>2
    <3> QED BY <3>1, <3>2
  <2> QED BY <2>2, <2>3
<1>6. CASE RenderTypes
  <2>1. /\ Use(request.fields, "stubs") /\ step = "types" /\ request' = request
        /\ emitted' = emitted
    BY <1>6 DEF RenderTypes
  <2>2. step' = "stubs" BY <1>4, <2>1, UseRefers
  <2>3. \A r \in references' : /\ r.type \in request.types
                               /\ r.expression = ReferenceTo(r.type).expression
                               /\ ReferenceTo(r.type).import \subseteq imports_end'
    BY <1>4, <1>5, <2>1
  <2> QED BY <1>0, <2>1, <2>2, <2>3 DEF RefInv
<1>7. CASE RenderStubs
  <2> DEFINE types == IF request.settings[1] THEN request.methods ELSE {}
  <2>1. /\ Use(types, "imports") /\ step = "stubs" /\ request' = request
        /\ types \in SUBSET request.types
        /\ request.settings[1] => types = request.methods
    BY <1>4, <1>7 DEF RenderStubs
  <2> HIDE DEF types
  <2>2. step' = "imports" BY <2>1, UseRefers
  <2>3. /\ \A d \in types : ReferenceTo(d).import \subseteq imports_end'
        /\ \A r \in references' : /\ r.type \in request.types
                                  /\ r.expression = ReferenceTo(r.type).expression
                                  /\ ReferenceTo(r.type).import \subseteq imports_end'
    BY <1>5, <2>1
  <2> QED BY <1>0, <2>1, <2>2, <2>3 DEF RefInv
<1>8. CASE RenderImports
  <2>1. /\ step = "imports" /\ step' = "bases" /\ emitted' = imports_end
        /\ UNCHANGED <<request, imports_end, references>>
    BY <1>8 DEF RenderImports
  <2> QED BY <1>0, <2>1 DEF RefInv
<1>9. CASE RenderBases
  <2> DEFINE types == IF request.settings[2] THEN request.methods ELSE {}
  <2>1. /\ Use(types, "write") /\ step = "bases" /\ request' = request
        /\ types \in SUBSET request.types /\ emitted' = emitted
    BY <1>4, <1>9 DEF RenderBases
  <2>2. \A d \in types : d \in request.methods /\ request.settings[1]
    BY DEF NamesApart, RefInv
  <2> HIDE DEF types
  <2>3. step' = "write" BY <2>1, UseRefers
  <2>4. \A r \in references' : /\ r.type \in request.types
                               /\ r.expression = ReferenceTo(r.type).expression
                               /\ ReferenceTo(r.type).import \subseteq imports_end'
                               /\ r \in references \/ r.type \in types
    BY <1>5, <2>1
  <2>5. \A d \in types : ReferenceTo(d).import \subseteq emitted BY <2>1, <2>2 DEF RefInv
  <2>6. \A r \in references' : ReferenceTo(r.type).import \subseteq emitted
    BY <2>1, <2>4, <2>5 DEF RefInv
  <2> QED BY <1>0, <2>1, <2>3, <2>4, <2>6 DEF RefInv
<1>10. CASE Write
  <2>1. /\ step = "write" /\ step' = "done"
        /\ UNCHANGED <<request, imports_end, emitted, references>>
    BY <1>10 DEF Write
  <2> QED BY <1>0, <2>1 DEF RefInv
<1> QED BY <1>1, <1>2, <1>3, <1>6, <1>7, <1>8, <1>9, <1>10 DEF Next

-----------------------------------------------------------------------------
\* Nothing in the header has the name of a class or of a package, and of the types of a
\* package one at most has a class of a name.
LEMMA NamesFree ==
  ASSUME NamesApart
  PROVE  /\ \A n \in ClassNames \cup PackageWords : n \notin HeaderNames
         /\ \A n \in ClassNames : n # <<>> /\ n \notin PackageWords
<1>1. ASSUME NEW n \in ClassNames \cup PackageWords PROVE n \notin HeaderNames
  <2>1. n \in Seq(Atoms) BY CleanNames
  <2>2. \A i \in DOMAIN n : n[i] \in Atoms BY <2>1, ElementOfSeq, LenProperties
  <2>3. Range(n) \subseteq Atoms BY <2>2 DEF Range
  <2> QED BY <2>3 DEF NamesApart
<1> QED BY <1>1 DEF NamesApart

LEMMA ClassesFound ==
  ASSUME NamesApart, IInv, step = "done", NEW d \in request.types
  PROVE  Classes(d.package, pythonize_class_name(d.object))
           = {<<"class", d.package, d.object>>}
<1>1. d.package \in DOMAIN messages /\ d.object \in messages[d.package] BY ReadAll
<1>2. messages[d.package] \subseteq Objects BY <1>1, ReadAll DEF Declared
<1>3. {o \in messages[d.package] : pythonize_class_name(o) = pythonize_class_name(d.object)}
        = {d.object}
  BY <1>1, <1>2 DEF NamesApart
<1> QED BY <1>1, <1>3 DEF Classes

LEMMA NoClassesFound ==
  ASSUME IInv, step = "done", NEW p, NEW n, n \notin ClassNames
  PROVE  Classes(p, n) = {}
<1>1. \A q \in DOMAIN messages : messages[q] \subseteq Objects BY ReadAll DEF Declared
<1> QED BY <1>1 DEF Classes, ClassNames

\* What the reference of a type denotes in the module that is written.
Denoted(d) == IF d.package = <<>> THEN <<"class", d.package, d.object>>
              ELSE <<"module", d.package>>

\* An import that leads to the package of a type finds it.
LEMMA LedFound ==
  ASSUME NamesApart, IInv, ImportInv, step = "done", NEW d \in request.types, NEW i, NEW e,
         Leads(request.package, d.package, pythonize_class_name(d.object), i, e)
  PROVE  Found(i) = {Denoted(d)}
<1> DEFINE s == d.package
           t == pythonize_class_name(d.object)
<1>1. From(i) = Origin(request.package, i) BY DEF From, Origin
<1>2. d \in Definitions BY DEF IInv, RequestOK
<1>3. t \in ClassNames BY <1>2 DEF ClassNames, Definitions
<1>4. CASE s = <<>>
  <2>1. From(i) = s /\ i.name = t BY <1>1, <1>4 DEF Leads
  <2>2. i.name \notin HeaderNames BY <1>3, <2>1, NamesFree
  <2>3. Classes(s, t) = {<<"class", s, d.object>>} BY ClassesFound
  <2> QED BY <1>4, <2>1, <2>2, <2>3 DEF Found, Denoted
<1>5. CASE s # <<>>
  <2>1. i.name \in PackageWords /\ Append(From(i), i.name) = s BY <1>1, <1>5 DEF Leads
  <2>2. i.name \notin HeaderNames /\ i.name \notin ClassNames BY <2>1, NamesFree
  <2>3. Classes(From(i), i.name) = {} BY <2>2, NoClassesFound
  <2>4. s \in response
    <3>1. s \in output_paths BY PackagesRead
    <3> QED BY <3>1 DEF ImportInv
  <2>5. response \cap {Append(From(i), i.name)} = {s} BY <2>1, <2>4
  <2>6. Found(i) = {<<"module", m>> : m \in {s}} BY <2>2, <2>3, <2>5 DEF Found
  <2> QED BY <1>5, <2>6 DEF Denoted
<1> QED BY <1>4, <1>5

\* An import of a reference is led to a type of another package.
LEMMA ImportLed ==
  ASSUME NamesApart, IInv, ImportInv, NEW j \in emitted
  PROVE  \E d \in request.types :
           /\ pythonize_class_name(d.object) \in ClassNames
           /\ request.package \in Seq(PackageWords) /\ d.package \in Seq(PackageWords)
           /\ AliasForm(request.package, d.package, pythonize_class_name(d.object), j.alias)
           /\ Leads(request.package, d.package, pythonize_class_name(d.object), j,
                    ReferenceTo(d).expression)
<1>1. PICK d \in request.types : j \in ReferenceTo(d).import BY DEF ImportInv, ReferenceTo
<1> DEFINE c == request.package
           s == d.package
           t == pythonize_class_name(d.object)
<1>2. d \in Definitions /\ c \in Packages BY DEF IInv, RequestOK
<1>3. c \in Seq(PackageWords) /\ s \in Seq(PackageWords) /\ t \in ClassNames
  BY <1>2, PackageSeqs DEF ClassNames, Definitions
<1>4. s # c BY <1>1 DEF ReferenceTo, get_symbol_reference, reference_sibling
<1>5. Led(c, s, t, ReferenceTo(d)) BY <1>3, <1>4, ReferenceLed DEF ReferenceTo
<1>6. AliasForm(c, s, t, j.alias) /\ Leads(c, s, t, j, ReferenceTo(d).expression)
  BY <1>1, <1>5 DEF Led
<1> QED BY <1>3, <1>6

\* So what is written for a type denotes it, in the module of a package of its own or of
\* another one.
LEMMA SiblingDenotes ==
  ASSUME NamesApart, IInv, ImportInv, step = "done", NEW d \in request.types,
         d.package = request.package
  PROVE  Denotes(ReferenceTo(d).expression, d)
<1> DEFINE t == pythonize_class_name(d.object)
<1>1. d \in Definitions BY DEF IInv, RequestOK
<1>2. t \in ClassNames BY <1>1 DEF ClassNames, Definitions
<1>3. ReferenceTo(d).expression = [global |-> t, class |-> <<>>]
  BY DEF ReferenceTo, get_symbol_reference, reference_sibling, Class
<1>4. t \notin HeaderNames BY <1>2, NamesFree
<1>5. Classes(request.package, t) = {<<"class", d.package, d.object>>} BY ClassesFound
<1>6. ASSUME NEW j \in emitted PROVE j.alias # t
  <2>1. PICK e \in request.types :
          /\ pythonize_class_name(e.object) \in ClassNames
          /\ request.package \in Seq(PackageWords)
          /\ AliasForm(request.package, e.package, pythonize_class_name(e.object), j.alias)
    BY ImportLed
  <2>2. j.alias \notin ClassNames BY <2>1, AliasTells
  <2> QED BY <1>2, <2>2
<1> HIDE DEF t
<1>7. Bound(t) = {<<"class", d.package, d.object>>}
  <2>1. {j \in emitted : j.alias = t} = {} BY <1>6
  <2> QED BY <1>4, <1>5, <2>1 DEF Bound
<1> QED BY <1>3, <1>7 DEF Denotes

LEMMA ImportDenotes ==
  ASSUME NamesApart, IInv, ImportInv, step = "done", NEW d \in request.types,
         d.package # request.package, ReferenceTo(d).import \subseteq emitted
  PROVE  Denotes(ReferenceTo(d).expression, d)
<1> DEFINE c == request.package
           s == d.package
           t == pythonize_class_name(d.object)
           e == ReferenceTo(d).expression
<1>1. d \in Definitions /\ c \in Packages BY DEF IInv, RequestOK
<1>2. c \in Seq(PackageWords) /\ s \in Seq(PackageWords) /\ t \in ClassNames
  BY <1>1, PackageSeqs DEF ClassNames, Definitions
<1>3. Led(c, s, t, ReferenceTo(d)) BY <1>2, ReferenceLed DEF ReferenceTo
<1>4. PICK i : i \in emitted /\ AliasForm(c, s, t, i.alias) /\ Leads(c, s, t, i, e)
  BY <1>3 DEF Led
<1>5. i.alias \notin ClassNames /\ i.alias \notin HeaderNames BY <1>2, <1>4, AliasTells
<1>6. ASSUME NEW j \in emitted, j.alias = i.alias PROVE Found(j) = {Denoted(d)}
  <2>1. PICK f \in request.types :
          /\ pythonize_class_name(f.object) \in ClassNames
          /\ AliasForm(c, f.package, pythonize_class_name(f.object), j.alias)
          /\ Leads(c, f.package, pythonize_class_name(f.object), j, ReferenceTo(f).expression)
    BY ImportLed
  <2>2. f.package = s /\ (s = <<>> => pythonize_class_name(f.object) = t)
    BY <1>2, <1>4, <1>6, <2>1, AliasTells
  <2>3. Found(j) = {Denoted(f)} BY <2>1, LedFound
  <2>4. Denoted(f) = Denoted(d)
    <3>1. f.object \in Objects /\ d.object \in Objects BY DEF IInv, RequestOK, Definitions
    <3>2. s = <<>> => f.object = d.object BY <2>2, <3>1 DEF NamesApart
    <3> QED BY <2>2, <3>2 DEF Denoted
  <2> QED BY <2>3, <2>4
<1>7. Bound(i.alias) = {Denoted(d)}
  <2>1. UNION {Found(j) : j \in {j \in emitted : j.alias = i.alias}} = {Denoted(d)}
    BY <1>4, <1>6
  <2>2. Classes(request.package, i.alias) = {} BY <1>5, NoClassesFound
  <2> QED BY <1>5, <2>1, <2>2 DEF Bound
<1>8. CASE s = <<>>
  <2>1. e = [global |-> i.alias, class |-> <<>>] BY <1>4, <1>8 DEF Leads, Class
  <2> HIDE DEF e
  <2>2. Denotes(e, d) BY <1>7, <1>8, <2>1 DEF Denotes, Denoted
  <2> QED BY <2>2 DEF e
<1>9. CASE s # <<>>
  <2>1. e = [global |-> i.alias, class |-> t] BY <1>4, <1>9 DEF Leads, Attribute
  <2>2. t # <<>> BY <1>2, NamesFree
  <2> HIDE DEF e, t
  <2>3. Denotes(e, d) BY <1>7, <1>9, <2>1, <2>2 DEF Denotes, Denoted
  <2> QED BY <2>3 DEF e
<1> QED BY <1>8, <1>9

\* If the names of a request are apart, whatever its packages and types are, every type
\* that a module uses is found in it: the alias of an import is that of no other package,
\* of no class and of nothing in the header, the import finds the module of the package,
\* or the class, and it is written though the template renders some text after the imports.
THEOREM GeneratedReferencesDenote == ASSUME NamesApart PROVE Spec => []ReferencesDenote
<1>1. IInv /\ ImportInv /\ RefInv => ReferencesDenote
  <2> SUFFICES ASSUME IInv, ImportInv, RefInv, step = "done", NEW r \in references
               PROVE  Denotes(r.expression, r.type)
    BY DEF ReferencesDenote
  <2>1. /\ r.type \in request.types /\ r.expression = ReferenceTo(r.type).expression
        /\ ReferenceTo(r.type).import \subseteq emitted
    BY DEF RefInv
  <2> QED BY <2>1, SiblingDenotes, ImportDenotes
<1>2. Init => ImportInv BY DEF Init, ImportInv
<1>3. IInv /\ RefInv /\ [Next]_vars => RefInv' BY StepRefInv
<1> QED BY <1>1, <1>2, <1>3, InitIInv, StepIInv, StepImportInv, InitRefInv, PTL DEF Spec
=============================================================================
