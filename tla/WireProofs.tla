----------------------------- MODULE WireProofs -----------------------------
(***************************************************************************)
(* The properties of ScalarCodec, for every width of the types that is a   *)
(* whole number of bytes and for every field number a tag has room for,    *)
(* and those of DelimitedStream, for every such width, every set of        *)
(* messages and every number of them.  The runs check them on words of 8   *)
(* bits; the code has words of 64.                                         *)
(*                                                                         *)
(* The argument follows the bytes.  A varint is cut into groups, the last  *)
(* of which is the first below Group (GroupsShape), and is put together    *)
(* again from them (FromDigitsOf), so load_varint returns what             *)
(* dump_varint wrote (VarintLoaded), and likewise struct.unpack what       *)
(* struct.pack wrote (LittleEndianBack).  A field is a tag and a value     *)
(* (FieldLoaded), and what a value carries determines it (ValueComesBack,  *)
(* ValueIsCast).  Groups and FromDigits are recursive functions over       *)
(* naturals: that they satisfy their equations, and what they compute, is  *)
(* shown by induction, stated for sets of naturals (Induction, LeastNat).  *)
(* A stream of delimited messages then is a channel: what load takes from  *)
(* the stream is what dump wrote there, byte for byte.                     *)
(***************************************************************************)
EXTENDS DelimitedStream, ScalarCodec,
        TLAPS, SequenceTheorems, FiniteSetTheorems, FunctionTheorems

\* Powers of two double.
LEMMA PowerStep ==
  ASSUME NEW n \in Nat
  PROVE  2 ^ n \in Nat /\ 2 ^ (n + 1) = 2 * 2 ^ n
<1> DEFINE A == SUBSET (1 .. n)
           B == {s \cup {n + 1} : s \in A}
           f == [s \in A |-> s \cup {n + 1}]
<1>1. IsFiniteSet(A) /\ Cardinality(A) = 2 ^ n /\ Cardinality(A) \in Nat
  <2>1. IsFiniteSet(1 .. n) /\ Cardinality(1 .. n) = n BY FS_Interval
  <2>2. IsFiniteSet(A) /\ Cardinality(A) = 2 ^ n BY <2>1, FS_SUBSET
  <2> QED BY <2>2, FS_CardinalityType
<1>2. Cardinality(SUBSET (1 .. n + 1)) = 2 ^ (n + 1)
  <2>1. IsFiniteSet(1 .. n + 1) /\ Cardinality(1 .. n + 1) = n + 1 BY FS_Interval
  <2> QED BY <2>1, FS_SUBSET
<1>3. IsFiniteSet(B) /\ Cardinality(B) = Cardinality(A)
  <2>1. f \in [A -> B] OBVIOUS
  <2>2. \A s, t \in A : f[s] = f[t] => s = t
    <3> SUFFICES ASSUME NEW s \in A, NEW t \in A, f[s] = f[t] PROVE s = t OBVIOUS
    <3>1. s \cup {n + 1} = t \cup {n + 1} OBVIOUS
    <3>2. n + 1 \notin s /\ n + 1 \notin t OBVIOUS
    <3> QED BY <3>1, <3>2
  <2>3. \A t \in B : \E s \in A : f[s] = t OBVIOUS
  <2>4. f \in Bijection(A, B) BY <2>1, <2>2, <2>3, Fun_IsBij
  <2>5. ExistsBijection(A, B) BY <2>4, Fun_ExistsBij
  <2> QED BY <1>1, <2>5, FS_Bijection
<1>4. SUBSET (1 .. n + 1) = A \cup B
  <2>1. ASSUME NEW s \in SUBSET (1 .. n + 1) PROVE s \in A \cup B
    <3>1. CASE n + 1 \in s
      <4>1. s \ {n + 1} \in A /\ s = (s \ {n + 1}) \cup {n + 1} BY <3>1
      <4> QED BY <4>1
    <3>2. CASE n + 1 \notin s BY <3>2
    <3> QED BY <3>1, <3>2
  <2>2. 1 .. n \subseteq 1 .. n + 1 /\ n + 1 \in 1 .. n + 1 OBVIOUS
  <2>3. A \cup B \subseteq SUBSET (1 .. n + 1) BY <2>2
  <2> QED BY <2>1, <2>3
<1>5. A \cap B = {} /\ Cardinality(A \cap B) = 0
  <2>1. A \cap B = {} OBVIOUS
  <2> QED BY <2>1, FS_EmptySet
<1> HIDE DEF A, B, f
<1>6. Cardinality(A \cup B) = Cardinality(A) + Cardinality(B) - 0
  BY <1>1, <1>3, <1>5, FS_Union
<1>7. 2 ^ (n + 1) = Cardinality(A) + Cardinality(A)
  <2>1. 2 ^ (n + 1) = Cardinality(A \cup B) BY <1>2, <1>4
  <2> QED BY <1>1, <1>3, <1>6, <2>1
<1>8. 2 ^ n \in Nat BY <1>1
<1>9. Cardinality(A) + Cardinality(A) = 2 * Cardinality(A) BY <1>1
<1> QED BY <1>1, <1>7, <1>8, <1>9

\* Every set of naturals that is not empty has a least one.
LEMMA LeastNat ==
  ASSUME NEW T \in SUBSET Nat, T # {}
  PROVE  \E x \in T : \A y \in T : x <= y
<1> DEFINE R == {p \in Nat \X Nat : p[1] < p[2]}
<1>1. IsWellFoundedOn(R, Nat) BY NatLessThanWellFounded DEF OpToRel
<1> HIDE DEF R
<1>2. PICK x \in T : \A y \in T : ~ (<<y, x>> \in R) BY <1>1, WFMin
<1>3. ASSUME NEW y \in T PROVE x <= y
  <2>1. x \in Nat /\ y \in Nat OBVIOUS
  <2>2. <<y, x>> \notin R BY <1>2
  <2>3. <<y, x>> \in Nat \X Nat BY <2>1
  <2>4. ~ (<<y, x>>[1] < <<y, x>>[2]) BY <2>2, <2>3 DEF R
  <2> QED BY <2>1, <2>4
<1> QED BY <1>3

\* A set that has zero and with each number the next has every number.
LEMMA Induction ==
  ASSUME NEW T, 0 \in T, \A n \in Nat : n \in T => n + 1 \in T
  PROVE  \A n \in Nat : n \in T
<1> DEFINE F == {n \in Nat : n \notin T}
<1> SUFFICES ASSUME F # {} PROVE FALSE OBVIOUS
<1>1. PICK x \in F : \A y \in F : x <= y
  <2>1. F \in SUBSET Nat OBVIOUS
  <2> HIDE DEF F
  <2> QED BY <2>1, LeastNat
<1>2. x # 0 /\ x - 1 \in Nat OBVIOUS
<1>3. x - 1 \notin F BY <1>1, <1>2
<1>4. (x - 1) + 1 \in T BY <1>2, <1>3
<1> QED BY <1>4

\* Powers of two are positive, and multiply by adding their exponents.
LEMMA Powers ==
  /\ 2 ^ 0 = 1
  /\ \A n \in Nat : 2 ^ n \in Nat \ {0}
  /\ \A m, n \in Nat : 2 ^ (m + n) = 2 ^ m * 2 ^ n
<1>1. 2 ^ 0 = 1 OBVIOUS
<1>2. \A n \in Nat : 2 ^ n \in Nat \ {0}
  <2> DEFINE T == {n \in Nat : 2 ^ n \in Nat \ {0}}
  <2>1. 0 \in T BY <1>1
  <2>2. ASSUME NEW n \in Nat, n \in T PROVE n + 1 \in T
    <3>1. 2 ^ (n + 1) = 2 * 2 ^ n /\ 2 ^ n \in Nat \ {0} BY <2>2, PowerStep
    <3> QED BY <3>1
  <2> HIDE DEF T
  <2>3. \A n \in Nat : n \in T BY <2>1, <2>2, Induction
  <2> QED BY <2>3 DEF T
<1>3. ASSUME NEW m \in Nat PROVE \A n \in Nat : 2 ^ (m + n) = 2 ^ m * 2 ^ n
  <2> DEFINE T == {n \in Nat : 2 ^ (m + n) = 2 ^ m * 2 ^ n}
  <2>1. 0 \in T
    <3>1. m + 0 = m /\ 2 ^ m \in Nat BY <1>2
    <3>2. 2 ^ m * 2 ^ 0 = 2 ^ m BY <1>1, <3>1
    <3> QED BY <3>1, <3>2
  <2>2. ASSUME NEW n \in Nat, n \in T PROVE n + 1 \in T
    <3>1. m + (n + 1) = (m + n) + 1 /\ m + n \in Nat OBVIOUS
    <3>2. 2 ^ (n + 1) = 2 * 2 ^ n /\ 2 ^ ((m + n) + 1) = 2 * 2 ^ (m + n)
      BY <3>1, PowerStep
    <3> DEFINE x == 2 ^ m
               y == 2 ^ n
    <3>3. x \in Nat /\ y \in Nat BY <1>2
    <3>4. 2 ^ (m + n) = x * y BY <2>2
    <3> HIDE DEF x, y
    <3>5. 2 * (x * y) = x * (2 * y) BY <3>3
    <3>6. 2 ^ (m + (n + 1)) = x * (2 * y) BY <3>1, <3>2, <3>4, <3>5
    <3>7. 2 ^ (n + 1) = 2 * y BY <3>2 DEF y
    <3> QED BY <3>6, <3>7 DEF x
  <2> HIDE DEF T
  <2>3. \A n \in Nat : n \in T BY <2>1, <2>2, Induction
  <2> QED BY <2>3 DEF T
<1> QED BY <1>1, <1>2, <1>3

-----------------------------------------------------------------------------
\* Quotient and remainder of a division.
LEMMA DivisionRemainder ==
  ASSUME NEW a \in Int, NEW b \in Nat, b > 0
  PROVE  /\ a \div b \in Int /\ a % b \in 0 .. b - 1
         /\ a = b * (a \div b) + (a % b)
OBVIOUS

\* A number put together from a quotient and a remainder has no others.
LEMMA DivisionUnique ==
  ASSUME NEW b \in Nat, b > 0, NEW q \in Int, NEW r \in 0 .. b - 1
  PROVE  (b * q + r) \div b = q /\ (b * q + r) % b = r
OBVIOUS

\* Division by a product, in two steps.
DividesInTwo(v, p, b) ==
  /\ v \div (p * b) = (v \div p) \div b
  /\ v % (p * b) = p * ((v \div p) % b) + (v % p)

\* A division by a product is two divisions.
LEMMA DivideTwice ==
  ASSUME NEW v \in Int, NEW p \in Nat \ {0}, NEW b \in Nat \ {0}
  PROVE  DividesInTwo(v, p, b)
<1> DEFINE q == v \div p
           r == v % p
           qq == q \div b
           rr == q % b
<1>1. q \in Int /\ r \in 0 .. p - 1 /\ v = p * q + r BY DivisionRemainder
<1>2. qq \in Int /\ rr \in 0 .. b - 1 /\ q = b * qq + rr BY <1>1, DivisionRemainder
<1> HIDE DEF q, r, qq, rr
<1>3. p * b \in Nat \ {0} OBVIOUS
<1>4. v = (p * b) * qq + (p * rr + r)
  <2>1. p * q = p * (b * qq) + p * rr BY <1>2
  <2>2. p * (b * qq) = (p * b) * qq BY <1>2
  <2> QED BY <1>1, <1>2, <1>3, <2>1, <2>2
<1>5. p * rr + r \in 0 .. (p * b) - 1
  <2>1. p * rr >= 0 BY <1>2
  <2>2. p * rr <= p * (b - 1) BY <1>2
  <2>3. p * (b - 1) = p * b - p OBVIOUS
  <2>4. p * rr \in Int BY <1>2
  <2> QED BY <1>1, <1>3, <2>1, <2>2, <2>3, <2>4
<1>6. v \div (p * b) = qq /\ v % (p * b) = p * rr + r
  <2> DEFINE s == p * rr + r
             m == p * b
  <2>1. m \in Nat /\ m > 0 /\ s \in 0 .. m - 1 /\ v = m * qq + s BY <1>3, <1>4, <1>5
  <2> HIDE DEF s, m
  <2>2. v \div m = qq /\ v % m = s BY <1>2, <2>1, DivisionUnique
  <2> QED BY <2>2 DEF s, m
<1> QED BY <1>6 DEF q, qq, rr, r, DividesInTwo

\* A running sum exists.
LEMMA SumExists ==
  ASSUME NEW n \in Nat, NEW d \in [1 .. n -> Nat]
  PROVE  \E low \in [0 .. n -> Nat] :
           low = [j \in 0 .. n |-> IF j = 0 THEN 0 ELSE low[j - 1] + d[j]]
<1> DEFINE Sums(k) == {low \in [0 .. k -> Nat] :
                         low[0] = 0 /\ \A j \in 1 .. k : low[j] = low[j - 1] + d[j]}
           T == {k \in Nat : k <= n => Sums(k) # {}}
<1>1. 0 \in T
  <2>1. [j \in 0 .. 0 |-> 0] \in Sums(0) OBVIOUS
  <2> QED BY <2>1
<1>2. ASSUME NEW k \in Nat, k \in T PROVE k + 1 \in T
  <2>1. k <= n => Sums(k) # {} BY <1>2
  <2>2. ASSUME k + 1 <= n PROVE Sums(k + 1) # {}
    <3>1. k <= n BY <2>2
    <3>2. PICK low : low \in Sums(k) BY <2>1, <3>1
    <3> DEFINE up == [j \in 0 .. k + 1 |-> IF j <= k THEN low[j] ELSE low[k] + d[k + 1]]
    <3>3. k + 1 \in 1 .. n /\ d[k + 1] \in Nat BY <2>2
    <3>4. up \in [0 .. k + 1 -> Nat] /\ up[0] = 0 BY <3>2, <3>3
    <3>5. ASSUME NEW j \in 1 .. k + 1 PROVE up[j] = up[j - 1] + d[j]
      <4>1. CASE j <= k
        <5>1. j \in 1 .. k /\ j \in 0 .. k + 1 /\ j - 1 \in 0 .. k + 1 /\ j - 1 <= k BY <4>1
        <5> QED BY <3>2, <4>1, <5>1
      <4>2. CASE j = k + 1
        <5>1. j \in 0 .. k + 1 /\ j - 1 \in 0 .. k + 1 /\ j - 1 = k /\ ~(j <= k) BY <4>2
        <5> QED BY <4>2, <5>1
      <4> QED BY <4>1, <4>2
    <3>6. up \in Sums(k + 1) BY <3>4, <3>5
    <3> QED BY <3>6
  <2> HIDE DEF Sums
  <2> QED BY <2>2
<1>3. n \in T
  <2> HIDE DEF T
  <2> QED BY <1>1, <1>2, Induction
<1>4. PICK low : low \in Sums(n)
  <2> HIDE DEF Sums
  <2> QED BY <1>3
<1>5. low = [j \in 0 .. n |-> IF j = 0 THEN 0 ELSE low[j - 1] + d[j]] BY <1>4
<1> QED BY <1>4, <1>5

\* Put back together, the digits of a number are the number, as far as they go.
LEMMA FromDigitsOf ==
  ASSUME NEW v \in Int, NEW bits \in Nat \ {0}, NEW n \in Nat,
         NEW digits, digits = [j \in 1 .. n |-> (v \div 2 ^ (bits * (j - 1))) % 2 ^ bits]
  PROVE  FromDigits(digits, bits) = v % 2 ^ (bits * n)
<1> DEFINE d == [j \in 1 .. n |-> digits[j] * 2 ^ (bits * (j - 1))]
           Sum(low) == low = [j \in 0 .. n |-> IF j = 0 THEN 0 ELSE low[j - 1] + d[j]]
           Low(low) == low = [j \in 0 .. Len(digits) |->
                                IF j = 0 THEN 0
                                ELSE low[j - 1] + digits[j] * 2 ^ (bits * (j - 1))]
           low == CHOOSE low : Low(low)
<1>1. \A j \in Nat : bits * j \in Nat /\ 2 ^ (bits * j) \in Nat \ {0} BY Powers
<1>2. 2 ^ bits \in Nat \ {0} BY Powers
<1>3. \A j \in 1 .. n : digits[j] \in 0 .. 2 ^ bits - 1
  <2> TAKE j \in 1 .. n
  <2>1. j - 1 \in Nat OBVIOUS
  <2>2. 2 ^ (bits * (j - 1)) \in Nat \ {0} BY <1>1, <2>1
  <2>3. v \div 2 ^ (bits * (j - 1)) \in Int BY <2>2, DivisionRemainder
  <2> QED BY <1>2, <2>3, DivisionRemainder
<1>4. Len(digits) = n
  <2>1. digits \in [1 .. n -> Nat] BY <1>2, <1>3
  <2> QED BY <2>1
<1>5. d \in [1 .. n -> Nat]
  <2>1. ASSUME NEW j \in 1 .. n PROVE digits[j] * 2 ^ (bits * (j - 1)) \in Nat
    <3>1. digits[j] \in Nat BY <1>2, <1>3
    <3>2. j - 1 \in Nat OBVIOUS
    <3>3. 2 ^ (bits * (j - 1)) \in Nat BY <1>1, <3>2
    <3> QED BY <3>1, <3>3
  <2> QED BY <2>1
<1>6. \E x : Low(x)
  <2>1. PICK x \in [0 .. n -> Nat] : Sum(x)
    <3> HIDE DEF d
    <3> QED BY <1>5, SumExists
  <2>2. \A j \in 0 .. n : (IF j = 0 THEN 0 ELSE x[j - 1] + d[j]) =
                          (IF j = 0 THEN 0
                           ELSE x[j - 1] + digits[j] * 2 ^ (bits * (j - 1)))
    OBVIOUS
  <2>3. x = [j \in 0 .. n |-> IF j = 0 THEN 0
                             ELSE x[j - 1] + digits[j] * 2 ^ (bits * (j - 1))]
    BY <2>1, <2>2
  <2>4. Low(x) BY <1>4, <2>3
  <2> HIDE DEF Low
  <2> QED BY <2>4
<1>7. Low(low) BY <1>6
<1>8. FromDigits(digits, bits) = low[n] BY <1>4 DEF FromDigits
<1> DEFINE T == {j \in Nat : j <= n => low[j] = v % 2 ^ (bits * j)}
<1> HIDE DEF low
<1>9. 0 \in T
  <2>1. low[0] = 0 BY <1>4, <1>7
  <2>2. bits * 0 = 0 /\ v % 1 = 0 OBVIOUS
  <2> QED BY <2>1, <2>2, Powers
<1>10. ASSUME NEW j \in Nat, j \in T PROVE j + 1 \in T
  <2> SUFFICES ASSUME j + 1 <= n PROVE low[j + 1] = v % 2 ^ (bits * (j + 1)) OBVIOUS
  <2> DEFINE p == 2 ^ (bits * j)
             b == 2 ^ bits
  <2>1. j + 1 \in 0 .. n /\ j + 1 # 0 /\ (j + 1) - 1 = j /\ j + 1 \in 1 .. n OBVIOUS
  <2>2. low[j + 1] = low[j] + digits[j + 1] * p BY <1>4, <1>7, <2>1
  <2>3. digits[j + 1] = (v \div p) % b BY <2>1
  <2>4. p \in Nat \ {0} /\ b \in Nat \ {0} BY <1>1, <1>2
  <2>5. 2 ^ (bits * (j + 1)) = p * b
    <3>1. bits * (j + 1) = bits * j + bits /\ bits * j \in Nat OBVIOUS
    <3> QED BY <3>1, Powers
  <2>6. low[j] = v % p BY <1>10
  <2> HIDE DEF p, b
  <2>7. v % (p * b) = p * ((v \div p) % b) + (v % p)
    <3>1. DividesInTwo(v, p, b) BY <2>4, DivideTwice
    <3> QED BY <3>1 DEF DividesInTwo
  <2>8. (v \div p) % b \in Int /\ v % p \in Int
    <3>1. v \div p \in Int /\ v % p \in Int BY <2>4, DivisionRemainder
    <3> QED BY <2>4, <3>1, DivisionRemainder
  <2>9. p * ((v \div p) % b) = ((v \div p) % b) * p BY <2>4, <2>8
  <2>10. low[j + 1] = (v % p) + (((v \div p) % b) * p) BY <2>2, <2>3, <2>6
  <2>11. ((v \div p) % b) * p \in Int BY <2>4, <2>8
  <2> QED BY <2>5, <2>7, <2>8, <2>9, <2>10, <2>11
<1>11. n \in T
  <2> HIDE DEF T
  <2> QED BY <1>9, <1>10, Induction
<1> QED BY <1>8, <1>11

-----------------------------------------------------------------------------
\* A group has room for a wire type.
LEMMA GroupFacts ==
  /\ Group \in Nat /\ Group >= 8
  /\ GroupBits \in Nat \ {0}
<1>1. GroupBits \in Nat /\ GroupBits >= 3 BY WidthsAssumption
<1>2. PICK k \in Nat : GroupBits = 3 + k
  <2>1. GroupBits - 3 \in Nat /\ GroupBits = 3 + (GroupBits - 3) BY <1>1
  <2> QED BY <2>1
<1>3. 2 ^ GroupBits = 2 ^ 3 * 2 ^ k /\ 2 ^ k \in Nat \ {0} BY <1>2, Powers
<1>4. 2 ^ 3 = 8 OBVIOUS
<1> QED BY <1>1, <1>3, <1>4 DEF Group

\* What dump_varint does with a number of more than one group is to go on with the rest.
LEMMA GroupsDef ==
  \A n \in Nat : Groups[n] = IF n < Group THEN <<n>>
                             ELSE <<Group + (n % Group)>> \o Groups[n \div Group]
<1> DEFINE Value(g, n) == IF n < Group THEN <<n>>
                          ELSE <<Group + (n % Group)>> \o g[n \div Group]
           Upto(m) == {g \in [0 .. m -> Seq(Nat)] : \A n \in 0 .. m : g[n] = Value(g, n)}
           T == {m \in Nat : Upto(m) # {}}
<1>1. \A n \in Nat : n >= Group => n \div Group \in Nat /\ n \div Group < n
  <2> SUFFICES ASSUME NEW n \in Nat, n >= Group
               PROVE  n \div Group \in Nat /\ n \div Group < n
    OBVIOUS
  <2> DEFINE q == n \div Group
             r == n % Group
  <2>1. q \in Int /\ r \in 0 .. Group - 1 /\ n = Group * q + r
    BY GroupFacts, DivisionRemainder
  <2> HIDE DEF q, r
  <2>2. q > 0
    <3> SUFFICES ASSUME q <= 0 PROVE FALSE BY <2>1
    <3>1. Group * q <= 0 BY <2>1, GroupFacts
    <3> QED BY <2>1, <3>1, GroupFacts
  <2>3. Group * q >= 8 * q BY <2>1, <2>2, GroupFacts
  <2>4. Group * q \in Int BY <2>1, GroupFacts
  <2>5. q \in Nat /\ q < n BY <2>1, <2>2, <2>3, <2>4
  <2> QED BY <2>5 DEF q
<1>2. 0 \in T
  <2>1. [n \in 0 .. 0 |-> <<0>>] \in Upto(0)
    <3>1. 0 .. 0 = {0} /\ 0 < Group /\ <<0>> \in Seq(Nat) BY GroupFacts
    <3> QED BY <3>1
  <2> HIDE DEF Upto
  <2> QED BY <2>1
<1>3. ASSUME NEW m \in Nat, m \in T PROVE m + 1 \in T
  <2>1. PICK g : g \in Upto(m)
    <3> HIDE DEF Upto
    <3> QED BY <1>3
  <2> DEFINE h == [n \in 0 .. m + 1 |-> IF n <= m THEN g[n] ELSE Value(g, n)]
  <2>2. Value(g, m + 1) \in Seq(Nat)
    <3>1. CASE m + 1 < Group BY <3>1
    <3>2. CASE ~(m + 1 < Group)
      <4>1. (m + 1) \div Group \in 0 .. m BY <1>1, <3>2, GroupFacts
      <4>2. g[(m + 1) \div Group] \in Seq(Nat) BY <2>1, <4>1
      <4>3. Group + ((m + 1) % Group) \in Nat BY GroupFacts, DivisionRemainder
      <4>4. <<Group + ((m + 1) % Group)>> \in Seq(Nat) BY <4>3
      <4> QED BY <3>2, <4>2, <4>4, ConcatProperties
    <3> QED BY <3>1, <3>2
  <2>3. h \in [0 .. m + 1 -> Seq(Nat)]
    <3> SUFFICES ASSUME NEW n \in 0 .. m + 1 PROVE h[n] \in Seq(Nat) OBVIOUS
    <3>1. CASE n <= m
      <4>1. n \in 0 .. m BY <3>1
      <4> QED BY <2>1, <3>1, <4>1
    <3>2. CASE n = m + 1
      <4>1. ~(m + 1 <= m) OBVIOUS
      <4> QED BY <2>2, <3>2, <4>1
    <3> QED BY <3>1, <3>2
  <2>4. ASSUME NEW n \in 0 .. m + 1 PROVE h[n] = Value(h, n)
    <3>1. h[n] = Value(g, n)
      <4>1. CASE n <= m
        <5>1. n \in 0 .. m BY <4>1
        <5> QED BY <2>1, <4>1, <5>1
      <4>2. CASE ~(n <= m) BY <4>2
      <4> QED BY <4>1, <4>2
    <3>2. CASE n < Group BY <3>1, <3>2
    <3>3. CASE ~(n < Group)
      <4>1. n \in Nat /\ n >= Group BY <3>3, GroupFacts
      <4>2. n \div Group \in Nat /\ n \div Group < n BY <1>1, <4>1
      <4>3. n \div Group \in 0 .. m + 1 /\ n \div Group <= m BY <4>1, <4>2
      <4>4. h[n \div Group] = g[n \div Group] BY <4>3
      <4> QED BY <3>1, <3>3, <4>4
    <3> QED BY <3>2, <3>3
  <2>5. h \in Upto(m + 1) BY <2>3, <2>4
  <2> HIDE DEF Upto
  <2> QED BY <2>5
<1>4. \A m \in Nat : m \in T
  <2> HIDE DEF T
  <2> QED BY <1>2, <1>3, Induction
<1>5. ASSUME NEW a \in Nat, NEW b \in Nat, NEW g \in Upto(a), NEW h \in Upto(b), a <= b
      PROVE  \A n \in 0 .. a : g[n] = h[n]
  <2> DEFINE F == {n \in 0 .. a : g[n] # h[n]}
  <2> SUFFICES ASSUME F # {} PROVE FALSE OBVIOUS
  <2>1. PICK n \in F : \A k \in F : n <= k
    <3>1. F \in SUBSET Nat OBVIOUS
    <3> HIDE DEF F
    <3> QED BY <3>1, LeastNat
  <2>2. n \in 0 .. a /\ n \in 0 .. b /\ n \in Nat BY <1>5
  <2>3. g[n] = Value(g, n) /\ h[n] = Value(h, n) BY <2>2
  <2>4. n >= Group BY <2>1, <2>2, <2>3, GroupFacts
  <2>5. n \div Group \in Nat /\ n \div Group < n BY <1>1, <2>2, <2>4
  <2>6. n \div Group \notin F BY <2>1, <2>2, <2>5
  <2>7. n \div Group \in 0 .. a BY <2>2, <2>5
  <2>8. g[n \div Group] = h[n \div Group] BY <2>6, <2>7
  <2>9. g[n] = h[n] BY <2>3, <2>8
  <2> QED BY <2>1, <2>9
<1> DEFINE c(m) == CHOOSE g : g \in Upto(m)
           G == [n \in Nat |-> c(n)[n]]
           Solves(g) == g = [n \in Nat |-> Value(g, n)]
<1>6. \A m \in Nat : c(m) \in Upto(m)
  <2> SUFFICES ASSUME NEW m \in Nat PROVE c(m) \in Upto(m) OBVIOUS
  <2>1. \E g : g \in Upto(m)
    <3>1. Upto(m) # {} BY <1>4
    <3> HIDE DEF Upto
    <3> QED BY <3>1
  <2> HIDE DEF Upto
  <2> QED BY <2>1
<1>7. ASSUME NEW n \in Nat PROVE G[n] = Value(G, n)
  <2> DEFINE g == c(n)
             q == n \div Group
  <2>1. g \in Upto(n) BY <1>6
  <2>2. G[n] = g[n] OBVIOUS
  <2>3. n \in 0 .. n OBVIOUS
  <2>4. g[n] = Value(g, n)
    <3> HIDE DEF g
    <3> QED BY <2>1, <2>3
  <2>5. CASE n < Group BY <2>2, <2>4, <2>5
  <2>6. CASE ~(n < Group)
    <3>1. q \in Nat /\ q < n /\ q <= n
      <4>1. n >= Group BY <2>6, GroupFacts
      <4> QED BY <1>1, <4>1
    <3>2. c(q) \in Upto(q) BY <1>6, <3>1
    <3>3. \A k \in 0 .. q : c(q)[k] = c(n)[k]
      <4> HIDE DEF Upto, c
      <4> QED BY <1>5, <2>1, <3>1, <3>2 DEF g
    <3>4. q \in 0 .. q BY <3>1
    <3>5. c(q)[q] = g[q] BY <3>3, <3>4
    <3>6. G[q] = g[q] BY <3>1, <3>5
    <3> HIDE DEF g, G
    <3> QED BY <2>2, <2>4, <2>6, <3>6
  <2> QED BY <2>5, <2>6
<1>8. \E g : Solves(g)
  <2>1. Solves(G)
    <3>1. G = [n \in Nat |-> G[n]] OBVIOUS
    <3> HIDE DEF G
    <3> QED BY <1>7, <3>1
  <2> HIDE DEF Solves, G
  <2> QED BY <2>1
<1>9. Groups = CHOOSE g : Solves(g) BY DEF Groups
<1>10. Solves(Groups)
  <2> HIDE DEF Solves
  <2> QED BY <1>8, <1>9
<1> QED BY <1>10

\* A larger exponent gives no smaller power.
LEMMA PowersGrow ==
  ASSUME NEW m \in Nat, NEW n \in Nat, m <= n
  PROVE  2 ^ m <= 2 ^ n
<1>1. n - m \in Nat /\ n = m + (n - m) OBVIOUS
<1>2. PICK k \in Nat : n = m + k BY <1>1
<1> DEFINE x == 2 ^ m
           y == 2 ^ k
<1>3. x \in Nat \ {0} /\ y \in Nat \ {0} BY Powers
<1>4. 2 ^ n = x * y BY <1>2, Powers
<1> HIDE DEF x, y
<1>5. x * y >= x BY <1>3
<1>6. 2 ^ n >= x BY <1>4, <1>5
<1>7. x \in Nat /\ 2 ^ n \in Nat BY <1>3, Powers
<1> QED BY <1>6, <1>7 DEF x

\* The bytes of the varint of n.
Shape(n) ==
  LET g == Groups[n]
      k == Len(g)
  IN /\ g \in Seq(Nat) /\ k >= 1
     /\ g[k] < Group
     /\ \A j \in 1 .. k : j < k => g[j] >= Group
     /\ \A j \in 1 .. k : g[j] % Group = (n \div 2 ^ (GroupBits * (j - 1))) % Group
     /\ n < 2 ^ (GroupBits * k)
     /\ k = 1 \/ n >= 2 ^ (GroupBits * (k - 1))

\* One more group in a number multiplies what it can hold by Group.
LEMMA Scaled ==
  ASSUME NEW j \in Nat
  PROVE  /\ GroupBits * j \in Nat /\ 2 ^ (GroupBits * j) \in Nat \ {0}
         /\ 2 ^ (GroupBits * (j + 1)) = Group * 2 ^ (GroupBits * j)
<1>1. GroupBits * j \in Nat BY GroupFacts
<1>2. GroupBits * (j + 1) = GroupBits + GroupBits * j BY GroupFacts
<1>3. 2 ^ (GroupBits + GroupBits * j) = 2 ^ GroupBits * 2 ^ (GroupBits * j)
  BY <1>1, GroupFacts, Powers
<1> QED BY <1>1, <1>2, <1>3, Powers DEF Group

\* Taking a group from a number leaves the groups after it as they are.
LEMMA GroupTaken ==
  ASSUME NEW n \in Nat, NEW rest \in Nat \ {0}
  PROVE  n \div (Group * rest) = (n \div Group) \div rest
<1>1. Group \in Nat \ {0} /\ n \in Int BY GroupFacts
<1>2. DividesInTwo(n, Group, rest) BY <1>1, DivideTwice
<1> QED BY <1>2 DEF DividesInTwo

\* dump_varint marks every byte but the last as one that has another after it, writes the
\* groups of the number in order, and writes no more bytes than the number needs.
LEMMA GroupsShape == \A n \in Nat : Shape(n)
<1> DEFINE F == {n \in Nat : ~ Shape(n)}
<1> SUFFICES ASSUME F # {} PROVE FALSE OBVIOUS
<1>1. PICK n \in F : \A m \in F : n <= m
  <2>1. F \in SUBSET Nat OBVIOUS
  <2> HIDE DEF F
  <2> QED BY <2>1, LeastNat
<1>2. n \in Nat /\ ~ Shape(n) OBVIOUS
<1>3. \A m \in Nat : m < n => Shape(m) BY <1>1
<1> HIDE DEF F
<1>4. CASE n < Group
  <2>1. Groups[n] = <<n>> BY <1>2, <1>4, GroupsDef
  <2>2. <<n>> \in Seq(Nat) /\ Len(<<n>>) = 1 /\ <<n>>[1] = n BY <1>2
  <2>3. 2 ^ (GroupBits * 0) = 1 /\ 2 ^ (GroupBits * 1) = Group
    <3>1. GroupBits * 0 = 0 /\ GroupBits * 1 = GroupBits BY GroupFacts
    <3> QED BY <3>1, Powers DEF Group
  <2>4. \A j \in 1 .. 1 : j = 1 /\ j - 1 = 0 OBVIOUS
  <2>5. n \div 1 = n BY <1>2
  <2> QED BY <1>2, <1>4, <2>1, <2>2, <2>3, <2>4, <2>5 DEF Shape
<1>5. CASE ~ (n < Group)
  <2> DEFINE m == n \div Group
             r == n % Group
             h == Groups[m]
             k == Len(h)
             g == <<Group + r>> \o h
  <2>1. m \in Int /\ r \in 0 .. Group - 1 /\ n = Group * m + r
    BY <1>2, GroupFacts, DivisionRemainder
  <2>2. m \in Nat /\ m < n /\ m >= 1
    <3> HIDE DEF m, r
    <3>1. m >= 1
      <4> SUFFICES ASSUME m <= 0 PROVE FALSE BY <2>1
      <4>1. Group * m <= 0 BY <2>1, GroupFacts
      <4> QED BY <1>2, <1>5, <2>1, <4>1, GroupFacts
    <3>2. Group * m >= 8 * m BY <2>1, <3>1, GroupFacts
    <3>3. Group * m \in Int BY <2>1, GroupFacts
    <3> QED BY <1>2, <2>1, <3>1, <3>2, <3>3
  <2>3. Shape(m) BY <1>3, <2>2
  <2>4. Groups[n] = g BY <1>2, <1>5, GroupsDef
  <2>5. /\ h \in Seq(Nat) /\ k >= 1 /\ h[k] < Group
        /\ \A j \in 1 .. k : j < k => h[j] >= Group
        /\ \A j \in 1 .. k : h[j] % Group = (m \div 2 ^ (GroupBits * (j - 1))) % Group
        /\ m < 2 ^ (GroupBits * k)
        /\ k = 1 \/ m >= 2 ^ (GroupBits * (k - 1))
    BY <2>3 DEF Shape
  <2> HIDE DEF m, r, h
  <2>6. k \in Nat /\ <<Group + r>> \in Seq(Nat) BY <2>1, <2>5, GroupFacts
  <2>7. /\ g \in Seq(Nat) /\ Len(g) = k + 1 /\ g[1] = Group + r
        /\ \A j \in 2 .. k + 1 : g[j] = h[j - 1]
    BY <2>5, <2>6
  <2> HIDE DEF g, k
  <2>8. g[k + 1] < Group
    <3>1. k + 1 \in 2 .. k + 1 /\ (k + 1) - 1 = k BY <2>5, <2>6
    <3> QED BY <2>5, <2>7, <3>1
  <2>9. ASSUME NEW j \in 1 .. k + 1, j < k + 1 PROVE g[j] >= Group
    <3>1. CASE j = 1 BY <2>1, <2>7, <3>1, GroupFacts
    <3>2. CASE j # 1
      <4>1. j \in 2 .. k + 1 /\ j - 1 \in 1 .. k /\ j - 1 < k BY <2>6, <2>9, <3>2
      <4> QED BY <2>5, <2>7, <4>1
    <3> QED BY <3>1, <3>2
  <2>10. ASSUME NEW j \in 1 .. k + 1
         PROVE  g[j] % Group = (n \div 2 ^ (GroupBits * (j - 1))) % Group
    <3>1. CASE j = 1
      <4>1. GroupBits * (j - 1) = 0 BY <3>1, GroupFacts
      <4>2. n \div 2 ^ (GroupBits * (j - 1)) = n BY <1>2, <4>1, Powers
      <4>3. (Group + r) % Group = r
        <5>1. (Group * 1 + r) % Group = r BY <2>1, GroupFacts, DivisionUnique
        <5>2. Group * 1 + r = Group + r BY <2>1, GroupFacts
        <5> QED BY <5>1, <5>2
      <4> QED BY <2>7, <3>1, <4>2, <4>3 DEF r
    <3>2. CASE j # 1
      <4> DEFINE i == j - 2
                 b == 2 ^ (GroupBits * i)
      <4>1. i \in Nat /\ j - 1 = i + 1 /\ j - 1 \in 1 .. k /\ j \in 2 .. k + 1
            /\ (j - 1) - 1 = i
        BY <2>6, <3>2
      <4>2. g[j] % Group = (m \div b) % Group BY <2>5, <2>7, <4>1
      <4>3. 2 ^ (GroupBits * (j - 1)) = Group * b /\ b \in Nat \ {0} BY <4>1, Scaled
      <4> HIDE DEF b
      <4>4. n \div (Group * b) = (n \div Group) \div b
        <5>1. b \in Nat \ {0} BY <4>3
        <5> QED BY <1>2, <5>1, GroupTaken
      <4> QED BY <4>2, <4>3, <4>4 DEF m
    <3> QED BY <3>1, <3>2
  <2> DEFINE p == 2 ^ (GroupBits * k)
  <2>11. p \in Nat \ {0} /\ 2 ^ (GroupBits * (k + 1)) = Group * p BY <2>6, Scaled
  <2>12. n < Group * p
    <3> HIDE DEF p
    <3>1. m <= p - 1 BY <2>2, <2>5, <2>11 DEF p
    <3>2. Group * m <= Group * (p - 1) BY <2>2, <2>11, <3>1, GroupFacts
    <3>3. Group * (p - 1) = Group * p - Group BY <2>11, GroupFacts
    <3>4. Group * m \in Int /\ Group * p \in Int BY <2>2, <2>11, GroupFacts
    <3> QED BY <2>1, <3>2, <3>3, <3>4, GroupFacts
  <2>13. n >= p
    <3>1. CASE k = 1
      <4>1. GroupBits * k = GroupBits BY <3>1, GroupFacts
      <4> QED BY <1>2, <1>5, <4>1, GroupFacts DEF Group
    <3>2. CASE k # 1
      <4> DEFINE b == 2 ^ (GroupBits * (k - 1))
      <4>1. k - 1 \in Nat /\ (k - 1) + 1 = k BY <2>5, <2>6, <3>2
      <4>2. p = Group * b /\ b \in Nat \ {0} BY <4>1, Scaled
      <4>3. m >= b BY <2>5, <3>2
      <4> HIDE DEF b, p
      <4>4. Group * m >= Group * b BY <2>2, <4>2, <4>3, GroupFacts
      <4>5. Group * m \in Int /\ Group * b \in Int BY <2>2, <4>2, GroupFacts
      <4> QED BY <2>1, <4>2, <4>4, <4>5, GroupFacts
    <3> QED BY <3>1, <3>2
  <2>14. Len(Groups[n]) = k + 1 /\ (k + 1) - 1 = k /\ k + 1 >= 1 BY <2>4, <2>6, <2>7
  <2>15. Shape(n)
    <3> HIDE DEF p
    <3>1. n < 2 ^ (GroupBits * (k + 1)) /\ n >= 2 ^ (GroupBits * ((k + 1) - 1))
      BY <2>11, <2>12, <2>13, <2>14 DEF p
    <3> QED BY <2>4, <2>7, <2>8, <2>9, <2>10, <2>14, <3>1 DEF Shape
  <2> QED BY <1>2, <2>15
<1> QED BY <1>4, <1>5

-----------------------------------------------------------------------------
\* A number of a word takes no more bytes than load_varint reads.
LEMMA VarintFits ==
  ASSUME NEW n \in Nat, n < WordMod
  PROVE  Len(Groups[n]) \in 1 .. MaxGroups
<1> DEFINE k == Len(Groups[n])
<1>1. Shape(n) BY GroupsShape
<1>2. k \in Nat /\ k >= 1 BY <1>1 DEF Shape
<1>3. WordBits \in Nat /\ WordBits >= 1 /\ GroupBits \in Nat /\ GroupBits >= 3
  BY WidthsAssumption
<1>4. MaxGroups \in Int /\ WordBits <= GroupBits * MaxGroups
  <2> DEFINE a == WordBits + GroupBits - 1
             q == a \div GroupBits
             r == a % GroupBits
  <2>1. a \in Int /\ GroupBits \in Nat /\ GroupBits > 0 BY <1>3
  <2>2. q \in Int /\ r \in 0 .. GroupBits - 1 /\ a = GroupBits * q + r
    <3> HIDE DEF a
    <3> QED BY <2>1, DivisionRemainder
  <2>3. GroupBits * q \in Int BY <1>3, <2>2
  <2> HIDE DEF q, r
  <2>4. WordBits <= GroupBits * q BY <1>3, <2>2, <2>3
  <2> QED BY <2>2, <2>4 DEF MaxGroups, q
<1>5. MaxGroups >= 1
  <2> SUFFICES ASSUME MaxGroups <= 0 PROVE FALSE BY <1>4
  <2>1. GroupBits * MaxGroups <= 0 BY <1>3, <1>4
  <2> QED BY <1>3, <1>4, <2>1
<1>6. k <= MaxGroups
  <2> SUFFICES ASSUME k > MaxGroups PROVE FALSE BY <1>2, <1>4
  <2> HIDE DEF k
  <2>1. k # 1 BY <1>2, <1>4, <1>5
  <2>2. n >= 2 ^ (GroupBits * (k - 1)) BY <1>1, <2>1 DEF Shape, k
  <2>3. GroupBits * (k - 1) >= GroupBits * MaxGroups BY <1>2, <1>3, <1>4
  <2>4. GroupBits * (k - 1) \in Nat BY <1>2, <1>3
  <2>5. WordBits <= GroupBits * (k - 1) BY <1>3, <1>4, <2>3, <2>4
  <2>6. WordMod <= 2 ^ (GroupBits * (k - 1)) BY <1>3, <2>4, <2>5, PowersGrow DEF WordMod
  <2>7. WordMod \in Nat /\ 2 ^ (GroupBits * (k - 1)) \in Nat BY <1>3, <2>4, Powers DEF WordMod
  <2> QED BY <2>2, <2>6, <2>7
<1> QED BY <1>2, <1>4, <1>6

\* Where the bytes of a number are in the stream, load_varint loads the number.
LEMMA VarintLoaded ==
  ASSUME NEW n \in Nat, n < WordMod, NEW s, Len(s) \in Nat, NEW i \in Nat,
         i + Len(Groups[n]) <= Len(s),
         \A j \in 1 .. Len(Groups[n]) : s[i + j] = Groups[n][j]
  PROVE  LoadVarint(s, i) = [end |-> "ok", next |-> i + Len(Groups[n]), value |-> n]
<1> DEFINE g == Groups[n]
           k == Len(g)
           last == {j \in 1 .. MaxGroups : i + j <= Len(s) /\ s[i + j] < Group}
           digits == [j \in 1 .. k |-> s[i + j] % Group]
<1>1. Shape(n) BY GroupsShape
<1>2. k \in 1 .. MaxGroups /\ MaxGroups \in Int
  <2>1. MaxGroups \in Int
    <3>1. WordBits + GroupBits - 1 \in Int /\ GroupBits \in Nat /\ GroupBits > 0
      BY WidthsAssumption
    <3> QED BY <3>1, DivisionRemainder DEF MaxGroups
  <2> QED BY <2>1, VarintFits
<1>3. \A j \in 1 .. k : s[i + j] = g[j] OBVIOUS
<1>4. /\ g[k] < Group
      /\ \A j \in 1 .. k : j < k => g[j] >= Group
      /\ \A j \in 1 .. k : g[j] % Group = (n \div 2 ^ (GroupBits * (j - 1))) % Group
      /\ g \in Seq(Nat) /\ n < 2 ^ (GroupBits * k)
  BY <1>1 DEF Shape
<1>5. i + k <= Len(s) OBVIOUS
<1>6. k \in last
  <2>1. k \in 1 .. k BY <1>2
  <2>2. s[i + k] = g[k]
    <3> HIDE DEF k, g
    <3> QED BY <1>3, <2>1
  <2>3. s[i + k] < Group BY <1>4, <2>2
  <2> HIDE DEF k
  <2> QED BY <1>2, <1>5, <2>3
<1>7. \A j \in last : k <= j
  <2> SUFFICES ASSUME NEW j \in last, j < k PROVE FALSE
    <3> HIDE DEF k
    <3> QED BY <1>2
  <2>1. j \in 1 .. k BY <1>2
  <2>2. s[i + j] = g[j] /\ g[j] >= Group /\ g[j] \in Nat
    <3>1. g[j] \in Nat
      <4>1. g \in Seq(Nat) /\ j \in 1 .. Len(g) BY <1>4, <2>1
      <4> HIDE DEF g, k
      <4> QED BY <4>1, ElementOfSeq
    <3> QED BY <1>3, <1>4, <2>1, <3>1
  <2> QED BY <2>2, GroupFacts
<1>8. Min(last) = k
  <2>1. last \subseteq Int OBVIOUS
  <2> HIDE DEF last, k
  <2> QED BY <1>6, <1>7, <2>1 DEF Min
<1>9. FromDigits(digits, GroupBits) = n
  <2>1. digits = [j \in 1 .. k |-> (n \div 2 ^ (GroupBits * (j - 1))) % 2 ^ GroupBits]
    BY <1>3, <1>4 DEF Group
  <2>2. n \in Int /\ GroupBits \in Nat \ {0} /\ k \in Nat BY <1>2, GroupFacts
  <2> HIDE DEF digits, k
  <2>3. FromDigits(digits, GroupBits) = n % 2 ^ (GroupBits * k)
    BY <2>1, <2>2, FromDigitsOf
  <2>4. 2 ^ (GroupBits * k) \in Nat /\ n < 2 ^ (GroupBits * k) BY <1>4, <2>2, Scaled DEF k
  <2>5. n % 2 ^ (GroupBits * k) = n
    <3> DEFINE m == 2 ^ (GroupBits * k)
    <3>1. m \in Nat /\ n < m BY <2>4
    <3> HIDE DEF m
    <3>2. n % m = n BY <3>1
    <3> QED BY <3>2 DEF m
  <2> QED BY <2>3, <2>5
<1> HIDE DEF digits, k, last
<1>10. last # {} BY <1>6
<1>11. LoadVarint(s, i) = [end |-> "ok", next |-> i + k, value |-> FromDigits(digits, GroupBits)]
  BY <1>8, <1>10 DEF LoadVarint, last, digits
<1> QED BY <1>9, <1>11 DEF k

-----------------------------------------------------------------------------
\* The widths are whole bytes, and the 32-bit types are no wider than a word.
LEMMA ByteFacts ==
  /\ 2 * Group = 2 ^ (GroupBits + 1) /\ GroupBits + 1 \in Nat \ {0}
  /\ WordBytes \in Nat /\ WordMod = 2 ^ ((GroupBits + 1) * WordBytes)
  /\ IntBytes \in Nat /\ IntMod = 2 ^ ((GroupBits + 1) * IntBytes)
<1> DEFINE W == GroupBits + 1
<1>1. GroupBits \in Nat /\ W \in Nat \ {0} /\ W > 0 BY WidthsAssumption
<1>2. 2 ^ W = 2 * 2 ^ GroupBits BY <1>1, PowerStep
<1>3. WordBits \in Nat /\ WordBits % W = 0 /\ IntBits \in Nat /\ IntBits % W = 0
  BY WidthsAssumption
<1>4. ASSUME NEW b \in Nat, b % W = 0 PROVE b \div W \in Nat /\ b = W * (b \div W)
  <2> DEFINE q == b \div W
  <2> HIDE DEF W
  <2>1. q \in Int /\ b = W * q + (b % W) BY <1>1, DivisionRemainder
  <2> HIDE DEF q
  <2>2. W * q \in Int /\ b = W * q BY <1>1, <1>4, <2>1
  <2>3. q >= 0
    <3> SUFFICES ASSUME q <= -1 PROVE FALSE BY <2>1
    <3>1. W * q <= W * (-1) BY <1>1, <2>1
    <3> QED BY <1>1, <2>2, <3>1
  <2> QED BY <2>1, <2>2, <2>3 DEF q
<1> HIDE DEF W
<1>5. /\ WordBits \div W \in Nat /\ WordBits = W * (WordBits \div W)
      /\ IntBits \div W \in Nat /\ IntBits = W * (IntBits \div W)
  BY <1>3, <1>4
<1>6. WordBytes = WordBits \div W /\ IntBytes = IntBits \div W
  BY DEF WordBytes, IntBytes, W
<1>7. /\ WordMod = 2 ^ (W * WordBytes) /\ IntMod = 2 ^ (W * IntBytes)
      /\ WordBytes \in Nat /\ IntBytes \in Nat
  BY <1>5, <1>6 DEF WordMod, IntMod
<1> QED BY <1>1, <1>2, <1>7 DEF W, Group

\* The moduli are even, and the one of a type divides that of a word.
LEMMA ModulusFacts ==
  ASSUME NEW t
  PROVE  /\ Modulus(t) \in Nat \ {0} /\ WordMod \in Nat \ {0}
         /\ \E h \in Nat \ {0} : Modulus(t) = 2 * h
         /\ \E c \in Nat \ {0} : WordMod = Modulus(t) * c
<1>1. /\ WordBits \in Nat /\ WordBits - 1 \in Nat /\ WordBits = (WordBits - 1) + 1
      /\ IntBits \in Nat /\ IntBits - 1 \in Nat /\ IntBits = (IntBits - 1) + 1
      /\ WordBits - IntBits \in Nat /\ WordBits = IntBits + (WordBits - IntBits)
  BY WidthsAssumption
<1>2. WordMod \in Nat \ {0} /\ IntMod \in Nat \ {0} BY <1>1, Powers DEF WordMod, IntMod
<1>3. \E h \in Nat \ {0} : IntMod = 2 * h
  <2>1. 2 ^ (IntBits - 1) \in Nat \ {0} BY <1>1, Powers
  <2>2. IntMod = 2 * 2 ^ (IntBits - 1) BY <1>1, PowerStep DEF IntMod
  <2> QED BY <2>1, <2>2
<1>4. \E h \in Nat \ {0} : WordMod = 2 * h
  <2>1. 2 ^ (WordBits - 1) \in Nat \ {0} BY <1>1, Powers
  <2>2. WordMod = 2 * 2 ^ (WordBits - 1) BY <1>1, PowerStep DEF WordMod
  <2> QED BY <2>1, <2>2
<1>5. \E c \in Nat \ {0} : WordMod = IntMod * c
  <2>1. 2 ^ (WordBits - IntBits) \in Nat \ {0} BY <1>1, Powers
  <2>2. WordMod = IntMod * 2 ^ (WordBits - IntBits) BY <1>1, Powers DEF WordMod, IntMod
  <2> QED BY <2>1, <2>2
<1>6. WordMod = WordMod * 1 BY <1>2
<1>7. CASE Modulus(t) = WordMod BY <1>2, <1>4, <1>6, <1>7
<1>8. CASE Modulus(t) = IntMod BY <1>2, <1>3, <1>5, <1>8
<1>9. Modulus(t) = WordMod \/ Modulus(t) = IntMod BY DEF Modulus
<1> QED BY <1>7, <1>8, <1>9

\* A number cut to a modulus is the number up to a multiple of the modulus.
Congruent(a, b, m) == (a - b) % m = 0

\* Cutting a number to a modulus takes a multiple of the modulus from it.
LEMMA CutIsCongruent ==
  ASSUME NEW v \in Int, NEW m \in Nat \ {0}
  PROVE  v % m \in 0 .. m - 1 /\ Congruent(v % m, v, m)
<1> DEFINE q == v \div m
           r == v % m
<1>1. q \in Int /\ r \in 0 .. m - 1 /\ v = m * q + r BY DivisionRemainder
<1> HIDE DEF q, r
<1>2. r - v = m * (-q) + 0
  <2>1. m * (-q) = -(m * q) /\ m * q \in Int BY <1>1
  <2> QED BY <1>1, <2>1
<1>3. (m * (-q) + 0) % m = 0
  <2>1. -q \in Int /\ 0 \in 0 .. m - 1 /\ m > 0 BY <1>1
  <2> DEFINE p == -q
  <2> HIDE DEF p
  <2>2. p \in Int BY <2>1 DEF p
  <2>3. (m * p + 0) % m = 0 BY <2>1, <2>2, DivisionUnique
  <2> QED BY <2>3 DEF p
<1>4. (r - v) % m = 0 BY <1>2, <1>3
<1> QED BY <1>1, <1>4 DEF r, Congruent

\* A multiple of the modulus makes no difference to the cut.
LEMMA CongruentSum ==
  ASSUME NEW v \in Int, NEW m \in Nat \ {0}, NEW c \in Int
  PROVE  (v + m * c) % m = v % m
<1> DEFINE q == v \div m
           r == v % m
<1>1. q \in Int /\ r \in 0 .. m - 1 /\ v = m * q + r BY DivisionRemainder
<1> HIDE DEF q, r
<1>2. v + m * c = m * (q + c) + r
  <2>1. m * (q + c) = m * q + m * c /\ m * q \in Int /\ m * c \in Int BY <1>1
  <2> QED BY <1>1, <2>1
<1>3. (m * (q + c) + r) % m = r
  <2> DEFINE p == q + c
  <2>1. p \in Int /\ m > 0 BY <1>1
  <2> HIDE DEF p
  <2>2. (m * p + r) % m = r BY <1>1, <2>1, DivisionUnique
  <2> QED BY <2>2 DEF p
<1> QED BY <1>2, <1>3 DEF r

\* Reading the sign of a cut number gives back a signed value, and always a signed value.
LEMMA SignedCut ==
  ASSUME NEW v \in Int, NEW h \in Nat \ {0}, NEW m, m = 2 * h
  PROVE  /\ m \div 2 = h
         /\ Signed(v % m, m) \in -h .. h - 1
         /\ Congruent(Signed(v % m, m), v, m)
         /\ v \in -h .. h - 1 => Signed(v % m, m) = v
<1>1. m \in Nat \ {0} /\ m \in Nat /\ m > 0 /\ m \div 2 = h OBVIOUS
<1> DEFINE q == v \div m
           r == v % m
<1>2. q \in Int /\ r \in 0 .. m - 1 /\ v = m * q + r
  BY <1>1, DivisionRemainder, Zenon
<1>3. Congruent(r, v, m) BY <1>1, CutIsCongruent
<1> HIDE DEF q, r
<1>4. Signed(r, m) = IF r < h THEN r ELSE r - m BY <1>1 DEF Signed
<1>5. Signed(r, m) \in -h .. h - 1 BY <1>1, <1>2, <1>4
<1>6. Congruent(Signed(r, m), v, m)
  <2>1. CASE r < h BY <1>3, <1>4, <2>1
  <2>2. CASE ~(r < h)
    <3>1. r - v \in Int /\ (r - v) % m = 0 BY <1>2, <1>3 DEF Congruent
    <3> DEFINE d == r - v
    <3> HIDE DEF d
    <3>2. d \in Int /\ d % m = 0 BY <3>1 DEF d
    <3>3. PICK k \in Int : k = -1 OBVIOUS
    <3>4. (d + m * k) % m = d % m BY <1>1, <3>2, CongruentSum, Zenon
    <3>5. (r - m) - v = d + m * k BY <1>1, <1>2, <3>3 DEF d
    <3>6. ((r - m) - v) % m = 0 BY <3>2, <3>4, <3>5
    <3> QED BY <1>4, <2>2, <3>6 DEF Congruent
  <2> QED BY <2>1, <2>2
<1>7. ASSUME v \in -h .. h - 1 PROVE Signed(r, m) = v
  <2>1. q < 1
    <3> SUFFICES ASSUME q >= 1 PROVE FALSE BY <1>2
    <3>1. m * q >= m /\ m * q \in Int BY <1>1, <1>2
    <3> QED BY <1>1, <1>2, <1>7, <3>1
  <2>2. q > -2
    <3> SUFFICES ASSUME q <= -2 PROVE FALSE BY <1>2
    <3>1. m * q <= m * (-2) /\ m * q \in Int BY <1>1, <1>2
    <3> QED BY <1>1, <1>2, <1>7, <3>1
  <2>3. q = 0 \/ q = -1 BY <1>2, <2>1, <2>2
  <2>4. CASE q = 0 BY <1>1, <1>2, <1>4, <1>7, <2>4
  <2>5. CASE q = -1 BY <1>1, <1>2, <1>4, <1>7, <2>5
  <2> QED BY <2>3, <2>4, <2>5
<1> QED BY <1>1, <1>5, <1>6, <1>7 DEF r

-----------------------------------------------------------------------------
\* The number a field carries: of a varint the value in two's complement, of a fixed-width
\* field its bytes.
Carried(t, v) ==
  IF t \in VarintTypes
  THEN LET w == OnWire(t, v) IN IF w < 0 THEN w + WordMod ELSE w
  ELSE v % Modulus(t)

SignedTypes == {"int32", "int64", "enum"}

\* What _postprocess_single cuts to: the values of the type, but those of an int64 for an
\* enum.
CutRange(t) ==
  CASE t \in UnsignedTypes -> 0 .. Modulus(t) - 1
    [] t = "bool"          -> {0, 1}
    [] OTHER               -> -(Modulus(t) \div 2) .. Modulus(t) \div 2 - 1

\* Only for an enum do the values of the type and what the code cuts to differ.
LEMMA RangesCut ==
  ASSUME NEW t \in ScalarTypes
  PROVE  /\ t # "enum" => SizeOf(t) = Modulus(t) /\ RangeOf(t) = CutRange(t)
         /\ RangeOf(t) \subseteq CutRange(t)
<1>1. CASE t # "enum"
  <2>1. SizeOf(t) = Modulus(t)
    BY <1>1 DEF SizeOf, Modulus, ScalarTypes, VarintTypes, LongTypes, Fixed32, Fixed64
  <2> QED BY <1>1, <2>1 DEF RangeOf, CutRange
<1>2. CASE t = "enum"
  <2>1. t \notin UnsignedTypes /\ t # "bool" BY <1>2 DEF UnsignedTypes
  <2>2. SizeOf(t) = IntMod BY <1>2 DEF SizeOf
  <2>3. Modulus(t) = WordMod BY <1>2 DEF Modulus, LongTypes
  <2>4. RangeOf(t) = -(IntMod \div 2) .. IntMod \div 2 - 1 BY <2>1, <2>2 DEF RangeOf
  <2>5. CutRange(t) = -(WordMod \div 2) .. WordMod \div 2 - 1 BY <2>1, <2>3 DEF CutRange
  <2>6. IntMod \in Nat /\ WordMod \in Nat /\ IntMod <= WordMod
    <3>1. Modulus("int32") = IntMod BY DEF Modulus, LongTypes, Fixed64
    <3>2. PICK c \in Nat \ {0} : WordMod = IntMod * c BY <3>1, ModulusFacts
    <3>3. IntMod \in Nat /\ WordMod \in Nat BY <3>1, ModulusFacts
    <3> QED BY <3>2, <3>3
  <2>7. IntMod \div 2 <= WordMod \div 2 /\ IntMod \div 2 \in Nat /\ WordMod \div 2 \in Nat
    BY <2>6
  <2> QED BY <1>2, <2>4, <2>5, <2>7
<1> QED BY <1>1, <1>2

\* The ranges of the types, in halves of their moduli.
LEMMA RangeFacts ==
  ASSUME NEW t \in ScalarTypes, NEW h \in Nat \ {0}, Modulus(t) = 2 * h
  PROVE  /\ t \in UnsignedTypes => CutRange(t) = 0 .. 2 * h - 1
         /\ t = "bool" => CutRange(t) = {0, 1}
         /\ t \notin UnsignedTypes \cup {"bool"} => CutRange(t) = -h .. h - 1
<1>1. Modulus(t) \div 2 = h OBVIOUS
<1>2. ASSUME t \in UnsignedTypes PROVE CutRange(t) = 0 .. 2 * h - 1
  <2>0. t # "bool" BY <1>2 DEF UnsignedTypes
  <2>1. CutRange(t) = 0 .. Modulus(t) - 1 BY <1>2, <2>0 DEF CutRange
  <2> QED BY <2>1
<1>3. ASSUME t = "bool" PROVE CutRange(t) = {0, 1}
  <2>1. t \notin UnsignedTypes BY <1>3 DEF UnsignedTypes
  <2> QED BY <1>3, <2>1 DEF CutRange
<1>4. ASSUME t \notin UnsignedTypes \cup {"bool"} PROVE CutRange(t) = -h .. h - 1
  <2>1. t \notin UnsignedTypes /\ t # "bool" BY <1>4
  <2> QED BY <1>1, <2>1 DEF CutRange
<1> QED BY <1>2, <1>3, <1>4

\* The cases of _postprocess_single are all the types there are.
LEMMA TypesFacts ==
  ASSUME NEW t \in ScalarTypes
  PROVE  t \in SignedTypes \/ t \in {"uint32", "uint64"} \/ t \in {"sint32", "sint64"}
         \/ t = "bool" \/ t \in {"sfixed32", "sfixed64"} \/ t \in {"fixed32", "fixed64"}
BY DEF ScalarTypes, VarintTypes, LongTypes, Fixed32, Fixed64, SignedTypes

\* What a field of a plain type carries fits a word, and is the value up to a multiple of
\* the modulus of every type.
LEMMA PlainCarried ==
  ASSUME NEW t \in SignedTypes \cup {"uint32", "uint64", "bool"}, NEW v \in CutRange(t)
  PROVE  /\ v \in Int /\ Encodable(OnWire(t, v)) /\ Carried(t, v) \in 0 .. WordMod - 1
         /\ \A u : Carried(t, v) % Modulus(u) = v % Modulus(u)
         /\ Carried(t, v) > 0 <=> v # 0
<1>1. t \in ScalarTypes /\ t \in VarintTypes /\ t \notin {"sint32", "sint64"}
  BY DEF ScalarTypes, VarintTypes, LongTypes, SignedTypes
<1>2. PICK h \in Nat \ {0} : Modulus(t) = 2 * h BY ModulusFacts
<1>3. PICK c \in Nat \ {0} : WordMod = Modulus(t) * c BY ModulusFacts
<1>4. Modulus(t) <= WordMod /\ WordMod \in Nat \ {0} /\ WordMod = 2 * (h * c)
      /\ h * c \in Nat /\ h <= h * c
  <2>1. WordMod \in Nat \ {0} BY ModulusFacts
  <2>2. (2 * h) * c = 2 * (h * c) /\ h * c \in Nat /\ h <= h * c OBVIOUS
  <2>3. WordMod = 2 * (h * c) BY <1>2, <1>3, <2>2
  <2> QED BY <1>2, <2>1, <2>2, <2>3
<1> DEFINE k == h * c
<1>5. k \in Nat /\ h <= k /\ WordMod = 2 * k BY <1>4
<1> HIDE DEF k
<1>6. v \in -h .. 2 * h - 1
  <2>1. CutRange(t) \subseteq -h .. 2 * h - 1
    <3>1. CutRange(t) = 0 .. 2 * h - 1 \/ CutRange(t) = {0, 1} \/ CutRange(t) = -h .. h - 1
      BY <1>1, <1>2, RangeFacts
    <3> QED BY <3>1
  <2> QED BY <2>1
<1>7. OnWire(t, v) = v BY <1>1 DEF OnWire
<1>8. Carried(t, v) = IF v < 0 THEN v + WordMod ELSE v BY <1>1, <1>7 DEF Carried
<1>9. Encodable(OnWire(t, v))
  <2>1. WordMod \div 2 = k BY <1>5
  <2> QED BY <1>5, <1>6, <1>7, <2>1 DEF Encodable
<1>10. Carried(t, v) \in 0 .. WordMod - 1 /\ (Carried(t, v) > 0 <=> v # 0)
  BY <1>5, <1>6, <1>8
<1>11. ASSUME NEW u PROVE Carried(t, v) % Modulus(u) = v % Modulus(u)
  <2> DEFINE m == Modulus(u)
  <2>1. PICK e \in Nat \ {0} : WordMod = m * e BY ModulusFacts
  <2>2. m \in Nat \ {0} BY ModulusFacts
  <2> HIDE DEF m
  <2>3. v \in Int /\ e \in Int BY <1>6
  <2>4. (v + m * e) % m = v % m BY <2>2, <2>3, CongruentSum, Zenon
  <2>5. v + WordMod = v + m * e BY <2>1
  <2> QED BY <1>8, <2>4, <2>5 DEF m
<1> QED BY <1>6, <1>9, <1>10, <1>11

\* _preprocess_single accepts every value of its type, what it writes fits, and
\* _postprocess_single makes the value of it again.
LEMMA ValueComesBack ==
  ASSUME NEW t \in ScalarTypes, NEW v \in CutRange(t)
  PROVE  /\ v \in Int /\ Accepts(t, v) /\ Carried(t, v) \in 0 .. WordMod - 1
         /\ Postprocess(t, Carried(t, v)) = v
<1> DEFINE M == Modulus(t)
<1>1. PICK h \in Nat \ {0} : M = 2 * h BY ModulusFacts
<1>2. PICK c \in Nat \ {0} : WordMod = M * c BY ModulusFacts
<1>3. M \in Nat \ {0} /\ WordMod \in Nat \ {0} /\ M <= WordMod
  <2>1. M \in Nat \ {0} /\ WordMod \in Nat \ {0} BY ModulusFacts
  <2> HIDE DEF M
  <2> QED BY <1>2, <2>1
<1>4. M \div 2 = h BY <1>1
<1>5. M = Modulus(t) OBVIOUS
<1> HIDE DEF M
<1>6. CASE t \in SignedTypes
  <2>1. /\ v \in Int /\ Encodable(OnWire(t, v)) /\ Carried(t, v) \in 0 .. WordMod - 1
        /\ Carried(t, v) % M = v % M
    BY <1>5, <1>6, PlainCarried
  <2>2. v \in -h .. h - 1
    <3>1. t \notin UnsignedTypes \cup {"bool"} BY <1>6 DEF SignedTypes, UnsignedTypes
    <3> QED BY <1>1, <1>5, <3>1, RangeFacts
  <2>3. Signed(v % M, M) = v BY <1>1, <2>1, <2>2, SignedCut
  <2>4. Postprocess(t, Carried(t, v)) = Signed(Carried(t, v) % M, M)
    BY <1>5, <1>6 DEF Postprocess, SignedTypes
  <2>5. t \in VarintTypes BY <1>6 DEF SignedTypes, VarintTypes, LongTypes
  <2> QED BY <2>1, <2>3, <2>4, <2>5 DEF Accepts
<1>7. CASE t \in {"uint32", "uint64"}
  <2>1. /\ v \in Int /\ Encodable(OnWire(t, v)) /\ Carried(t, v) \in 0 .. WordMod - 1
        /\ Carried(t, v) % M = v % M
    BY <1>5, <1>7, PlainCarried
  <2>2. v \in 0 .. M - 1
    <3>1. t \in UnsignedTypes BY <1>7 DEF UnsignedTypes
    <3> QED BY <1>1, <1>5, <3>1, RangeFacts
  <2>3. v % M = v BY <1>3, <2>2
  <2>4. Postprocess(t, Carried(t, v)) = Carried(t, v) % M BY <1>5, <1>7 DEF Postprocess
  <2>5. t \in VarintTypes BY <1>7 DEF VarintTypes, LongTypes
  <2> QED BY <2>1, <2>3, <2>4, <2>5 DEF Accepts
<1>8. CASE t \in {"sint32", "sint64"}
  <2>1. t \in VarintTypes /\ t \notin UnsignedTypes \cup {"bool"}
    BY <1>8 DEF VarintTypes, LongTypes, UnsignedTypes
  <2>2. v \in -h .. h - 1 BY <1>1, <1>5, <2>1, RangeFacts
  <2> DEFINE w == ZigZag(v)
  <2>3. w \in 0 .. M - 1 /\ UnZigZag(w) = v BY <1>1, <2>2 DEF ZigZag, UnZigZag
  <2>4. OnWire(t, v) = w BY <1>8 DEF OnWire
  <2> HIDE DEF w
  <2>5. Carried(t, v) = w BY <2>1, <2>3, <2>4, <1>3 DEF Carried
  <2>6. w % M = w BY <1>3, <2>3
  <2>7. Postprocess(t, w) = UnZigZag(w % M) BY <1>5, <1>8 DEF Postprocess
  <2>8. Encodable(w)
    <3>1. -(WordMod \div 2) <= 0 BY <1>3
    <3> QED BY <1>3, <2>3, <3>1 DEF Encodable
  <2> QED BY <1>3, <2>1, <2>2, <2>3, <2>4, <2>5, <2>6, <2>7, <2>8 DEF Accepts
<1>9. CASE t = "bool"
  <2>1. /\ v \in Int /\ Encodable(OnWire(t, v)) /\ Carried(t, v) \in 0 .. WordMod - 1
        /\ Carried(t, v) > 0 <=> v # 0
    BY <1>9, PlainCarried
  <2>2. v \in {0, 1} BY <1>1, <1>5, <1>9, RangeFacts
  <2>3. Postprocess(t, Carried(t, v)) = IF Carried(t, v) > 0 THEN 1 ELSE 0
    BY <1>9 DEF Postprocess
  <2>4. t \in VarintTypes BY <1>9 DEF VarintTypes
  <2> QED BY <2>1, <2>2, <2>3, <2>4 DEF Accepts
<1>10. CASE t \in {"sfixed32", "sfixed64"}
  <2>1. t \notin VarintTypes /\ t \notin UnsignedTypes \cup {"bool"}
        /\ t \notin {"fixed32", "fixed64"}
    BY <1>10 DEF VarintTypes, LongTypes, UnsignedTypes
  <2>2. v \in -h .. h - 1 BY <1>1, <1>5, <2>1, RangeFacts
  <2>3. Carried(t, v) = v % M BY <1>5, <2>1 DEF Carried
  <2>4. v % M \in 0 .. M - 1 BY <1>3, <2>2, CutIsCongruent
  <2>5. Signed(v % M, M) = v
    <3>1. v \in Int BY <2>2
    <3> QED BY <1>1, <2>2, <3>1, SignedCut
  <2>6. Postprocess(t, v % M) = Signed(v % M, M) BY <1>5, <1>10 DEF Postprocess
  <2>7. Accepts(t, v) BY <1>4, <1>5, <2>1, <2>2 DEF Accepts, Packable
  <2> QED BY <1>3, <2>2, <2>3, <2>4, <2>5, <2>6, <2>7
<1>11. CASE t \in {"fixed32", "fixed64"}
  <2>1. t \notin VarintTypes /\ t \in UnsignedTypes
    BY <1>11 DEF VarintTypes, LongTypes, UnsignedTypes
  <2>2. v \in 0 .. M - 1 BY <1>1, <1>5, <2>1, RangeFacts
  <2>3. Carried(t, v) = v % M /\ v % M = v BY <1>3, <1>5, <2>1, <2>2 DEF Carried
  <2>4. Postprocess(t, v) = v BY <1>11 DEF Postprocess
  <2>5. Accepts(t, v) BY <1>5, <1>11, <2>1, <2>2 DEF Accepts, Packable
  <2> QED BY <1>3, <2>2, <2>3, <2>4, <2>5
<1> QED BY <1>6, <1>7, <1>8, <1>9, <1>10, <1>11, TypesFacts

\* A value of a plain type that is loaded with another plain type is what a C cast gives.
LEMMA ValueIsCast ==
  ASSUME NEW t \in SignedTypes \cup {"uint32", "uint64", "bool"}, NEW v \in CutRange(t),
         NEW u \in SignedTypes \cup {"uint32", "uint64", "bool"}
  PROVE  LET r == Postprocess(u, Carried(t, v))
         IN /\ r \in CutRange(u)
            /\ IF u = "bool" THEN r = 1 <=> v # 0 ELSE Congruent(r, v, Modulus(u))
<1> DEFINE M == Modulus(u)
           r == Postprocess(u, Carried(t, v))
<1>1. u \in ScalarTypes BY DEF SignedTypes, ScalarTypes, VarintTypes, LongTypes
<1>2. PICK h \in Nat \ {0} : M = 2 * h BY ModulusFacts
<1>3. M \in Nat \ {0} BY ModulusFacts
<1>4. /\ v \in Int /\ Carried(t, v) \in Int /\ Carried(t, v) % M = v % M
      /\ Carried(t, v) > 0 <=> v # 0
  <2>1. Carried(t, v) \in 0 .. WordMod - 1 /\ WordMod \in Nat BY PlainCarried, ModulusFacts
  <2>2. Carried(t, v) \in Int BY <2>1
  <2> QED BY <2>2, PlainCarried
<1>5. M = Modulus(u) OBVIOUS
<1> HIDE DEF M
<1>6. CASE u \in SignedTypes
  <2>1. u # "bool" /\ u \notin UnsignedTypes BY <1>6 DEF SignedTypes, UnsignedTypes
  <2>2. r = Signed(v % M, M)
    <3>1. r = Signed(Carried(t, v) % M, M) BY <1>5, <1>6 DEF Postprocess, SignedTypes
    <3> QED BY <1>4, <3>1
  <2> HIDE DEF r
  <2>3. Signed(v % M, M) \in -h .. h - 1 /\ Congruent(Signed(v % M, M), v, M)
    BY <1>2, <1>4, SignedCut
  <2>4. CutRange(u) = -h .. h - 1 BY <1>1, <1>2, <1>5, <2>1, RangeFacts
  <2>5. r \in CutRange(u) /\ Congruent(r, v, M) BY <2>2, <2>3, <2>4
  <2> QED BY <1>5, <2>1, <2>5 DEF r
<1>7. CASE u \in {"uint32", "uint64"}
  <2>1. u # "bool" /\ u \in UnsignedTypes BY <1>7 DEF UnsignedTypes
  <2>2. r = v % M
    <3>1. r = Carried(t, v) % M BY <1>5, <1>7 DEF Postprocess
    <3> QED BY <1>4, <3>1
  <2> HIDE DEF r
  <2>3. v % M \in 0 .. M - 1 /\ Congruent(v % M, v, M) BY <1>3, <1>4, CutIsCongruent
  <2>4. CutRange(u) = 0 .. 2 * h - 1 BY <1>1, <1>2, <1>5, <2>1, RangeFacts
  <2>5. r \in CutRange(u) /\ Congruent(r, v, M) BY <1>2, <2>2, <2>3, <2>4
  <2> QED BY <1>5, <2>1, <2>5 DEF r
<1>8. CASE u = "bool"
  <2>1. r = IF Carried(t, v) > 0 THEN 1 ELSE 0 BY <1>8 DEF Postprocess
  <2> HIDE DEF r
  <2>2. CutRange(u) = {0, 1} BY <1>1, <1>2, <1>5, <1>8, RangeFacts
  <2>3. r \in CutRange(u) /\ (r = 1 <=> v # 0) BY <1>4, <2>1, <2>2
  <2> QED BY <1>8, <2>3 DEF r
<1> QED BY <1>6, <1>7, <1>8

-----------------------------------------------------------------------------
\* The bytes of a fixed-width field give back the number, cut to the width.
LEMMA LittleEndianBack ==
  ASSUME NEW v \in Int, NEW n \in Nat
  PROVE  /\ LittleEndian(v, n) \in Seq(Nat) /\ Len(LittleEndian(v, n)) = n
         /\ FromLittleEndian(LittleEndian(v, n)) = v % 2 ^ ((GroupBits + 1) * n)
<1> DEFINE W == GroupBits + 1
           b == LittleEndian(v, n)
<1>1. W \in Nat \ {0} /\ 2 * Group = 2 ^ W /\ W = GroupBits + 1 BY ByteFacts
<1> HIDE DEF W
<1>2. b = [j \in 1 .. n |-> (v \div 2 ^ (W * (j - 1))) % 2 ^ W]
  BY <1>1 DEF LittleEndian
<1>3. FromLittleEndian(b) = v % 2 ^ (W * n)
  <2> HIDE DEF b
  <2>1. FromDigits(b, W) = v % 2 ^ (W * n) BY <1>1, <1>2, FromDigitsOf
  <2> QED BY <1>1, <2>1 DEF FromLittleEndian
<1>4. \A j \in 1 .. n : b[j] \in Nat
  <2> SUFFICES ASSUME NEW j \in 1 .. n PROVE (v \div 2 ^ (W * (j - 1))) % 2 ^ W \in Nat
    BY <1>2
  <2>1. W * (j - 1) \in Nat BY <1>1
  <2>2. 2 ^ (W * (j - 1)) \in Nat \ {0} /\ 2 ^ W \in Nat \ {0} BY <1>1, <2>1, Powers
  <2>3. v \div 2 ^ (W * (j - 1)) \in Int BY <2>2, DivisionRemainder
  <2> QED BY <2>2, <2>3, DivisionRemainder
<1>5. b \in [1 .. n -> Nat] BY <1>2, <1>4
<1>6. b \in Seq(Nat) /\ Len(b) = n
  <2> HIDE DEF b
  <2> QED BY <1>5
<1> QED BY <1>1, <1>3, <1>6

-----------------------------------------------------------------------------
\* Bytes appended to bytes.
LEMMA Joined ==
  ASSUME NEW x \in Seq(Nat), NEW y \in Seq(Nat)
  PROVE  /\ x \o y \in Seq(Nat) /\ Len(x) \in Nat /\ Len(y) \in Nat
         /\ Len(x \o y) = Len(x) + Len(y)
         /\ \A j \in 1 .. Len(x) : (x \o y)[j] = x[j]
         /\ \A j \in 1 .. Len(y) : (x \o y)[Len(x) + j] = y[j]
OBVIOUS

\* Bytes read from the stream.
LEMMA Slice ==
  ASSUME NEW s \in Seq(Nat), NEW a \in Nat, NEW k \in Nat, a + k <= Len(s)
  PROVE  /\ SubSeq(s, a + 1, a + k) \in Seq(Nat) /\ Len(SubSeq(s, a + 1, a + k)) = k
         /\ \A j \in 1 .. k : SubSeq(s, a + 1, a + k)[j] = s[a + j]
<1>1. a + 1 \in Int /\ a + k \in Int /\ \A j \in a + 1 .. a + k : s[j] \in Nat OBVIOUS
<1> DEFINE m == a + 1
           n == a + k
<1>2. m \in Int /\ n \in Int /\ \A j \in m .. n : s[j] \in Nat BY <1>1
<1>3. n - m + 1 = k /\ (m <= n => k > 0) /\ (~ (m <= n) => k = 0)
      /\ \A j \in 1 .. k : m + j - 1 = a + j
  OBVIOUS
<1> HIDE DEF m, n
<1>4. /\ SubSeq(s, m, n) \in Seq(Nat)
      /\ Len(SubSeq(s, m, n)) = IF m <= n THEN n - m + 1 ELSE 0
      /\ \A j \in 1 .. n - m + 1 : SubSeq(s, m, n)[j] = s[m + j - 1]
  BY <1>2, SubSeqProperties
<1>5. Len(SubSeq(s, m, n)) = k BY <1>3, <1>4
<1>6. \A j \in 1 .. k : SubSeq(s, m, n)[j] = s[a + j] BY <1>3, <1>4
<1> QED BY <1>4, <1>5, <1>6 DEF m, n

\* One field at the start of a stream s with more behind it: load_fields finds it, with the
\* number it carries, and stops where the rest begins.
LoadsAsWritten(number, t, v, more, s) ==
  LET f == LoadField(s, 0)
  IN /\ f.end = "field" /\ f.number = number /\ f.next = Len(s) - Len(more)
     /\ Carried(t, v) = IF f.wire = VARINT THEN f.value
                        ELSE FromLittleEndian(f.value)

\* Every field that is written loads as it was written, whatever follows it.
LEMMA FieldLoaded ==
  ASSUME NEW number \in Numbers, NEW t \in ScalarTypes, NEW v \in CutRange(t),
         NEW more \in Seq(Nat), NEW s, s = Scalar(number, t, v) \o more
  PROVE  LoadsAsWritten(number, t, v, more, s)
<1> DEFINE w == WireType(t)
           n == number * 8 + w
           g == Groups[n]
           p == Preprocess(t, v)
           a == Len(g)
           b == Len(p)
<1>1. w \in {0, 1, 5} /\ (w = 0 <=> t \in VarintTypes)
  BY DEF WireType, VARINT, FIXED_32, FIXED_64
<1> HIDE DEF w
<1>2. number \in Nat /\ n \in Nat /\ n < WordMod /\ n % 8 = w /\ n \div 8 = number
  <2>1. number \in Nat /\ 8 * number + 7 < WordMod BY NumbersAssumption
  <2>2. WordMod \in Nat /\ w \in 0 .. 7 BY <1>1, ModulusFacts
  <2>3. number * 8 = 8 * number BY <2>1
  <2>4. n \in Nat /\ n < WordMod BY <2>1, <2>2, <2>3
  <2>5. n % 8 = w /\ n \div 8 = number
    <3>1. n = 8 * number + w BY <2>3
    <3>2. w \in 0 .. 8 - 1 /\ number \in Int BY <2>1, <2>2
    <3> HIDE DEF n
    <3>3. (8 * number + w) \div 8 = number /\ (8 * number + w) % 8 = w
      BY <3>2, DivisionUnique
    <3> QED BY <3>1, <3>3
  <2> QED BY <2>1, <2>4, <2>5
<1>3. v \in Int /\ Carried(t, v) \in Nat /\ Carried(t, v) < WordMod
  <2>1. WordMod \in Nat BY ModulusFacts
  <2> QED BY <2>1, ValueComesBack
<1>4. Tag(number, WireType(t)) = g
  <2>1. ~ (n < 0) BY <1>2
  <2> QED BY <2>1 DEF Tag, EncodeVarint, w
<1> HIDE DEF n
<1>5. g \in Seq(Nat) /\ a \in Nat
  <2>1. g \in Seq(Nat) BY <1>2, GroupsShape DEF Shape
  <2> HIDE DEF g
  <2> QED BY <2>1
<1>6. p \in Seq(Nat)
  <2>1. CASE t \in VarintTypes
    <3>1. p = Groups[Carried(t, v)] BY <2>1 DEF Preprocess, EncodeVarint, Carried
    <3> QED BY <1>3, <3>1, GroupsShape DEF Shape
  <2>2. CASE t \notin VarintTypes
    <3>1. p = LittleEndian(v, IntBytes) \/ p = LittleEndian(v, WordBytes)
      BY <2>2 DEF Preprocess
    <3> QED BY <1>3, <3>1, LittleEndianBack, ByteFacts
  <2> QED BY <2>1, <2>2
<1>7. /\ Len(s) = a + b + Len(more) /\ b \in Nat /\ Len(more) \in Nat
      /\ \A j \in 1 .. a : s[j] = g[j]
      /\ \A j \in 1 .. b : s[a + j] = p[j]
      /\ s \in Seq(Nat)
  <2> DEFINE m == g \o p
  <2>1. s = m \o more BY <1>4 DEF Scalar
  <2> HIDE DEF g, p
  <2>3. /\ m \in Seq(Nat) /\ Len(m) = a + b /\ b \in Nat
        /\ \A j \in 1 .. a : m[j] = g[j]
        /\ \A j \in 1 .. b : m[a + j] = p[j]
    BY <1>5, <1>6, Joined
  <2> HIDE DEF m
  <2>4. /\ s \in Seq(Nat) /\ Len(s) = Len(m) + Len(more) /\ Len(more) \in Nat
        /\ \A j \in 1 .. Len(m) : s[j] = m[j]
    <3>1. /\ m \o more \in Seq(Nat) /\ Len(m \o more) = Len(m) + Len(more)
          /\ Len(more) \in Nat /\ \A j \in 1 .. Len(m) : (m \o more)[j] = m[j]
      BY <2>3, Joined
    <3> QED BY <2>1, <3>1
  <2>5. \A j \in 1 .. a : j \in 1 .. Len(m) BY <1>5, <2>3
  <2>6. \A j \in 1 .. b : a + j \in 1 .. Len(m) BY <1>5, <2>3
  <2> QED BY <1>5, <2>3, <2>4, <2>5, <2>6
<1>8. LoadVarint(s, 0) = [end |-> "ok", next |-> a, value |-> n]
  <2>1. 0 + a <= Len(s) /\ Len(s) \in Nat /\ 0 + a = a BY <1>5, <1>7
  <2>2. \A j \in 1 .. a : 0 + j = j BY <1>5
  <2>3. \A j \in 1 .. a : s[0 + j] = g[j] BY <1>7, <2>2
  <2>4. PICK i \in Nat : i = 0 OBVIOUS
  <2>5. i + a <= Len(s) /\ (\A j \in 1 .. a : s[i + j] = g[j]) /\ Len(s) \in Nat
    BY <2>1, <2>3, <2>4
  <2>6. LoadVarint(s, i) = [end |-> "ok", next |-> i + a, value |-> n]
    BY <1>2, <2>5, VarintLoaded
  <2> HIDE DEF g
  <2> QED BY <2>1, <2>4, <2>6
<1>9. CASE t \in VarintTypes
  <2> DEFINE c == Carried(t, v)
  <2>1. p = Groups[c] BY <1>9 DEF Preprocess, EncodeVarint, Carried
  <2>2. c \in Nat /\ c < WordMod BY <1>3
  <2> HIDE DEF c, p, g
  <2>3. LoadVarint(s, a) = [end |-> "ok", next |-> a + b, value |-> c]
    <3>1. a + b <= Len(s) /\ Len(s) \in Nat /\ a \in Nat BY <1>5, <1>7
    <3> HIDE DEF a
    <3> QED BY <1>7, <2>1, <2>2, <3>1, VarintLoaded
  <2>4. w = 0 BY <1>1, <1>9
  <2>5. LoadField(s, 0) = [end |-> "field", next |-> a + b, number |-> number,
                           wire |-> 0, value |-> c]
    <3> DEFINE tag == LoadVarint(s, 0)
               num == LoadVarint(s, a)
    <3>1. tag.end = "ok" /\ tag.next = a /\ tag.value % 8 = 0 /\ tag.value \div 8 = number
      <4> HIDE DEF a
      <4>1. tag.end = "ok" /\ tag.next = a /\ tag.value = n BY <1>8
      <4>2. n % 8 = 0 /\ n \div 8 = number BY <1>2, <2>4
      <4> QED BY <4>1, <4>2
    <3>2. num.end = "ok" /\ num.next = a + b /\ num.value = c
      <4> HIDE DEF a, b
      <4> QED BY <2>3
    <3> HIDE DEF a, b
    <3> QED BY <3>1, <3>2 DEF LoadField, VARINT, LEN_DELIM
  <2>6. a + b = Len(s) - Len(more) BY <1>5, <1>7
  <2> QED BY <2>5, <2>6 DEF c, VARINT, LoadsAsWritten
<1>10. CASE t \notin VarintTypes
  <2> DEFINE width == IF t \in Fixed32 THEN IntBytes ELSE WordBytes
  <2>1. p = LittleEndian(v, width) BY <1>10 DEF Preprocess
  <2>2. width \in Nat /\ Modulus(t) = 2 ^ ((GroupBits + 1) * width)
    <3>1. CASE t \in Fixed32
      <4>1. t \notin LongTypes \cup Fixed64 BY <3>1 DEF LongTypes, Fixed32, Fixed64
      <4> QED BY <3>1, <4>1, ByteFacts DEF Modulus
    <3>2. CASE t \notin Fixed32
      <4>1. t \in LongTypes \cup Fixed64 BY <1>10, <3>2 DEF ScalarTypes
      <4> QED BY <3>2, <4>1, ByteFacts DEF Modulus
    <3> QED BY <3>1, <3>2
  <2>3. w = IF t \in Fixed32 THEN 5 ELSE 1
    BY <1>10 DEF w, WireType, FIXED_32, FIXED_64
  <2>4. b = width /\ FromLittleEndian(p) = Carried(t, v)
    <3> HIDE DEF width
    <3> QED BY <1>3, <1>10, <2>1, <2>2, LittleEndianBack DEF Carried
  <2> HIDE DEF p, g
  <2>5. Read(s, a, width) = p
    <3> HIDE DEF width
    <3>1. Min({a + width, Len(s)}) = a + width
      <4>1. a + width \in Int /\ Len(s) \in Int /\ a + width <= Len(s) BY <1>5, <1>7, <2>4
      <4> HIDE DEF a
      <4> QED BY <4>1 DEF Min
    <3> DEFINE r == SubSeq(s, a + 1, a + width)
    <3>2. Read(s, a, width) = r BY <3>1 DEF Read
    <3>3. r \in Seq(Nat) /\ Len(r) = width /\ \A j \in 1 .. width : r[j] = s[a + j]
      <4>1. /\ a \in Nat /\ b \in Nat /\ b = width /\ Len(s) = a + b + Len(more)
            /\ s \in Seq(Nat) /\ Len(more) \in Nat
        BY <1>5, <1>7, <2>4
      <4> HIDE DEF a, b
      <4>2. a + width <= Len(s) /\ width \in Nat BY <4>1
      <4> QED BY <4>1, <4>2, Slice
    <3>4. \A j \in 1 .. width : r[j] = p[j] BY <1>7, <2>4, <3>3
    <3> HIDE DEF r
    <3>5. r = p BY <1>6, <2>4, <3>3, <3>4, SeqEqual
    <3> QED BY <3>2, <3>5
  <2>6. AfterRead(s, a, width) = a + b BY <2>5 DEF AfterRead
  <2>9. \A length : ValueSize(w, length) = width
    <3>1. FIXED_64 # FIXED_32 /\ FIXED_64 # LEN_DELIM /\ FIXED_32 # LEN_DELIM
      BY DEF FIXED_64, FIXED_32, LEN_DELIM
    <3>2. \A length : ValueSize(FIXED_64, length) = WordBytes BY <3>1 DEF ValueSize
    <3>3. \A length : ValueSize(FIXED_32, length) = IntBytes BY <3>1 DEF ValueSize
    <3>4. w = IF t \in Fixed32 THEN FIXED_32 ELSE FIXED_64
      BY <2>3 DEF FIXED_64, FIXED_32
    <3> QED BY <3>2, <3>3, <3>4
  <2>7. LoadField(s, 0) = [end |-> "field", next |-> a + b, number |-> number,
                           wire |-> w, value |-> p]
    <3> HIDE DEF a, b, width
    <3> DEFINE tag == LoadVarint(s, 0)
    <3>1. tag.end = "ok" /\ tag.next = a /\ tag.value % 8 = w /\ tag.value \div 8 = number
      <4>1. tag.end = "ok" /\ tag.next = a /\ tag.value = n BY <1>8
      <4> QED BY <1>2, <4>1
    <3>2. w # 0 /\ w # 2 BY <1>1, <1>10
    <3> QED BY <2>5, <2>6, <2>9, <3>1, <3>2 DEF LoadField, VARINT, LEN_DELIM
  <2>8. a + b = Len(s) - Len(more) BY <1>5, <1>7
  <2> QED BY <1>1, <1>10, <2>4, <2>7, <2>8 DEF VARINT, LoadsAsWritten
<1> QED BY <1>9, <1>10

-----------------------------------------------------------------------------
\* What is in the stream is the field that was written, and something after it.
WrittenAsDeclared ==
  /\ field \in [number : Numbers, type : ScalarTypes, value : Values]
  /\ step \notin {"unwritten", "rejected"} =>
       encoded = Scalar(field.number, field.type, field.value) \o <<Group, 0>>

CodecInv == WrittenAsDeclared /\ RoundTrip /\ CastsLikeC

\* What is left of a value that an enum has room for is the value.
LEMMA EnumKept ==
  ASSUME NEW t \in SignedTypes \cup {"uint32", "uint64", "bool"}, NEW v \in CutRange(t),
         v \in RangeOf("enum")
  PROVE  Postprocess("enum", Carried(t, v)) = v
<1> DEFINE r == Postprocess("enum", Carried(t, v))
           M == Modulus("enum")
<1>1. "enum" \in SignedTypes /\ "enum" \in ScalarTypes /\ "enum" \notin UnsignedTypes
  BY DEF SignedTypes, ScalarTypes, VarintTypes, LongTypes, UnsignedTypes
<1>2. r \in CutRange("enum") /\ Congruent(r, v, M) BY <1>1, ValueIsCast
<1>3. v \in CutRange("enum") BY <1>1, RangesCut
<1>4. PICK h \in Nat \ {0} : M = 2 * h BY ModulusFacts
<1>5. CutRange("enum") = -h .. h - 1 BY <1>1, <1>4, RangeFacts
<1> HIDE DEF r, M
<1>6. r \in -h .. h - 1 /\ v \in -h .. h - 1 /\ (r - v) % M = 0
  BY <1>2, <1>3, <1>5 DEF Congruent
<1>7. M \in Nat /\ M > 0 BY <1>4
<1>8. CASE r >= v
  <2>1. r - v \in 0 .. M - 1 /\ r - v = M * 0 + (r - v) BY <1>4, <1>6, <1>8
  <2>2. (M * 0 + (r - v)) % M = r - v BY <1>7, <2>1, DivisionUnique
  <2> QED BY <1>6, <2>1, <2>2 DEF r
<1>9. CASE r < v
  <2> DEFINE d == (r - v) + M
  <2>1. d \in 1 .. M - 1 /\ r - v = M * (-1) + d BY <1>4, <1>6, <1>9
  <2> HIDE DEF d
  <2>2. (M * (-1) + d) % M = d BY <1>7, <2>1, DivisionUnique
  <2> QED BY <1>6, <2>1, <2>2
<1> QED BY <1>6, <1>8, <1>9

\* Loading a field whose value is of its type.
LEMMA ReadBackLoads ==
  ASSUME CodecInv, InRange, NEW t \in ScalarTypes, ReadBack(t)
  PROVE  /\ step' = "loaded" /\ readAs' = t /\ UNCHANGED <<field, encoded>>
         /\ result' = [value  |-> Postprocess(t, Carried(field.type, field.value)),
                       number |-> field.number, next |-> Len(encoded) - 2]
<1> DEFINE more == <<Group, 0>>
           f == LoadField(encoded, 0)
<1>1. more \in Seq(Nat) /\ Len(more) = 2 BY GroupFacts
<1>2. /\ field.number \in Numbers /\ field.type \in ScalarTypes
      /\ field.value \in CutRange(field.type)
  BY RangesCut DEF CodecInv, WrittenAsDeclared, InRange
<1>3. encoded = Scalar(field.number, field.type, field.value) \o more
  BY DEF CodecInv, WrittenAsDeclared, ReadBack
<1> HIDE DEF more
<1>4. /\ f.end = "field" /\ f.number = field.number /\ f.next = Len(encoded) - 2
      /\ Carried(field.type, field.value) = IF f.wire = VARINT THEN f.value
                                            ELSE FromLittleEndian(f.value)
  <2> DEFINE number == field.number
             type == field.type
             v == field.value
  <2>1. number \in Numbers /\ type \in ScalarTypes /\ v \in CutRange(type) BY <1>2
  <2>2. encoded = Scalar(number, type, v) \o more BY <1>3
  <2> HIDE DEF number, type, v, f
  <2>3. LoadsAsWritten(number, type, v, more, encoded) BY <1>1, <2>1, <2>2, FieldLoaded
  <2> QED BY <1>1, <2>3 DEF number, type, v, f, LoadsAsWritten
<1> QED BY <1>4 DEF ReadBack

\* RoundTrip and CastsLikeC hold of every step.
LEMMA StepKeepsCodecInv ==
  ASSUME CodecInv, [CodecNext]_codecVars
  PROVE  CodecInv'
<1>1. CASE Write
  <2>1. WrittenAsDeclared' BY <1>1 DEF CodecInv, WrittenAsDeclared, Write
  <2>2. step' \in {"written", "rejected"} /\ UNCHANGED field BY <1>1 DEF Write
  <2>3. ~ Loaded' BY <2>2 DEF Loaded
  <2>4. ASSUME InRange' PROVE step' # "rejected"
    <3>1. field.value \in CutRange(field.type) /\ field.type \in ScalarTypes
      BY <2>2, <2>4, RangesCut DEF InRange, CodecInv, WrittenAsDeclared
    <3>2. Accepts(field.type, field.value) BY <3>1, ValueComesBack
    <3> QED BY <1>1, <3>2 DEF Write
  <2> QED BY <2>1, <2>3, <2>4 DEF CodecInv, RoundTrip, CastsLikeC
<1>2. ASSUME NEW t \in ScalarTypes, ReadBack(t) PROVE CodecInv'
  <2>1. UNCHANGED <<field, encoded>> /\ step = "written" /\ readAs' = t BY <1>2 DEF ReadBack
  <2>2. WrittenAsDeclared' BY <2>1 DEF CodecInv, WrittenAsDeclared
  <2>3. InRange' <=> InRange BY <2>1 DEF InRange
  <2>4. CASE ~ InRange BY <2>2, <2>3, <2>4 DEF CodecInv, RoundTrip, CastsLikeC
  <2>5. CASE InRange
    <3> DEFINE r == Postprocess(t, Carried(field.type, field.value))
    <3>1. step' = "loaded"
          /\ result' = [value |-> r, number |-> field.number, next |-> Len(encoded) - 2]
      BY <1>2, <2>5, ReadBackLoads
    <3>2. field.type \in ScalarTypes /\ field.value \in CutRange(field.type)
      BY <2>5, RangesCut DEF CodecInv, WrittenAsDeclared, InRange
    <3>3. ASSUME t = field.type PROVE r = field.value BY <3>2, <3>3, ValueComesBack
    <3>4. ASSUME {field.type, t} \subseteq Plain,
                 t = "enum" => field.value \in RangeOf("enum")
          PROVE  /\ r \in RangeOf(t)
                 /\ IF t = "bool" THEN r = 1 <=> field.value # 0
                    ELSE Congruent(r, field.value, SizeOf(t))
      <4>1. field.type \in SignedTypes \cup {"uint32", "uint64", "bool"}
            /\ t \in SignedTypes \cup {"uint32", "uint64", "bool"}
        BY <3>4 DEF Plain, SignedTypes
      <4>2. CASE t # "enum"
        <5>1. RangeOf(t) = CutRange(t) /\ SizeOf(t) = Modulus(t) BY <4>2, RangesCut
        <5> QED BY <3>2, <4>1, <5>1, ValueIsCast
      <4>3. CASE t = "enum"
        <5>1. r = field.value /\ field.value \in RangeOf("enum")
          BY <3>2, <3>4, <4>1, <4>3, EnumKept
        <5>2. SizeOf(t) = Modulus("int32")
          BY <4>3 DEF SizeOf, Modulus, LongTypes, Fixed64
        <5>3. SizeOf(t) \in Nat \ {0} BY <5>2, ModulusFacts
        <5>4. field.value \in Int BY <3>2, ValueComesBack
        <5>5. (field.value - field.value) % SizeOf(t) = 0 BY <5>3, <5>4
        <5> HIDE DEF r
        <5> QED BY <4>3, <5>1, <5>5 DEF Congruent
      <4> QED BY <4>2, <4>3
    <3> HIDE DEF r
    <3>5. RoundTrip' BY <2>1, <3>1, <3>3 DEF RoundTrip
    <3>6. CastsLikeC' BY <2>1, <3>1, <3>4 DEF CastsLikeC, Plain, Congruent
    <3> QED BY <2>2, <3>5, <3>6 DEF CodecInv
  <2> QED BY <2>4, <2>5
<1>3. CASE UNCHANGED codecVars
  BY <1>3 DEF codecVars, CodecInv, WrittenAsDeclared, RoundTrip, CastsLikeC, InRange, Loaded
<1> QED BY <1>1, <1>2, <1>3 DEF CodecNext

\* The invariant of the specification.
THEOREM CodecInvHolds == CodecSpec => []CodecInv
<1>1. CodecInit => CodecInv
  BY DEF CodecInit, CodecInv, WrittenAsDeclared, RoundTrip, CastsLikeC, Loaded
<1>2. CodecInv /\ [CodecNext]_codecVars => CodecInv' BY StepKeepsCodecInv
<1> QED BY <1>1, <1>2, PTL DEF CodecSpec

\* A value of a type that is written and loaded again is accepted and comes back, with its
\* field number, and loading it takes its own bytes and no more: for every width of the types
\* that is a whole number of bytes, so also for the 64 and the 32 bits of the code.
THEOREM ValuesRoundTrip == CodecSpec => []RoundTrip
<1>1. CodecInv => RoundTrip BY DEF CodecInv
<1> QED BY <1>1, CodecInvHolds, PTL

\* A value loaded with another type than it was written with is what a C cast gives, to an
\* int32 for an enum if the value is one.
THEOREM ValuesAreCast == CodecSpec => []CastsLikeC
<1>1. CodecInv => CastsLikeC BY DEF CodecInv
<1> QED BY <1>1, CodecInvHolds, PTL

-----------------------------------------------------------------------------
\* Bytes that are joined.

\* The steps of joining sequences of bytes.
LEMMA FlattenSteps ==
  ASSUME NEW n \in Nat \ {0}, NEW seqs \in [1 .. n -> Seq(Nat)]
  PROVE  \E g \in [1 .. n -> Seq(Nat)] :
           /\ g[1] = seqs[1] /\ \A j \in 1 .. n : j > 1 => g[j] = g[j - 1] \o seqs[j]
           /\ FlattenSeq(seqs) = g[n]
<1> DEFINE Upto(k) == {g \in [1 .. k -> Seq(Nat)] :
                         /\ g[1] = seqs[1]
                         /\ \A j \in 1 .. k : j > 1 => g[j] = g[j - 1] \o seqs[j]}
           T == {k \in Nat : k + 1 <= n => Upto(k + 1) # {}}
<1>1. 0 \in T
  <2>1. 1 \in 1 .. n /\ seqs[1] \in Seq(Nat) OBVIOUS
  <2>2. [j \in 1 .. 1 |-> seqs[1]] \in Upto(1) BY <2>1
  <2> HIDE DEF Upto
  <2> QED BY <2>2
<1>2. ASSUME NEW k \in Nat, k \in T PROVE k + 1 \in T
  <2> SUFFICES ASSUME (k + 1) + 1 <= n PROVE Upto((k + 1) + 1) # {}
    <3> HIDE DEF Upto
    <3> QED OBVIOUS
  <2> DEFINE m == k + 1
  <2>1. m \in Nat /\ m >= 1 /\ m <= n /\ m + 1 <= n OBVIOUS
  <2>2. PICK g : g \in Upto(m)
    <3>1. Upto(m) # {} BY <1>2, <2>1
    <3> HIDE DEF Upto
    <3> QED BY <3>1
  <2> HIDE DEF m
  <2> DEFINE h == [j \in 1 .. m + 1 |-> IF j <= m THEN g[j] ELSE g[m] \o seqs[m + 1]]
  <2>3. m \in 1 .. m /\ m + 1 \in 1 .. n BY <2>1
  <2>4. g[m] \o seqs[m + 1] \in Seq(Nat)
    <3>1. g[m] \in Seq(Nat) /\ seqs[m + 1] \in Seq(Nat) BY <2>2, <2>3
    <3> QED BY <3>1, ConcatProperties
  <2>5. h \in [1 .. m + 1 -> Seq(Nat)]
    <3> SUFFICES ASSUME NEW j \in 1 .. m + 1 PROVE h[j] \in Seq(Nat) OBVIOUS
    <3>1. CASE j <= m
      <4>1. j \in 1 .. m BY <2>1, <3>1
      <4> QED BY <2>2, <3>1, <4>1
    <3>2. CASE ~ (j <= m) BY <2>4, <3>2
    <3> QED BY <3>1, <3>2
  <2>6. h[1] = seqs[1] BY <2>1, <2>2
  <2>7. ASSUME NEW j \in 1 .. m + 1, j > 1 PROVE h[j] = h[j - 1] \o seqs[j]
    <3>1. j - 1 \in 1 .. m + 1 /\ j - 1 <= m BY <2>1, <2>7
    <3>2. CASE j <= m
      <4>1. j \in 1 .. m BY <2>1, <3>2
      <4> QED BY <2>2, <2>7, <3>1, <3>2, <4>1
    <3>3. CASE ~ (j <= m)
      <4>1. j = m + 1 /\ j - 1 = m BY <2>1, <3>3
      <4> QED BY <3>1, <3>3, <4>1
    <3> QED BY <3>2, <3>3
  <2>8. h \in Upto(m + 1) BY <2>5, <2>6, <2>7
  <2> HIDE DEF Upto
  <2> QED BY <2>8 DEF m
<1>3. PICK k \in Nat : n = k + 1
  <2>1. n - 1 \in Nat /\ n = (n - 1) + 1 OBVIOUS
  <2> QED BY <2>1
<1>4. k \in T
  <2> HIDE DEF T
  <2> QED BY <1>1, <1>2, Induction
<1>5. PICK g : g \in Upto(n)
  <2>1. Upto(n) # {}
    <3> HIDE DEF Upto
    <3> QED BY <1>3, <1>4
  <2> HIDE DEF Upto
  <2> QED BY <2>1
<1> DEFINE Join(f) == f = [i \in 1 .. Len(seqs) |->
                             IF i = 1 THEN seqs[i] ELSE f[i - 1] \o seqs[i]]
           join == CHOOSE f : Join(f)
<1>6. Len(seqs) = n OBVIOUS
<1>7. Join(g)
  <2>1. g = [i \in 1 .. n |-> g[i]] BY <1>5
  <2>2. \A i \in 1 .. n : g[i] = IF i = 1 THEN seqs[i] ELSE g[i - 1] \o seqs[i] BY <1>5
  <2> QED BY <1>6, <2>1, <2>2
<1>8. Join(join)
  <2> HIDE DEF Join
  <2> QED BY <1>7
<1>9. FlattenSeq(seqs) = join[n] BY <1>6 DEF FlattenSeq
<1>10. join = [i \in 1 .. n |-> IF i = 1 THEN seqs[i] ELSE join[i - 1] \o seqs[i]]
  BY <1>6, <1>8
<1> HIDE DEF join
<1>11. \A i \in 1 .. n : join[i] = g[i]
  <2> DEFINE U == {i \in Nat : i + 1 <= n => join[i + 1] = g[i + 1]}
  <2>1. 0 \in U
    <3>1. 1 \in 1 .. n OBVIOUS
    <3>2. join[1] = seqs[1] BY <1>10, <3>1
    <3> QED BY <1>5, <3>2
  <2>2. ASSUME NEW i \in Nat, i \in U PROVE i + 1 \in U
    <3> SUFFICES ASSUME (i + 1) + 1 <= n PROVE join[(i + 1) + 1] = g[(i + 1) + 1] OBVIOUS
    <3>1. (i + 1) + 1 \in 1 .. n /\ (i + 1) + 1 # 1 /\ ((i + 1) + 1) - 1 = i + 1
          /\ i + 1 <= n /\ (i + 1) + 1 > 1
      OBVIOUS
    <3>2. join[i + 1] = g[i + 1] BY <2>2, <3>1
    <3> DEFINE x == (i + 1) + 1
    <3>3. x \in 1 .. n /\ x # 1 /\ x - 1 = i + 1 /\ x > 1 BY <3>1
    <3> HIDE DEF x
    <3>4. join[x] = join[x - 1] \o seqs[x] BY <1>10, <3>3
    <3>5. g[x] = g[x - 1] \o seqs[x] BY <1>5, <3>3
    <3>6. join[x] = g[x] BY <3>2, <3>3, <3>4, <3>5
    <3> QED BY <3>6 DEF x
  <2>3. \A i \in Nat : i \in U
    <3> HIDE DEF U
    <3> QED BY <2>1, <2>2, Induction
  <2>4. ASSUME NEW i \in 1 .. n PROVE join[i] = g[i]
    <3>1. i - 1 \in Nat /\ (i - 1) + 1 = i /\ i <= n OBVIOUS
    <3>2. i - 1 \in U
      <4> HIDE DEF U
      <4> QED BY <2>3, <3>1
    <3> QED BY <3>1, <3>2
  <2> QED BY <2>4
<1>12. n \in 1 .. n OBVIOUS
<1>13. FlattenSeq(seqs) = g[n] BY <1>9, <1>11, <1>12
<1> QED BY <1>5, <1>13

\* Joining sequences is associative.
LEMMA Associative ==
  ASSUME NEW x \in Seq(Nat), NEW y \in Seq(Nat), NEW z \in Seq(Nat)
  PROVE  (x \o y) \o z = x \o (y \o z)
OBVIOUS

\* The first of some sequences comes first when they are joined.
LEMMA FlattenFirst ==
  ASSUME NEW n \in Nat, NEW x \in Seq(Nat), NEW seqs \in [1 .. n -> Seq(Nat)],
         NEW all \in [1 .. n + 1 -> Seq(Nat)],
         all[1] = x, \A j \in 1 .. n : all[j + 1] = seqs[j]
  PROVE  FlattenSeq(seqs) \in Seq(Nat) /\ FlattenSeq(all) = x \o FlattenSeq(seqs)
<1>1. n + 1 \in Nat \ {0} OBVIOUS
<1>2. PICK g \in [1 .. n + 1 -> Seq(Nat)] :
        /\ g[1] = all[1] /\ \A j \in 1 .. n + 1 : j > 1 => g[j] = g[j - 1] \o all[j]
        /\ FlattenSeq(all) = g[n + 1]
  <2> DEFINE m == n + 1
  <2>1. m \in Nat \ {0} /\ all \in [1 .. m -> Seq(Nat)] BY <1>1
  <2> HIDE DEF m
  <2>2. \E g \in [1 .. m -> Seq(Nat)] :
          /\ g[1] = all[1] /\ \A j \in 1 .. m : j > 1 => g[j] = g[j - 1] \o all[j]
          /\ FlattenSeq(all) = g[m]
    BY <2>1, FlattenSteps
  <2> QED BY <2>2 DEF m
<1>3. CASE n = 0
  <2>1. Len(seqs) = 0 /\ seqs = <<>> BY <1>3
  <2>2. FlattenSeq(seqs) = <<>> BY <2>1 DEF FlattenSeq
  <2>3. FlattenSeq(all) = x BY <1>2, <1>3
  <2>4. x \o <<>> = x BY ConcatEmptySeq
  <2> QED BY <2>2, <2>3, <2>4
<1>4. CASE n # 0
  <2>1. n \in Nat \ {0} BY <1>4
  <2>2. PICK h \in [1 .. n -> Seq(Nat)] :
          /\ h[1] = seqs[1] /\ \A j \in 1 .. n : j > 1 => h[j] = h[j - 1] \o seqs[j]
          /\ FlattenSeq(seqs) = h[n]
    BY <2>1, FlattenSteps
  <2> DEFINE P(i) == i + 1 <= n => g[(i + 1) + 1] = x \o h[i + 1]
             U == {i \in Nat : P(i)}
  <2>3. 0 \in U
    <3>1. 2 \in 1 .. n + 1 /\ 2 > 1 /\ 2 - 1 = 1 /\ 1 \in 1 .. n /\ 1 + 1 = 2 /\ 0 + 1 = 1
      BY <1>4
    <3>2. g[2] = g[1] \o all[2] BY <1>2, <3>1
    <3>3. all[2] = seqs[1] BY <3>1
    <3>4. g[2] = x \o h[1] BY <1>2, <2>2, <3>2, <3>3
    <3> QED BY <3>1, <3>4
  <2>4. ASSUME NEW i \in Nat, i \in U PROVE i + 1 \in U
    <3> SUFFICES P(i + 1)
      <4> HIDE DEF P
      <4> QED OBVIOUS
    <3> SUFFICES ASSUME (i + 1) + 1 <= n
                 PROVE  g[((i + 1) + 1) + 1] = x \o h[(i + 1) + 1]
      OBVIOUS
    <3> DEFINE a == i + 1
               b == a + 1
               c == b + 1
    <3>1. /\ a \in 1 .. n /\ b \in 1 .. n /\ b > 1 /\ b - 1 = a
          /\ c \in 1 .. n + 1 /\ c > 1 /\ c - 1 = b /\ a <= n
      OBVIOUS
    <3>2. g[b] = x \o h[a] BY <2>4, <3>1
    <3> HIDE DEF a, b
    <3>3. all[c] = seqs[b] BY <3>1
    <3> HIDE DEF c
    <3>4. g[c] = g[b] \o seqs[b] BY <1>2, <3>1, <3>3
    <3>5. h[b] = h[a] \o seqs[b] BY <2>2, <3>1
    <3>6. h[a] \in Seq(Nat) /\ seqs[b] \in Seq(Nat) BY <2>2, <3>1
    <3>7. (x \o h[a]) \o seqs[b] = x \o (h[a] \o seqs[b]) BY <3>6, Associative
    <3>8. g[c] = x \o h[b] BY <3>2, <3>4, <3>5, <3>7
    <3> QED BY <3>8 DEF a, b, c
  <2>5. \A i \in Nat : i \in U
    <3> HIDE DEF U
    <3> QED BY <2>3, <2>4, Induction
  <2>6. n - 1 \in Nat /\ (n - 1) + 1 = n BY <2>1
  <2>7. n - 1 \in U
    <3> HIDE DEF U
    <3> QED BY <2>5, <2>6
  <2>8. g[n + 1] = x \o h[n] BY <2>6, <2>7
  <2>9. n \in 1 .. n BY <2>1
  <2> QED BY <1>2, <2>2, <2>8, <2>9
<1> QED BY <1>3, <1>4

\* The sequences of which c have been taken, joined.
Remaining(items, c) == FlattenSeq([j \in 1 .. Len(items) - c |-> items[c + j]])

\* Taking sequences one after the other.
LEMMA RemainingSteps ==
  ASSUME NEW items \in Seq(Seq(Nat)), NEW c \in 0 .. Len(items)
  PROVE  /\ Remaining(items, c) \in Seq(Nat)
         /\ c = 0 => Remaining(items, c) = FlattenSeq(items)
         /\ c = Len(items) => Remaining(items, c) = <<>>
         /\ c < Len(items) => Remaining(items, c) = items[c + 1] \o Remaining(items, c + 1)
<1> DEFINE n == Len(items) - c
           s == [j \in 1 .. n |-> items[c + j]]
<1>1. n \in Nat /\ c \in Nat /\ Len(items) \in Nat OBVIOUS
<1>2. s \in [1 .. n -> Seq(Nat)]
  <2> SUFFICES ASSUME NEW j \in 1 .. n PROVE items[c + j] \in Seq(Nat) OBVIOUS
  <2>1. c + j \in 1 .. Len(items) OBVIOUS
  <2> QED BY <2>1, ElementOfSeq
<1>3. Remaining(items, c) = FlattenSeq(s) BY DEF Remaining
<1>4. CASE n = 0
  <2>1. s = <<>> /\ Len(s) = 0
    <3>1. s \in [1 .. 0 -> Seq(Nat)] BY <1>2, <1>4
    <3> HIDE DEF s
    <3> QED BY <3>1
  <2>2. FlattenSeq(s) = <<>>
    <3> HIDE DEF s
    <3> QED BY <2>1 DEF FlattenSeq
  <2>3. c = 0 => s = items
    <3> SUFFICES ASSUME c = 0 PROVE s = items OBVIOUS
    <3>1. items = <<>> BY <1>4, EmptySeq
    <3> QED BY <2>1, <3>1
  <2>4. c = Len(items) /\ ~ (c < Len(items)) /\ <<>> \in Seq(Nat) BY <1>1, <1>4
  <2> HIDE DEF s, n
  <2> QED BY <1>3, <2>2, <2>3, <2>4
<1>5. CASE n # 0
  <2> DEFINE m == n - 1
             t == [j \in 1 .. m |-> items[(c + 1) + j]]
  <2>1. m \in Nat /\ m + 1 = n /\ m = Len(items) - (c + 1) /\ c < Len(items) BY <1>1, <1>5
  <2>2. t \in [1 .. m -> Seq(Nat)]
    <3> SUFFICES ASSUME NEW j \in 1 .. m PROVE items[(c + 1) + j] \in Seq(Nat) OBVIOUS
    <3>1. (c + 1) + j \in 1 .. Len(items) OBVIOUS
    <3> QED BY <3>1, ElementOfSeq
  <2>3. s[1] = items[c + 1] /\ s[1] \in Seq(Nat)
    <3>1. 1 \in 1 .. n BY <1>1, <1>5
    <3> HIDE DEF n
    <3> QED BY <1>2, <3>1
  <2>4. \A j \in 1 .. m : s[j + 1] = t[j]
    <3> SUFFICES ASSUME NEW j \in 1 .. m PROVE s[j + 1] = t[j] OBVIOUS
    <3>1. j + 1 \in 1 .. n /\ c + (j + 1) = (c + 1) + j BY <1>1, <2>1
    <3> HIDE DEF n
    <3> QED BY <3>1
  <2>5. Remaining(items, c + 1) = FlattenSeq(t) BY <2>1 DEF Remaining
  <2>6. FlattenSeq(t) \in Seq(Nat) /\ FlattenSeq(s) = s[1] \o FlattenSeq(t)
    <3> DEFINE x == s[1]
    <3>1. s \in [1 .. m + 1 -> Seq(Nat)] BY <1>2, <2>1
    <3>2. x \in Seq(Nat) /\ s[1] = x BY <2>3
    <3> HIDE DEF s, t, m, x
    <3> QED BY <2>1, <2>2, <2>4, <3>1, <3>2, FlattenFirst
  <2>7. c = 0 => s = items
    <3> SUFFICES ASSUME c = 0 PROVE s = items OBVIOUS
    <3>1. n = Len(items) /\ \A j \in 1 .. n : s[j] = items[j] BY <1>1
    <3> HIDE DEF s, n
    <3>2. s \in Seq(Seq(Nat)) /\ Len(s) = n BY <1>1, <1>2
    <3> QED BY <3>1, <3>2, SeqEqual
  <2>8. s[1] \o FlattenSeq(t) \in Seq(Nat) BY <2>3, <2>6, ConcatProperties
  <2>9. c # Len(items) BY <1>5
  <2> HIDE DEF s, t, n, m
  <2> QED BY <1>3, <2>3, <2>5, <2>6, <2>7, <2>8, <2>9
<1> QED BY <1>4, <1>5

\* The bytes b are in s behind its first i bytes.
At(s, i, b) == i + Len(b) <= Len(s) /\ \A j \in 1 .. Len(b) : s[i + j] = b[j]

\* Bytes that are joined are in a stream one after the other.
LEMMA AtJoined ==
  ASSUME NEW s \in Seq(Nat), NEW i \in Nat, NEW x \in Seq(Nat), NEW y \in Seq(Nat)
  PROVE  /\ i + Len(x) \in Nat
         /\ At(s, i, x \o y) <=> At(s, i, x) /\ At(s, i + Len(x), y)
<1>1. /\ Len(x \o y) = Len(x) + Len(y) /\ Len(x) \in Nat /\ Len(y) \in Nat
      /\ \A j \in 1 .. Len(x) : (x \o y)[j] = x[j]
      /\ \A j \in 1 .. Len(y) : (x \o y)[Len(x) + j] = y[j]
  BY Joined
<1>2. Len(s) \in Nat OBVIOUS
<1> DEFINE a == Len(x)
           b == Len(y)
           z == x \o y
<1>3. a \in Nat /\ b \in Nat /\ Len(z) = a + b BY <1>1
<1>4. (\A j \in 1 .. a : z[j] = x[j]) /\ \A j \in 1 .. b : z[a + j] = y[j] BY <1>1
<1>5. At(s, i, z) <=> i + (a + b) <= Len(s) /\ \A j \in 1 .. a + b : s[i + j] = z[j]
  BY <1>3 DEF At
<1>6. At(s, i, x) <=> i + a <= Len(s) /\ \A j \in 1 .. a : s[i + j] = x[j] BY DEF At
<1>7. At(s, i + a, y) <=> (i + a) + b <= Len(s) /\ \A j \in 1 .. b : s[(i + a) + j] = y[j]
  BY DEF At
<1> HIDE DEF a, b, z
<1>8. ASSUME At(s, i, z) PROVE At(s, i, x) /\ At(s, i + a, y)
  <2>1. i + a <= Len(s) /\ (i + a) + b <= Len(s) BY <1>2, <1>3, <1>5, <1>8
  <2>2. \A j \in 1 .. a : j \in 1 .. a + b BY <1>3
  <2>3. \A j \in 1 .. a : s[i + j] = x[j] BY <1>4, <1>5, <1>8, <2>2
  <2>4. \A j \in 1 .. b : a + j \in 1 .. a + b /\ i + (a + j) = (i + a) + j BY <1>3
  <2>5. \A j \in 1 .. b : s[(i + a) + j] = y[j]
    <3> TAKE j \in 1 .. b
    <3>1. s[i + (a + j)] = z[a + j] BY <1>5, <1>8, <2>4
    <3> QED BY <1>4, <2>4, <3>1
  <2> QED BY <1>6, <1>7, <2>1, <2>3, <2>5
<1>9. ASSUME At(s, i, x), At(s, i + a, y) PROVE At(s, i, z)
  <2>1. i + (a + b) <= Len(s) BY <1>2, <1>3, <1>7, <1>9
  <2>2. ASSUME NEW j \in 1 .. a + b PROVE s[i + j] = z[j]
    <3>1. CASE j <= a
      <4>1. j \in 1 .. a BY <1>3, <3>1
      <4> QED BY <1>4, <1>6, <1>9, <4>1
    <3>2. CASE ~ (j <= a)
      <4>1. j - a \in 1 .. b /\ a + (j - a) = j /\ (i + a) + (j - a) = i + j BY <1>3, <3>2
      <4>2. s[(i + a) + (j - a)] = y[j - a] BY <1>7, <1>9, <4>1
      <4>3. z[a + (j - a)] = y[j - a] BY <1>4, <4>1
      <4> QED BY <4>1, <4>2, <4>3
    <3> QED BY <3>1, <3>2
  <2> QED BY <1>5, <2>1, <2>2
<1> QED BY <1>3, <1>8, <1>9 DEF a, z

\* What is in a stream stays there when more is written.
LEMMA AtAppended ==
  ASSUME NEW s \in Seq(Nat), NEW more \in Seq(Nat), NEW i \in Nat, NEW b \in Seq(Nat)
  PROVE  /\ At(s, i, b) => At(s \o more, i, b)
         /\ At(s \o more, Len(s), more)
<1>1. /\ Len(s \o more) = Len(s) + Len(more) /\ Len(s) \in Nat /\ Len(more) \in Nat
      /\ \A j \in 1 .. Len(s) : (s \o more)[j] = s[j]
      /\ \A j \in 1 .. Len(more) : (s \o more)[Len(s) + j] = more[j]
  BY Joined
<1> DEFINE z == s \o more
<1>2. Len(z) = Len(s) + Len(more) /\ (\A j \in 1 .. Len(s) : z[j] = s[j])
      /\ \A j \in 1 .. Len(more) : z[Len(s) + j] = more[j]
  BY <1>1
<1> HIDE DEF z
<1>3. ASSUME At(s, i, b) PROVE At(z, i, b)
  <2>1. i + Len(b) <= Len(s) /\ \A j \in 1 .. Len(b) : s[i + j] = b[j] BY <1>3 DEF At
  <2>2. Len(b) \in Nat OBVIOUS
  <2>3. \A j \in 1 .. Len(b) : i + j \in 1 .. Len(s) BY <1>1, <2>1, <2>2
  <2>4. i + Len(b) <= Len(z) BY <1>1, <1>2, <2>1, <2>2
  <2>5. \A j \in 1 .. Len(b) : z[i + j] = b[j] BY <1>2, <2>1, <2>3
  <2> QED BY <2>4, <2>5 DEF At
<1>4. At(z, Len(s), more) BY <1>1, <1>2 DEF At
<1> QED BY <1>3, <1>4 DEF z

\* Digits that are naturals make a natural.
LEMMA DigitsNat ==
  ASSUME NEW n \in Nat, NEW digits \in [1 .. n -> Nat], NEW bits \in Nat
  PROVE  FromDigits(digits, bits) \in Nat
<1> DEFINE d == [j \in 1 .. n |-> digits[j] * 2 ^ (bits * (j - 1))]
           Low(low) == low = [j \in 0 .. Len(digits) |->
                                IF j = 0 THEN 0
                                ELSE low[j - 1] + digits[j] * 2 ^ (bits * (j - 1))]
           low == CHOOSE low : Low(low)
<1>1. Len(digits) = n OBVIOUS
<1>2. d \in [1 .. n -> Nat]
  <2>1. ASSUME NEW j \in 1 .. n PROVE digits[j] * 2 ^ (bits * (j - 1)) \in Nat
    <3>1. bits * (j - 1) \in Nat
      <4>1. j - 1 \in Nat OBVIOUS
      <4> QED BY <4>1
    <3>2. 2 ^ (bits * (j - 1)) \in Nat BY <3>1, Powers
    <3> DEFINE p == 2 ^ (bits * (j - 1))
    <3>3. p \in Nat /\ digits[j] \in Nat BY <3>2
    <3> HIDE DEF p
    <3>4. digits[j] * p \in Nat BY <3>3
    <3> QED BY <3>4 DEF p
  <2> QED BY <2>1
<1>3. PICK sum \in [0 .. n -> Nat] :
        sum = [j \in 0 .. n |-> IF j = 0 THEN 0 ELSE sum[j - 1] + d[j]]
  <2> HIDE DEF d
  <2> QED BY <1>2, SumExists
<1>4. Low(sum)
  <2>1. \A j \in 0 .. n : sum[j] = IF j = 0 THEN 0 ELSE sum[j - 1] + d[j]
    <3> HIDE DEF d
    <3> QED BY <1>3
  <2>2. \A j \in 0 .. n : j # 0 => d[j] = digits[j] * 2 ^ (bits * (j - 1))
    <3> SUFFICES ASSUME NEW j \in 0 .. n, j # 0
                 PROVE  d[j] = digits[j] * 2 ^ (bits * (j - 1))
      OBVIOUS
    <3>1. j \in 1 .. n OBVIOUS
    <3> QED BY <3>1
  <2>3. sum = [j \in 0 .. n |-> sum[j]] OBVIOUS
  <2> HIDE DEF d
  <2>4. sum = [j \in 0 .. n |-> IF j = 0 THEN 0
                                ELSE sum[j - 1] + digits[j] * 2 ^ (bits * (j - 1))]
    BY <2>1, <2>2, <2>3
  <2> QED BY <1>1, <2>4
<1>5. Low(low)
  <2> HIDE DEF Low
  <2> QED BY <1>4
<1>6. FromDigits(digits, bits) = low[n] BY <1>1 DEF FromDigits
<1>7. low = [j \in 0 .. n |-> IF j = 0 THEN 0
                              ELSE low[j - 1] + digits[j] * 2 ^ (bits * (j - 1))]
  BY <1>1, <1>5
<1> HIDE DEF low, Low
<1>8. \A k \in Nat : k <= n => low[k] \in Nat
  <2> DEFINE U == {k \in Nat : k <= n => low[k] \in Nat}
  <2>1. 0 \in U
    <3>1. 0 \in 0 .. n OBVIOUS
    <3>2. low[0] = 0 BY <1>7, <3>1
    <3> QED BY <3>2
  <2>2. ASSUME NEW k \in Nat, k \in U PROVE k + 1 \in U
    <3> SUFFICES ASSUME k + 1 <= n PROVE low[k + 1] \in Nat OBVIOUS
    <3> DEFINE m == k + 1
    <3>1. m \in 0 .. n /\ m # 0 /\ m - 1 = k /\ m \in 1 .. n /\ k <= n OBVIOUS
    <3>2. low[k] \in Nat BY <2>2, <3>1
    <3> HIDE DEF m
    <3>3. low[m] = low[m - 1] + digits[m] * 2 ^ (bits * (m - 1)) BY <1>7, <3>1
    <3>4. d[m] = digits[m] * 2 ^ (bits * (m - 1)) BY <3>1
    <3> HIDE DEF d
    <3>5. d[m] \in Nat BY <1>2, <3>1
    <3>6. low[m] = low[k] + d[m] BY <3>1, <3>3, <3>4
    <3>7. low[m] \in Nat BY <3>2, <3>5, <3>6
    <3> QED BY <3>7 DEF m
  <2> HIDE DEF U
  <2>3. \A k \in Nat : k \in U BY <2>1, <2>2, Induction
  <2> QED BY <2>3 DEF U
<1> QED BY <1>6, <1>8

-----------------------------------------------------------------------------
\* What is loaded from any stream.

\* The least of some naturals.
LEMMA MinFound ==
  ASSUME NEW S \in SUBSET Nat, S # {}
  PROVE  Min(S) \in S /\ \A y \in S : Min(S) <= y
<1>1. \E x \in S : \A y \in S : x <= y BY LeastNat
<1> QED BY <1>1 DEF Min

\* load_varint reads up to so many bytes.
LEMMA MaxGroupsPositive == MaxGroups \in Int /\ MaxGroups >= 1
<1>1. 0 \in Nat /\ 0 < WordMod BY ModulusFacts
<1>2. Len(Groups[0]) \in 1 .. MaxGroups BY <1>1, VarintFits
<1>3. MaxGroups \in Int
  <2>1. WordBits + GroupBits - 1 \in Int /\ GroupBits \in Nat /\ GroupBits > 0
    BY WidthsAssumption
  <2> QED BY <2>1, DivisionRemainder DEF MaxGroups
<1> QED BY <1>2, <1>3

\* load_varint reads at least a byte, if there is one, and no more than there are.
LEMMA VarintNext ==
  ASSUME NEW s \in Seq(Nat), NEW i \in 0 .. Len(s)
  PROVE  LET v == LoadVarint(s, i)
         IN /\ v.next \in i .. Len(s) /\ (i < Len(s) => v.next > i)
            /\ v.value \in Nat /\ v.end \in {"ok", "eof", "long"}
<1> DEFINE last == {k \in 1 .. MaxGroups : i + k <= Len(s) /\ s[i + k] < Group}
           v == LoadVarint(s, i)
<1>1. MaxGroups \in Int /\ MaxGroups >= 1 BY MaxGroupsPositive
<1>2. Len(s) \in Nat /\ i \in Nat OBVIOUS
<1>3. CASE last # {}
  <2> DEFINE k == Min(last)
             digits == [j \in 1 .. k |-> s[i + j] % Group]
  <2>1. k \in last
    <3>1. last \in SUBSET Nat OBVIOUS
    <3> HIDE DEF last
    <3> QED BY <1>3, <3>1, MinFound
  <2>2. v = [end |-> "ok", next |-> i + k, value |-> FromDigits(digits, GroupBits)]
    BY <1>3 DEF LoadVarint
  <2>3. k \in Nat /\ k >= 1 /\ i + k <= Len(s) BY <2>1
  <2> HIDE DEF k, v, last
  <2>4. digits \in [1 .. k -> Nat]
    <3> SUFFICES ASSUME NEW j \in 1 .. k PROVE s[i + j] % Group \in Nat OBVIOUS
    <3>1. i + j \in 1 .. Len(s) BY <1>2, <2>3
    <3>2. s[i + j] \in Nat BY <3>1, ElementOfSeq
    <3> QED BY <3>2, GroupFacts, DivisionRemainder
  <2> HIDE DEF digits
  <2>5. GroupBits \in Nat BY WidthsAssumption
  <2>6. FromDigits(digits, GroupBits) \in Nat BY <2>3, <2>4, <2>5, DigitsNat
  <2> QED BY <1>2, <2>2, <2>3, <2>6 DEF v
<1>4. CASE last = {}
  <2> DEFINE n == Min({i + MaxGroups, Len(s)})
  <2>1. v.next = n /\ v.value = 0 /\ v.end \in {"eof", "long"} BY <1>4 DEF LoadVarint
  <2>2. n \in {i + MaxGroups, Len(s)} /\ n <= i + MaxGroups /\ n <= Len(s)
    <3>1. {i + MaxGroups, Len(s)} \in SUBSET Nat BY <1>1, <1>2
    <3> QED BY <3>1, MinFound
  <2> HIDE DEF n, v, last
  <2>3. n \in i .. Len(s) /\ (i < Len(s) => n > i) BY <1>1, <1>2, <2>2
  <2> QED BY <2>1, <2>3 DEF v
<1> QED BY <1>3, <1>4

\* Reading bytes goes on by at most their number, and not beyond the end.
LEMMA ReadNext ==
  ASSUME NEW s \in Seq(Nat), NEW i \in 0 .. Len(s), NEW n \in Nat
  PROVE  AfterRead(s, i, n) \in i .. Len(s)
<1> DEFINE m == Min({i + n, Len(s)})
<1>1. m \in {i + n, Len(s)} /\ m <= i + n /\ m <= Len(s)
  <2>1. {i + n, Len(s)} \in SUBSET Nat OBVIOUS
  <2> QED BY <2>1, MinFound
<1>2. Read(s, i, n) = SubSeq(s, i + 1, m) BY DEF Read
<1> HIDE DEF m
<1> DEFINE k == m - i
<1>3. k \in Nat /\ i + k <= Len(s) /\ m = i + k /\ Len(s) \in Nat /\ i \in Nat BY <1>1
<1> HIDE DEF k
<1>4. Len(SubSeq(s, i + 1, i + k)) = k BY <1>3, Slice
<1>5. AfterRead(s, i, n) = i + k BY <1>2, <1>3, <1>4 DEF AfterRead
<1> QED BY <1>3, <1>5

\* A turn of load_fields does not go back, and not beyond the end of the stream.
LEMMA FieldNext ==
  ASSUME NEW s \in Seq(Nat), NEW i \in 0 .. Len(s)
  PROVE  LET f == LoadField(s, i)
         IN f.next \in i .. Len(s) /\ f.end \in {"none", "eof", "long", "field"}
<1> DEFINE tag == LoadVarint(s, i)
           wire == tag.value % 8
           num == LoadVarint(s, tag.next)
           from == IF wire = LEN_DELIM THEN num.next ELSE tag.next
           length == ValueSize(wire, num.value)
           next == IF wire = VARINT THEN num.next ELSE AfterRead(s, from, length)
           f == LoadField(s, i)
<1>1. tag.next \in i .. Len(s) /\ tag.end \in {"ok", "eof", "long"} BY VarintNext
<1>2. tag.next \in 0 .. Len(s) /\ Len(s) \in Nat /\ i \in Nat BY <1>1
<1>3. num.next \in tag.next .. Len(s) /\ num.value \in Nat /\ num.end \in {"ok", "eof", "long"}
  <2> DEFINE t == tag.next
  <2>1. t \in 0 .. Len(s) BY <1>2
  <2> HIDE DEF t
  <2>2. LET v == LoadVarint(s, t)
        IN v.next \in t .. Len(s) /\ v.value \in Nat /\ v.end \in {"ok", "eof", "long"}
    BY <2>1, VarintNext
  <2> QED BY <2>2 DEF t
<1>4. length \in Nat
  <2>1. WordBytes \in Nat /\ IntBytes \in Nat BY ByteFacts
  <2> DEFINE w == wire
             x == num.value
  <2>2. x \in Nat BY <1>3
  <2> HIDE DEF w, x
  <2>3. FIXED_64 # FIXED_32 /\ FIXED_64 # LEN_DELIM /\ FIXED_32 # LEN_DELIM
    BY DEF FIXED_64, FIXED_32, LEN_DELIM
  <2>4. CASE w = FIXED_64
    <3>1. ValueSize(w, x) = WordBytes BY <2>3, <2>4 DEF ValueSize
    <3> QED BY <2>1, <3>1 DEF w, x
  <2>5. CASE w = FIXED_32
    <3>1. ValueSize(w, x) = IntBytes BY <2>3, <2>5 DEF ValueSize
    <3> QED BY <2>1, <3>1 DEF w, x
  <2>6. CASE w = LEN_DELIM
    <3>1. ValueSize(w, x) = x BY <2>3, <2>6 DEF ValueSize
    <3> QED BY <2>2, <3>1 DEF w, x
  <2>7. CASE w \notin {FIXED_64, FIXED_32, LEN_DELIM}
    <3>1. ValueSize(w, x) = 0 BY <2>7 DEF ValueSize
    <3> QED BY <3>1 DEF w, x
  <2> QED BY <2>4, <2>5, <2>6, <2>7
<1> HIDE DEF length, wire, num, tag
<1>5. from \in i .. Len(s) /\ from \in 0 .. Len(s) BY <1>1, <1>2, <1>3
<1> HIDE DEF from
<1>6. AfterRead(s, from, length) \in from .. Len(s) BY <1>4, <1>5, ReadNext
<1>7. next \in i .. Len(s) BY <1>1, <1>2, <1>3, <1>5, <1>6
<1> HIDE DEF next
<1>8. f = IF tag.end # "ok"
          THEN [end |-> IF tag.end = "eof" THEN "none" ELSE "long", next |-> tag.next]
          ELSE IF wire \in {VARINT, LEN_DELIM} /\ num.end # "ok"
          THEN [end |-> num.end, next |-> num.next]
          ELSE [end |-> "field", next |-> next, number |-> tag.value \div 8, wire |-> wire,
                value |-> IF wire = VARINT THEN num.value ELSE Read(s, from, length)]
  BY DEF LoadField, tag, wire, num, from, length, next
<1>9. CASE tag.end # "ok"
  <2>1. f = [end |-> IF tag.end = "eof" THEN "none" ELSE "long", next |-> tag.next]
    BY <1>8, <1>9
  <2> HIDE DEF f
  <2>2. f.next = tag.next /\ f.end \in {"none", "long"} BY <2>1
  <2> QED BY <1>1, <2>2 DEF f
<1>10. CASE tag.end = "ok" /\ wire \in {VARINT, LEN_DELIM} /\ num.end # "ok"
  <2>1. f = [end |-> num.end, next |-> num.next] BY <1>8, <1>10
  <2> HIDE DEF f
  <2>2. f.next = num.next /\ f.end = num.end BY <2>1
  <2>3. num.next \in i .. Len(s) BY <1>1, <1>2, <1>3
  <2> QED BY <1>3, <1>10, <2>2, <2>3 DEF f
<1>11. CASE tag.end = "ok" /\ ~ (wire \in {VARINT, LEN_DELIM} /\ num.end # "ok")
  <2>1. f.next = next /\ f.end = "field" BY <1>8, <1>11
  <2> HIDE DEF f
  <2> QED BY <1>7, <2>1 DEF f
<1> QED BY <1>9, <1>10, <1>11

-----------------------------------------------------------------------------
\* Values and fields that are on the stream.

\* The varint of a number, where it is in a stream, is loaded.
LEMMA VarintAt ==
  ASSUME NEW n \in Nat, n < WordMod, NEW s \in Seq(Nat), NEW i \in Nat,
         At(s, i, EncodeVarint(n))
  PROVE  /\ LoadVarint(s, i) = [end |-> "ok", next |-> i + Len(EncodeVarint(n)), value |-> n]
         /\ EncodeVarint(n) \in Seq(Nat) /\ Len(EncodeVarint(n)) >= 1
<1>1. EncodeVarint(n) = Groups[n]
  <2>1. ~ (n < 0) OBVIOUS
  <2> QED BY <2>1 DEF EncodeVarint
<1>2. Groups[n] \in Seq(Nat) /\ Len(Groups[n]) >= 1 BY GroupsShape DEF Shape
<1>3. i + Len(Groups[n]) <= Len(s) /\ \A j \in 1 .. Len(Groups[n]) : s[i + j] = Groups[n][j]
  BY <1>1 DEF At
<1>4. Len(s) \in Nat OBVIOUS
<1>5. LoadVarint(s, i) = [end |-> "ok", next |-> i + Len(Groups[n]), value |-> n]
  BY <1>3, <1>4, VarintLoaded
<1> QED BY <1>1, <1>2, <1>5

\* The bytes of a varint.
LEMMA VarintBytes ==
  ASSUME NEW n \in Nat
  PROVE  /\ EncodeVarint(n) \in Seq(Nat) /\ Len(EncodeVarint(n)) \in Nat \ {0}
         /\ EncodeVarint(n)[Len(EncodeVarint(n))] < Group
         /\ \A j \in 1 .. Len(EncodeVarint(n)) :
              j < Len(EncodeVarint(n)) => EncodeVarint(n)[j] >= Group
<1>1. EncodeVarint(n) = Groups[n]
  <2>1. ~ (n < 0) OBVIOUS
  <2> QED BY <2>1 DEF EncodeVarint
<1>2. /\ Groups[n] \in Seq(Nat) /\ Len(Groups[n]) >= 1 /\ Groups[n][Len(Groups[n])] < Group
      /\ \A j \in 1 .. Len(Groups[n]) : j < Len(Groups[n]) => Groups[n][j] >= Group
  BY GroupsShape DEF Shape
<1>3. Len(Groups[n]) \in Nat BY <1>2
<1> QED BY <1>1, <1>2, <1>3

\* A tag that is loaded gives back the number of the field and the wire type.
LEMMA TagAt ==
  ASSUME NEW number \in Nat, NEW wire \in 0 .. 7, 8 * number + 7 < WordMod,
         NEW s \in Seq(Nat), NEW i \in Nat, At(s, i, Tag(number, wire))
  PROVE  LET tag == LoadVarint(s, i)
         IN /\ tag.end = "ok" /\ tag.next = i + Len(Tag(number, wire))
            /\ tag.value % 8 = wire /\ tag.value \div 8 = number
<1> DEFINE n == number * 8 + wire
<1>1. WordMod \in Nat BY ModulusFacts
<1>2. n \in Nat /\ n < WordMod /\ n = 8 * number + wire BY <1>1
<1>3. n % 8 = wire /\ n \div 8 = number
  <2>1. (8 * number + wire) \div 8 = number /\ (8 * number + wire) % 8 = wire
    BY DivisionUnique
  <2> QED BY <1>2, <2>1
<1>4. Tag(number, wire) = EncodeVarint(n) BY DEF Tag
<1> HIDE DEF n
<1>5. LoadVarint(s, i) = [end |-> "ok", next |-> i + Len(Tag(number, wire)), value |-> n]
  <2>1. At(s, i, EncodeVarint(n)) BY <1>4
  <2>2. LoadVarint(s, i) = [end |-> "ok", next |-> i + Len(EncodeVarint(n)), value |-> n]
    BY <1>2, <2>1, VarintAt
  <2> QED BY <1>4, <2>2
<1> QED BY <1>3, <1>5 DEF n

\* The bytes of a tag.
LEMMA TagBytes ==
  ASSUME NEW number \in Nat, NEW wire \in 0 .. 7
  PROVE  Tag(number, wire) \in Seq(Nat) /\ Len(Tag(number, wire)) \in Nat \ {0}
<1> DEFINE n == number * 8 + wire
<1>1. n \in Nat OBVIOUS
<1>2. Tag(number, wire) = EncodeVarint(n) BY DEF Tag
<1> HIDE DEF n
<1> QED BY <1>1, <1>2, VarintBytes

\* The number of an int32: what it carries, its bytes, and what is made of it again.
LEMMA Int32Bytes ==
  ASSUME NEW v \in Int32
  PROVE  /\ Carried("int32", v) \in Nat /\ Carried("int32", v) < WordMod
         /\ Preprocess("int32", v) = EncodeVarint(Carried("int32", v))
         /\ Postprocess("int32", Carried("int32", v)) = v
<1> DEFINE c == Carried("int32", v)
<1>1. "int32" \in VarintTypes /\ "int32" \in ScalarTypes /\ "int32" \notin LongTypes \cup Fixed64
  BY DEF VarintTypes, ScalarTypes, LongTypes, Fixed64
<1>2. v \in CutRange("int32")
  <2>1. Modulus("int32") = IntMod BY <1>1 DEF Modulus
  <2>2. "int32" \notin UnsignedTypes /\ "int32" # "bool" BY DEF UnsignedTypes
  <2>3. CutRange("int32") = -(Modulus("int32") \div 2) .. Modulus("int32") \div 2 - 1
    BY <2>2 DEF CutRange
  <2> QED BY <2>1, <2>3 DEF Int32
<1>3. /\ v \in Int /\ c \in 0 .. WordMod - 1 /\ Postprocess("int32", c) = v
  BY <1>1, <1>2, ValueComesBack
<1>4. WordMod \in Nat BY ModulusFacts
<1>5. c \in Nat /\ c < WordMod BY <1>3, <1>4
<1>6. Preprocess("int32", v) = EncodeVarint(c)
  <2>1. OnWire("int32", v) = v BY DEF OnWire
  <2>2. c = IF v < 0 THEN v + WordMod ELSE v BY <1>1, <2>1 DEF Carried
  <2>3. EncodeVarint(v) = Groups[c] BY <2>2 DEF EncodeVarint
  <2>4. EncodeVarint(c) = Groups[c]
    <3> HIDE DEF c
    <3>1. ~ (c < 0) BY <1>5
    <3> QED BY <3>1 DEF EncodeVarint
  <2> QED BY <1>1, <2>1, <2>3, <2>4 DEF Preprocess
<1> QED BY <1>3, <1>5, <1>6

\* An int32 field that is in a stream is loaded from there.
LEMMA ScalarAt ==
  ASSUME NEW number \in Nat, 8 * number + 7 < WordMod, NEW v \in Int32,
         NEW s \in Seq(Nat), NEW i \in Nat, At(s, i, Scalar(number, "int32", v))
  PROVE  LET f == LoadField(s, i)
         IN /\ f.end = "field" /\ f.number = number
            /\ f.next = i + Len(Scalar(number, "int32", v))
            /\ Postprocess("int32", f.value) = v
<1> DEFINE c == Carried("int32", v)
           t == Tag(number, 0)
           e == EncodeVarint(c)
           f == LoadField(s, i)
           tag == LoadVarint(s, i)
           num == LoadVarint(s, tag.next)
<1>1. c \in Nat /\ c < WordMod /\ Preprocess("int32", v) = e /\ Postprocess("int32", c) = v
  BY Int32Bytes
<1>2. Scalar(number, "int32", v) = t \o e
  <2>1. WireType("int32") = 0 BY DEF WireType, VARINT, VarintTypes
  <2> QED BY <1>1, <2>1 DEF Scalar
<1>3. t \in Seq(Nat) /\ Len(t) \in Nat BY TagBytes
<1> HIDE DEF c
<1>4. e \in Seq(Nat) /\ Len(e) \in Nat BY <1>1, VarintBytes
<1>5. At(s, i, t) /\ At(s, i + Len(t), e) /\ i + Len(t) \in Nat
  <2> HIDE DEF t, e
  <2> QED BY <1>2, <1>3, <1>4, AtJoined
<1>6. tag.end = "ok" /\ tag.next = i + Len(t) /\ tag.value % 8 = 0 /\ tag.value \div 8 = number
  BY <1>5, TagAt
<1>7. num = [end |-> "ok", next |-> (i + Len(t)) + Len(e), value |-> c]
  <2> DEFINE k == i + Len(t)
  <2>1. k \in Nat /\ At(s, k, e) BY <1>5
  <2> HIDE DEF k
  <2>2. LoadVarint(s, k) = [end |-> "ok", next |-> k + Len(e), value |-> c]
    BY <1>1, <2>1, VarintAt
  <2> QED BY <1>6, <2>2 DEF k
<1>8. Len(t \o e) = Len(t) + Len(e) BY <1>3, <1>4, Joined
<1> HIDE DEF t, e, num, tag
<1>9. num.end = "ok" /\ num.next = i + Len(t \o e) /\ num.value = c
  BY <1>3, <1>4, <1>7, <1>8
<1>10. f = [end |-> "field", next |-> num.next, number |-> number, wire |-> 0, value |-> c]
  BY <1>6, <1>9 DEF LoadField, VARINT, LEN_DELIM, tag, num
<1> HIDE DEF f
<1>11. /\ f.end = "field" /\ f.number = number /\ f.next = num.next /\ f.value = c
  BY <1>10
<1> QED BY <1>1, <1>2, <1>9, <1>11 DEF f

\* A field of bytes that is in a stream is loaded from there.
LEMMA DelimitedAt ==
  ASSUME NEW number \in Nat, 8 * number + 7 < WordMod,
         NEW raw \in Seq(Nat), Len(raw) < WordMod,
         NEW s \in Seq(Nat), NEW i \in Nat, At(s, i, Delimited(number, raw))
  PROVE  LET f == LoadField(s, i)
         IN /\ f.end = "field" /\ f.number = number /\ f.value = raw
            /\ f.next = i + Len(Delimited(number, raw))
<1> DEFINE n == Len(raw)
           t == Tag(number, 2)
           e == EncodeVarint(n)
           f == LoadField(s, i)
           tag == LoadVarint(s, i)
           num == LoadVarint(s, tag.next)
           a == i + Len(t)
           b == a + Len(e)
<1>1. n \in Nat /\ n < WordMod OBVIOUS
<1>2. Delimited(number, raw) = (t \o e) \o raw BY DEF Delimited, LEN_DELIM
<1>3. t \in Seq(Nat) /\ Len(t) \in Nat BY TagBytes
<1>4. e \in Seq(Nat) /\ Len(e) \in Nat
  <2> HIDE DEF n
  <2> QED BY <1>1, VarintBytes
<1>5. t \o e \in Seq(Nat) /\ Len(t \o e) = Len(t) + Len(e) BY <1>3, <1>4, Joined
<1>6. At(s, i, t \o e) /\ At(s, i + Len(t \o e), raw)
  <2> DEFINE te == t \o e
  <2>1. te \in Seq(Nat) /\ Delimited(number, raw) = te \o raw BY <1>2, <1>5
  <2> HIDE DEF te
  <2>2. At(s, i, te) /\ At(s, i + Len(te), raw) BY <2>1, AtJoined
  <2> QED BY <2>2 DEF te
<1>7. At(s, i, t) /\ At(s, a, e) /\ a \in Nat
  <2> HIDE DEF t, e
  <2> QED BY <1>3, <1>4, <1>6, AtJoined
<1>8. b = i + Len(t \o e) /\ b \in Nat BY <1>3, <1>4, <1>5
<1>9. tag.end = "ok" /\ tag.next = a /\ tag.value % 8 = 2 /\ tag.value \div 8 = number
  BY <1>7, TagAt
<1>10. num = [end |-> "ok", next |-> b, value |-> n]
  <2> HIDE DEF a, n
  <2>1. LoadVarint(s, a) = [end |-> "ok", next |-> a + Len(e), value |-> n]
    BY <1>1, <1>7, VarintAt
  <2> QED BY <1>9, <2>1
<1>11. Read(s, b, n) = raw
  <2>1. At(s, b, raw) BY <1>6, <1>8
  <2>2. b + n <= Len(s) /\ \A j \in 1 .. n : s[b + j] = raw[j] BY <2>1 DEF At
  <2> HIDE DEF b
  <2>3. Min({b + n, Len(s)}) = b + n
    <3>1. b + n \in Nat /\ Len(s) \in Nat BY <1>1, <1>8
    <3> DEFINE x == b + n
    <3>2. x \in Nat /\ x <= Len(s) BY <2>2, <3>1
    <3> HIDE DEF x
    <3>3. {x, Len(s)} \in SUBSET Nat BY <3>1, <3>2
    <3>4. Min({x, Len(s)}) \in {x, Len(s)} /\ Min({x, Len(s)}) <= x
          /\ Min({x, Len(s)}) <= Len(s)
      BY <3>3, MinFound
    <3>5. Min({x, Len(s)}) = x BY <3>1, <3>2, <3>4
    <3> QED BY <3>5 DEF x
  <2>4. Read(s, b, n) = SubSeq(s, b + 1, b + n) BY <2>3 DEF Read
  <2> DEFINE r == SubSeq(s, b + 1, b + n)
  <2>5. r \in Seq(Nat) /\ Len(r) = n /\ \A j \in 1 .. n : r[j] = s[b + j]
    <3> HIDE DEF n
    <3> QED BY <1>1, <1>8, <2>2, Slice
  <2> HIDE DEF r
  <2>6. \A j \in 1 .. n : r[j] = raw[j] BY <2>2, <2>5
  <2>7. r = raw BY <2>5, <2>6, SeqEqual
  <2> QED BY <2>4, <2>7 DEF r
<1>12. AfterRead(s, b, n) = b + n BY <1>11 DEF AfterRead
<1>13. ValueSize(2, n) = n
  <2>1. FIXED_64 # LEN_DELIM /\ FIXED_32 # LEN_DELIM BY DEF FIXED_64, FIXED_32, LEN_DELIM
  <2>2. ValueSize(LEN_DELIM, n) = n BY <2>1 DEF ValueSize
  <2> QED BY <2>2 DEF LEN_DELIM
<1>14. Len(Delimited(number, raw)) = Len(t \o e) + n BY <1>2, <1>5, Joined
<1>15. b + n = i + Len(Delimited(number, raw)) BY <1>1, <1>3, <1>4, <1>5, <1>8, <1>14
<1> HIDE DEF t, e, num, tag, a, b, n
<1>16. num.end = "ok" /\ num.next = b /\ num.value = n BY <1>10
<1>17. f = [end |-> "field", next |-> b + n, number |-> number, wire |-> 2, value |-> raw]
  BY <1>9, <1>11, <1>12, <1>13, <1>16 DEF LoadField, VARINT, LEN_DELIM, tag, num
<1> HIDE DEF f
<1>18. f.end = "field" /\ f.number = number /\ f.next = b + n /\ f.value = raw BY <1>17
<1> QED BY <1>15, <1>18 DEF f

-----------------------------------------------------------------------------
\* Packed fields.

\* A sequence that is put together from the end of some bytes: at each position it begins
\* with what is read there, and goes on with the sequence of the next position.
PutTogether(g, n, head, next) ==
  g = [i \in 0 .. n |-> IF i = n THEN <<>> ELSE <<head[i]>> \o g[next[i]]]

\* A sequence that is put together from its end exists.
LEMMA FromTheEnd ==
  ASSUME NEW n \in Nat, NEW next \in [0 .. n -> 0 .. n], NEW head,
         \A i \in 0 .. n : i < n => next[i] > i
  PROVE  \E g : PutTogether(g, n, head, next)
<1> DEFINE Step(g, i) == IF i = n THEN <<>> ELSE <<head[i]>> \o g[next[i]]
           Down(k, g) == g = [i \in n - k .. n |-> Step(g, i)]
           P(k) == k <= n => \E g : Down(k, g)
           T == {k \in Nat : P(k)}
<1>1. 0 \in T
  <2> DEFINE g == [i \in n - 0 .. n |-> <<>>]
  <2>1. \A i \in n - 0 .. n : i = n OBVIOUS
  <2>2. Down(0, g) BY <2>1
  <2> HIDE DEF Down
  <2> QED BY <2>2
<1>2. ASSUME NEW k \in Nat, k \in T PROVE k + 1 \in T
  <2> SUFFICES P(k + 1)
    <3> HIDE DEF P
    <3> QED OBVIOUS
  <2> SUFFICES ASSUME k + 1 <= n PROVE \E g : Down(k + 1, g)
    <3> HIDE DEF Down
    <3> QED OBVIOUS
  <2> DEFINE low == n - (k + 1)
  <2>1. low \in 0 .. n /\ low < n /\ low + 1 = n - k /\ k <= n OBVIOUS
  <2>2. PICK g : Down(k, g)
    <3> HIDE DEF Down
    <3> QED BY <1>2, <2>1
  <2> DEFINE h == [i \in low .. n |-> IF i = low THEN <<head[i]>> \o g[next[i]] ELSE g[i]]
  <2>3. \A i \in low + 1 .. n : g[i] = Step(g, i) BY <2>1, <2>2
  <2> HIDE DEF low, Down
  <2>4. \A i \in low .. n : i < n => next[i] \in low + 1 .. n /\ next[i] > i
    <3> SUFFICES ASSUME NEW i \in low .. n, i < n
                 PROVE  next[i] \in low + 1 .. n /\ next[i] > i
      OBVIOUS
    <3>1. i \in 0 .. n BY <2>1
    <3>2. next[i] > i /\ next[i] \in 0 .. n BY <3>1
    <3> QED BY <2>1, <3>2
  <2>5. \A j \in low + 1 .. n : h[j] = g[j]
    <3> SUFFICES ASSUME NEW j \in low + 1 .. n PROVE h[j] = g[j] OBVIOUS
    <3>1. j \in low .. n /\ j # low BY <2>1
    <3> QED BY <3>1
  <2>6. \A i \in low .. n : h[i] = Step(h, i)
    <3> SUFFICES ASSUME NEW i \in low .. n PROVE h[i] = Step(h, i) OBVIOUS
    <3>1. CASE i = low
      <4>1. h[i] = <<head[i]>> \o g[next[i]] BY <3>1
      <4>2. i < n /\ i # n BY <2>1, <3>1
      <4>3. h[next[i]] = g[next[i]] BY <2>4, <2>5, <4>2
      <4> HIDE DEF h
      <4> QED BY <4>1, <4>2, <4>3
    <3>2. CASE i # low
      <4>1. i \in low + 1 .. n BY <2>1, <3>2
      <4>2. h[i] = Step(g, i) BY <2>3, <2>5, <4>1
      <4>3. CASE i = n BY <4>2, <4>3
      <4>4. CASE i # n
        <5>1. i < n BY <2>1, <4>1, <4>4
        <5>2. h[next[i]] = g[next[i]] BY <2>4, <2>5, <5>1
        <5> HIDE DEF h
        <5> QED BY <4>2, <4>4, <5>2
      <4> QED BY <4>3, <4>4
    <3> QED BY <3>1, <3>2
  <2>7. h = [i \in low .. n |-> h[i]] OBVIOUS
  <2> HIDE DEF h
  <2>8. h = [i \in low .. n |-> Step(h, i)] BY <2>6, <2>7
  <2>9. Down(k + 1, h) BY <2>8 DEF low, Down
  <2> QED BY <2>9
<1>3. \A k \in Nat : k \in T
  <2> HIDE DEF T
  <2> QED BY <1>1, <1>2, Induction
<1>4. P(n)
  <2> HIDE DEF P
  <2> QED BY <1>3
<1>5. PICK g : Down(n, g)
  <2> HIDE DEF Down
  <2> QED BY <1>4
<1>6. n - n = 0 OBVIOUS
<1>7. g = [i \in 0 .. n |-> Step(g, i)] BY <1>5, <1>6
<1> QED BY <1>7 DEF PutTogether

\* What Packed is at each byte.
LEMMA PackedSteps ==
  ASSUME NEW raw \in Seq(Nat)
  PROVE  \E from :
           /\ \A i \in 0 .. Len(raw) :
                from[i] = IF i = Len(raw) THEN <<>>
                          ELSE <<Postprocess("int32", LoadVarint(raw, i).value)>>
                                 \o from[LoadVarint(raw, i).next]
           /\ Packed(raw) = from[0]
<1> DEFINE n == Len(raw)
           next == [i \in 0 .. n |-> LoadVarint(raw, i).next]
           head == [i \in 0 .. n |-> Postprocess("int32", LoadVarint(raw, i).value)]
           From(g) == g = [i \in 0 .. Len(raw) |->
                             LET v == LoadVarint(raw, i)
                             IN IF i = Len(raw) THEN <<>>
                                ELSE <<Postprocess("int32", v.value)>> \o g[v.next]]
           from == CHOOSE g : From(g)
<1>1. n \in Nat OBVIOUS
<1>2. next \in [0 .. n -> 0 .. n] /\ \A i \in 0 .. n : i < n => next[i] > i
  <2> SUFFICES ASSUME NEW i \in 0 .. n
               PROVE  /\ LoadVarint(raw, i).next \in 0 .. n
                      /\ i < n => LoadVarint(raw, i).next > i
    OBVIOUS
  <2>1. LoadVarint(raw, i).next \in i .. n /\ (i < n => LoadVarint(raw, i).next > i)
    BY VarintNext
  <2> QED BY <1>1, <2>1
<1>3. PICK g : PutTogether(g, n, head, next)
  <2> HIDE DEF n, next, head
  <2> QED BY <1>1, <1>2, FromTheEnd
<1>4. From(g)
  <2>1. \A i \in 0 .. n : next[i] = LoadVarint(raw, i).next
                          /\ head[i] = Postprocess("int32", LoadVarint(raw, i).value)
    OBVIOUS
  <2> HIDE DEF next, head
  <2>2. \A i \in 0 .. n : g[i] = IF i = n THEN <<>> ELSE <<head[i]>> \o g[next[i]]
    BY <1>3 DEF PutTogether
  <2>3. g = [i \in 0 .. n |-> g[i]] BY <1>3 DEF PutTogether
  <2>4. \A i \in 0 .. n :
          g[i] = IF i = n THEN <<>>
                 ELSE <<Postprocess("int32", LoadVarint(raw, i).value)>>
                        \o g[LoadVarint(raw, i).next]
    BY <2>1, <2>2
  <2> QED BY <2>3, <2>4
<1>5. From(from)
  <2> HIDE DEF From
  <2> QED BY <1>4
<1>6. Packed(raw) = from[0] BY DEF Packed
<1>7. \A i \in 0 .. Len(raw) :
        from[i] = IF i = Len(raw) THEN <<>>
                  ELSE <<Postprocess("int32", LoadVarint(raw, i).value)>>
                         \o from[LoadVarint(raw, i).next]
  <2> HIDE DEF from
  <2> QED BY <1>5
<1> HIDE DEF from
<1> QED BY <1>6, <1>7

\* The elements of a packed field, as bytes.
ListItems(list) == [j \in DOMAIN list |-> Preprocess("int32", list[j])]

\* A packed field gives back the elements it was made from, and its last byte ends the last
\* one.
LEMMA PackedBack ==
  ASSUME NEW list \in Seq(Int32), NEW raw, raw = FlattenSeq(ListItems(list))
  PROVE  /\ raw \in Seq(Nat) /\ Packed(raw) = list
         /\ list # <<>> => raw # <<>> /\ Last(raw) < Group
<1> DEFINE n == Len(list)
           items == ListItems(list)
<1>1. n \in Nat /\ DOMAIN list = 1 .. n OBVIOUS
<1>2. \A j \in 1 .. n : list[j] \in Int32 BY ElementOfSeq
<1>3. /\ items \in Seq(Seq(Nat)) /\ Len(items) = n
      /\ \A j \in 1 .. n : /\ items[j] = EncodeVarint(Carried("int32", list[j]))
                           /\ items[j] \in Seq(Nat)
  <2>1. items = [j \in 1 .. n |-> Preprocess("int32", list[j])] BY <1>1 DEF ListItems
  <2>2. \A j \in 1 .. n :
          /\ Preprocess("int32", list[j]) = EncodeVarint(Carried("int32", list[j]))
          /\ Preprocess("int32", list[j]) \in Seq(Nat)
    <3> SUFFICES ASSUME NEW j \in 1 .. n
                 PROVE  /\ Preprocess("int32", list[j])
                             = EncodeVarint(Carried("int32", list[j]))
                        /\ Preprocess("int32", list[j]) \in Seq(Nat)
      OBVIOUS
    <3> DEFINE v == list[j]
    <3>1. v \in Int32 BY <1>2
    <3> HIDE DEF v
    <3>2. /\ Carried("int32", v) \in Nat
          /\ Preprocess("int32", v) = EncodeVarint(Carried("int32", v))
      BY <3>1, Int32Bytes
    <3>3. EncodeVarint(Carried("int32", v)) \in Seq(Nat) BY <3>2, VarintBytes
    <3> QED BY <3>2, <3>3 DEF v
  <2> HIDE DEF items, n
  <2>3. items \in [1 .. n -> Seq(Nat)] BY <2>1, <2>2
  <2> QED BY <1>1, <2>1, <2>2, <2>3
<1> HIDE DEF items
<1>4. 0 \in 0 .. Len(items) BY <1>3
<1>5. Remaining(items, 0) = raw /\ raw \in Seq(Nat)
  <2>1. Remaining(items, 0) \in Seq(Nat) /\ Remaining(items, 0) = FlattenSeq(items)
    BY <1>3, <1>4, RemainingSteps
  <2> QED BY <2>1 DEF items
<1>6. PICK from :
        /\ \A i \in 0 .. Len(raw) :
             from[i] = IF i = Len(raw) THEN <<>>
                       ELSE <<Postprocess("int32", LoadVarint(raw, i).value)>>
                              \o from[LoadVarint(raw, i).next]
        /\ Packed(raw) = from[0]
  BY <1>5, PackedSteps
<1> DEFINE Behind(c, p) ==
             /\ p \in Nat /\ At(raw, p, Remaining(items, c))
             /\ p + Len(Remaining(items, c)) = Len(raw)
           Result(c, p) == /\ from[p] = SubSeq(list, c + 1, n)
                           /\ c < n => raw # <<>> /\ Last(raw) < Group
           P(k) == k <= n => \A p : Behind(n - k, p) => Result(n - k, p)
           T == {k \in Nat : P(k)}
<1>7. Len(raw) \in Nat BY <1>5
<1>8. 0 \in T
  <2> SUFFICES ASSUME NEW p, Behind(n, p) PROVE Result(n, p)
    <3>1. n - 0 = n BY <1>1
    <3> HIDE DEF Behind, Result
    <3> QED BY <3>1
  <2>1. Remaining(items, n) = <<>>
    <3>1. n \in 0 .. Len(items) BY <1>1, <1>3
    <3> QED BY <1>3, <3>1, RemainingSteps
  <2>2. p = Len(raw) BY <1>7, <2>1
  <2>3. from[p] = <<>>
    <3>1. p \in 0 .. Len(raw) BY <1>7, <2>2
    <3> QED BY <1>6, <2>2, <3>1
  <2>4. SubSeq(list, n + 1, n) = <<>>
    <3>1. n + 1 \in Int /\ n \in Int /\ n < n + 1 BY <1>1
    <3> HIDE DEF n
    <3> QED BY <3>1, SubSeqEmpty
  <2>5. ~ (n < n) BY <1>1
  <2> QED BY <2>3, <2>4, <2>5
<1>9. ASSUME NEW k \in Nat, k \in T PROVE k + 1 \in T
  <2> SUFFICES P(k + 1)
    <3> HIDE DEF P
    <3> QED OBVIOUS
  <2> SUFFICES ASSUME k + 1 <= n, NEW p, Behind(n - (k + 1), p) PROVE Result(n - (k + 1), p)
    <3> HIDE DEF Behind, Result
    <3> QED OBVIOUS
  <2> DEFINE c == n - (k + 1)
  <2>1. c \in 0 .. Len(items) /\ c < Len(items) /\ c + 1 = n - k /\ c + 1 \in 1 .. n
        /\ c + 1 \in 0 .. Len(items) /\ k <= n /\ c < n /\ Len(items) = n
    BY <1>1, <1>3
  <2>2. Behind(c, p) OBVIOUS
  <2>3. \A q : Behind(c + 1, q) => Result(c + 1, q)
    <3> HIDE DEF c, Behind, Result
    <3> QED BY <1>9, <2>1
  <2> HIDE DEF c
  <2> SUFFICES Result(c, p) BY DEF c
  <2> DEFINE item == items[c + 1]
             rest == Remaining(items, c + 1)
             x == Carried("int32", list[c + 1])
             q == p + Len(item)
  <2>4. Remaining(items, c) = item \o rest
    BY <1>3, <2>1, RemainingSteps
  <2>5. rest \in Seq(Nat) BY <1>3, <2>1, RemainingSteps
  <2>6. item = EncodeVarint(x) /\ item \in Seq(Nat) BY <1>3, <2>1
  <2>7. x \in Nat /\ x < WordMod /\ Postprocess("int32", x) = list[c + 1]
    <3> DEFINE v == list[c + 1]
    <3>1. v \in Int32 BY <1>2, <2>1
    <3> HIDE DEF v
    <3>2. /\ Carried("int32", v) \in Nat /\ Carried("int32", v) < WordMod
          /\ Postprocess("int32", Carried("int32", v)) = v
      BY <3>1, Int32Bytes
    <3> QED BY <3>2 DEF v
  <2> HIDE DEF x
  <2>8. Len(item) \in Nat \ {0} /\ item[Len(item)] < Group BY <2>6, <2>7, VarintBytes
  <2>9. p \in Nat /\ p + Len(item \o rest) = Len(raw) /\ At(raw, p, item \o rest)
    BY <2>2, <2>4
  <2>10. Len(item \o rest) = Len(item) + Len(rest) /\ Len(rest) \in Nat BY <2>5, <2>6, Joined
  <2>11. At(raw, p, item) /\ At(raw, q, rest) /\ q \in Nat
    <3> HIDE DEF item, rest
    <3> QED BY <1>5, <2>5, <2>6, <2>9, AtJoined
  <2> HIDE DEF item
  <2>12. q + Len(rest) = Len(raw) /\ p < Len(raw) /\ p \in 0 .. Len(raw)
    BY <1>7, <2>8, <2>9, <2>10
  <2>13. LoadVarint(raw, p) = [end |-> "ok", next |-> q, value |-> x]
    <3>1. At(raw, p, EncodeVarint(x)) BY <2>6, <2>11
    <3>2. LoadVarint(raw, p) = [end |-> "ok", next |-> p + Len(EncodeVarint(x)), value |-> x]
      BY <1>5, <2>7, <2>9, <3>1, VarintAt
    <3> QED BY <2>6, <3>2
  <2>14. Result(c + 1, q) BY <2>3, <2>11, <2>12
  <2>15. from[p] = <<list[c + 1]>> \o from[q]
    <3>1. LoadVarint(raw, p).value = x /\ LoadVarint(raw, p).next = q BY <2>13
    <3>2. p # Len(raw) BY <1>7, <2>9, <2>12
    <3> HIDE DEF q
    <3> QED BY <1>6, <2>7, <2>12, <3>1, <3>2
  <2>16. from[p] = SubSeq(list, c + 1, n)
    <3>1. from[q] = SubSeq(list, (c + 1) + 1, n) BY <2>14
    <3> DEFINE m == c + 1
    <3>2. m \in 1 .. Len(list) /\ n \in m .. Len(list) BY <1>1, <2>1
    <3> HIDE DEF m
    <3>3. SubSeq(list, m, n) = <<list[m]>> \o SubSeq(list, m + 1, n)
      <4> HIDE DEF n
      <4> QED BY <3>2, SubSeqRecursiveFirst
    <3> QED BY <2>15, <3>1, <3>3 DEF m
  <2>17. raw # <<>> /\ Last(raw) < Group
    <3>1. CASE c + 1 < n BY <2>14, <3>1
    <3>2. CASE ~ (c + 1 < n)
      <4>1. c + 1 = Len(items)
        <5> HIDE DEF n
        <5> QED BY <1>1, <2>1, <3>2
      <4>2. rest = <<>> BY <1>3, <2>1, <4>1, RemainingSteps
      <4>3. q = Len(raw) BY <1>7, <2>11, <2>12, <4>2
      <4>4. raw[p + Len(item)] = item[Len(item)]
        <5>1. Len(item) \in 1 .. Len(item) BY <2>8
        <5> QED BY <2>11, <5>1 DEF At
      <4>5. raw # <<>> BY <1>5, <2>12
      <4> QED BY <2>8, <4>3, <4>4, <4>5 DEF Last
    <3> QED BY <3>1, <3>2
  <2> QED BY <2>16, <2>17
<1>10. \A k \in Nat : k \in T
  <2> HIDE DEF T
  <2> QED BY <1>8, <1>9, Induction
<1>11. Result(0, 0)
  <2>1. P(n)
    <3> HIDE DEF P
    <3> QED BY <1>1, <1>10
  <2>2. n - n = 0 /\ n <= n BY <1>1
  <2>3. Behind(0, 0)
    <3>1. 0 + Len(raw) = Len(raw) /\ \A j \in 1 .. Len(raw) : 0 + j = j BY <1>7
    <3>2. At(raw, 0, raw) BY <1>7, <3>1 DEF At
    <3> QED BY <1>5, <3>1, <3>2
  <2> HIDE DEF Behind, Result, n
  <2> QED BY <2>1, <2>2, <2>3
<1>12. SubSeq(list, 0 + 1, n) = list
  <2>1. 0 + 1 = 1 OBVIOUS
  <2> QED BY <2>1, SubSeqFull
<1>13. list # <<>> => 0 < n BY <1>1
<1> QED BY <1>5, <1>6, <1>11, <1>12, <1>13

-----------------------------------------------------------------------------
\* The bytes of a message.

\* A message without unknown fields.
Filled(num, text, list, names) ==
  [num |-> num, text |-> text, list |-> list, names |-> names, unknown |-> <<>>]

\* The bytes of a message from each of its fields on, and from the name after the first c.
NameItems(names) == [j \in DOMAIN names |-> Delimited(4, names[j])]
FromNames(m, c)  == Remaining(NameItems(m.names), c)
FromList(m) ==
  (IF m.list # <<>> THEN Delimited(3, FlattenSeq(ListItems(m.list))) ELSE <<>>)
    \o FromNames(m, 0)
FromText(m) == (IF m.text # <<>> THEN Delimited(2, m.text) ELSE <<>>) \o FromList(m)
FromNum(m)  == (IF m.num # 0 THEN Scalar(1, "int32", m.num) ELSE <<>>) \o FromText(m)

\* The message d has the fields of m whose bytes have been read; those in rest have not.
Left(d, m, rest) ==
  \/ m.num # 0 /\ d = Filled(0, <<>>, <<>>, <<>>) /\ rest = FromNum(m)
  \/ m.text # <<>> /\ d = Filled(m.num, <<>>, <<>>, <<>>) /\ rest = FromText(m)
  \/ m.list # <<>> /\ d = Filled(m.num, m.text, <<>>, <<>>) /\ rest = FromList(m)
  \/ \E c \in 0 .. Len(m.names) :
       /\ d = Filled(m.num, m.text, m.list, SubSeq(m.names, 1, c))
       /\ rest = FromNames(m, c)

\* What the writer of a message that the reader knows may dump.
Dumped(m) ==
  /\ m \in Message /\ m.unknown = <<>> /\ m # Empty /\ Len(Bytes(m)) < WordMod

\* The fields of a message.
LEMMA DumpedFields ==
  ASSUME NEW m, Dumped(m)
  PROVE  /\ m.num \in Int32 /\ m.text \in Seq(Nat) /\ m.list \in Seq(Int32)
         /\ m.names \in Seq(Seq(Nat)) /\ m = Filled(m.num, m.text, m.list, m.names)
<1>1. /\ m.num \in Int32 /\ m.text \in Seq(Byte) /\ m.list \in Seq(Int32)
      /\ m.names \in Seq(Seq(Byte)) /\ m = Filled(m.num, m.text, m.list, m.names)
  BY DEF Dumped, Message, Filled
<1>2. Byte \subseteq Nat BY GroupFacts DEF Byte
<1>3. m.text \in Seq(Nat) BY <1>1, <1>2, SeqMonotonic
<1>4. Seq(Byte) \subseteq Seq(Nat)
  <2> SUFFICES ASSUME NEW x \in Seq(Byte) PROVE x \in Seq(Nat) OBVIOUS
  <2> QED BY <1>2, SeqMonotonic
<1>5. m.names \in Seq(Seq(Nat)) BY <1>1, <1>4, SeqMonotonic
<1> QED BY <1>1, <1>3, <1>5

\* The bytes of a scalar field and of a field of bytes.
LEMMA FieldBytes ==
  ASSUME NEW number \in Nat
  PROVE  /\ \A v \in Int32 : /\ Scalar(number, "int32", v) \in Seq(Nat)
                             /\ Len(Scalar(number, "int32", v)) > 0
         /\ \A raw \in Seq(Nat) : /\ Delimited(number, raw) \in Seq(Nat)
                                  /\ Len(Delimited(number, raw)) > Len(raw)
<1>1. ASSUME NEW v \in Int32
      PROVE  Scalar(number, "int32", v) \in Seq(Nat) /\ Len(Scalar(number, "int32", v)) > 0
  <2> DEFINE t == Tag(number, 0)
             e == EncodeVarint(Carried("int32", v))
  <2>1. Scalar(number, "int32", v) = t \o e
    <3>1. WireType("int32") = 0 BY DEF WireType, VARINT, VarintTypes
    <3> QED BY <3>1, Int32Bytes DEF Scalar
  <2>2. t \in Seq(Nat) /\ Len(t) \in Nat \ {0} BY TagBytes
  <2>3. e \in Seq(Nat) BY Int32Bytes, VarintBytes
  <2> HIDE DEF t, e
  <2>4. t \o e \in Seq(Nat) /\ Len(t \o e) = Len(t) + Len(e) /\ Len(e) \in Nat
    BY <2>2, <2>3, Joined
  <2>5. Len(t \o e) > 0 BY <2>2, <2>4
  <2> QED BY <2>1, <2>4, <2>5
<1>2. ASSUME NEW raw \in Seq(Nat)
      PROVE  Delimited(number, raw) \in Seq(Nat) /\ Len(Delimited(number, raw)) > Len(raw)
  <2> DEFINE t == Tag(number, 2)
             e == EncodeVarint(Len(raw))
             te == t \o e
  <2>1. Delimited(number, raw) = te \o raw BY DEF Delimited, LEN_DELIM
  <2>2. t \in Seq(Nat) /\ Len(t) \in Nat \ {0}
    <3>1. 2 \in 0 .. 7 OBVIOUS
    <3> QED BY <3>1, TagBytes
  <2>3. e \in Seq(Nat)
    <3>1. Len(raw) \in Nat OBVIOUS
    <3> QED BY <3>1, VarintBytes
  <2>4. te \in Seq(Nat) /\ Len(te) = Len(t) + Len(e) /\ Len(e) \in Nat
    <3> HIDE DEF t, e
    <3> QED BY <2>2, <2>3, Joined
  <2> HIDE DEF t, e, te
  <2>5. te \o raw \in Seq(Nat) /\ Len(te \o raw) = Len(te) + Len(raw) /\ Len(raw) \in Nat
    BY <2>4, Joined
  <2> QED BY <2>1, <2>2, <2>4, <2>5
<1> QED BY <1>1, <1>2

\* Numbers of fields have tags that fit into words.
LEMMA SmallNumbers == \A number \in 1 .. 4 : number \in Nat /\ 8 * number + 7 < WordMod
<1>1. WordMod \in Nat /\ 8 * 4 + 7 < WordMod BY KnownAssumption, ModulusFacts
<1> QED BY <1>1

\* The names of a message one after the other.
LEMMA NamesFacts ==
  ASSUME NEW m, Dumped(m), NEW c \in 0 .. Len(m.names)
  PROVE  /\ FromNames(m, c) \in Seq(Nat)
         /\ c = 0 => FromNames(m, c) = FlattenSeq(NameItems(m.names))
         /\ c = Len(m.names) => FromNames(m, c) = <<>>
         /\ c < Len(m.names) =>
              FromNames(m, c) = Delimited(4, m.names[c + 1]) \o FromNames(m, c + 1)
<1> DEFINE n == Len(m.names)
           items == NameItems(m.names)
<1>1. m.names \in Seq(Seq(Nat)) /\ n \in Nat BY DumpedFields
<1>2. items \in Seq(Seq(Nat)) /\ Len(items) = n
      /\ \A j \in 1 .. n : items[j] = Delimited(4, m.names[j])
  <2>1. items = [j \in 1 .. n |-> Delimited(4, m.names[j])] BY <1>1 DEF NameItems
  <2>2. \A j \in 1 .. n : Delimited(4, m.names[j]) \in Seq(Nat)
    <3> SUFFICES ASSUME NEW j \in 1 .. n PROVE Delimited(4, m.names[j]) \in Seq(Nat) OBVIOUS
    <3>1. m.names[j] \in Seq(Nat) BY <1>1, ElementOfSeq
    <3>2. 4 \in Nat OBVIOUS
    <3> QED BY <3>1, <3>2, FieldBytes
  <2> HIDE DEF items, n
  <2>3. items \in [1 .. n -> Seq(Nat)] BY <2>1, <2>2
  <2> QED BY <1>1, <2>1, <2>3
<1> HIDE DEF items
<1>3. c \in 0 .. Len(items) BY <1>2
<1>4. FromNames(m, c) = Remaining(items, c) /\ FromNames(m, c + 1) = Remaining(items, c + 1)
  BY DEF FromNames, items
<1>5. /\ Remaining(items, c) \in Seq(Nat)
      /\ c = 0 => Remaining(items, c) = FlattenSeq(items)
      /\ c = Len(items) => Remaining(items, c) = <<>>
      /\ c < Len(items) => Remaining(items, c) = items[c + 1] \o Remaining(items, c + 1)
  BY <1>2, <1>3, RemainingSteps
<1>6. c < n => items[c + 1] = Delimited(4, m.names[c + 1])
  <2>1. c < n => c + 1 \in 1 .. n BY <1>1
  <2> QED BY <1>2, <2>1
<1> QED BY <1>2, <1>4, <1>5, <1>6 DEF items

\* What __bytes__ writes, from each field on.
LEMMA FromFacts ==
  ASSUME NEW m, Dumped(m)
  PROVE  /\ FromNames(m, 0) \in Seq(Nat) /\ FromList(m) \in Seq(Nat)
         /\ FromText(m) \in Seq(Nat) /\ FromNum(m) \in Seq(Nat)
         /\ Bytes(m) = FromNum(m)
<1> DEFINE a == IF m.num # 0 THEN Scalar(1, "int32", m.num) ELSE <<>>
           b == IF m.text # <<>> THEN Delimited(2, m.text) ELSE <<>>
           l == IF m.list # <<>> THEN Delimited(3, FlattenSeq(ListItems(m.list))) ELSE <<>>
           n == FromNames(m, 0)
<1>1. /\ m.num \in Int32 /\ m.text \in Seq(Nat) /\ m.list \in Seq(Int32)
      /\ m.names \in Seq(Seq(Nat))
  BY DumpedFields
<1>2. <<>> \in Seq(Nat) /\ 1 \in Nat /\ 2 \in Nat /\ 3 \in Nat OBVIOUS
<1>3. a \in Seq(Nat) BY <1>1, <1>2, FieldBytes
<1>4. b \in Seq(Nat) BY <1>1, <1>2, FieldBytes
<1>5. l \in Seq(Nat)
  <2>1. FlattenSeq(ListItems(m.list)) \in Seq(Nat) BY <1>1, PackedBack
  <2> QED BY <1>2, <2>1, FieldBytes
<1>6. n \in Seq(Nat) /\ n = FlattenSeq(NameItems(m.names))
  <2>1. Len(m.names) \in Nat BY <1>1
  <2>2. 0 \in 0 .. Len(m.names) BY <2>1
  <2> QED BY <2>2, NamesFacts
<1>7. FromList(m) = l \o n /\ FromText(m) = b \o FromList(m) /\ FromNum(m) = a \o FromText(m)
  BY DEF FromList, FromText, FromNum
<1>8. Bytes(m) = (((a \o b) \o l) \o n) \o <<>>
  <2>1. m.unknown = <<>> BY DEF Dumped
  <2> QED BY <1>6, <2>1 DEF Bytes, ListItems, NameItems
<1> HIDE DEF a, b, l, n
<1>9. l \o n \in Seq(Nat) BY <1>5, <1>6, ConcatProperties
<1>10. b \o (l \o n) \in Seq(Nat) /\ a \o b \in Seq(Nat)
  BY <1>3, <1>4, <1>9, ConcatProperties
<1>11. (a \o b) \o (l \o n) \in Seq(Nat) /\ a \o (b \o (l \o n)) \in Seq(Nat)
  BY <1>3, <1>9, <1>10, ConcatProperties
<1>12. ((a \o b) \o l) \o n = (a \o b) \o (l \o n) BY <1>5, <1>6, <1>10, Associative
<1>13. (a \o b) \o (l \o n) = a \o (b \o (l \o n)) BY <1>3, <1>4, <1>9, Associative
<1>14. ((a \o b) \o (l \o n)) \o <<>> = (a \o b) \o (l \o n) BY <1>11, ConcatEmptySeq
<1> QED BY <1>6, <1>7, <1>8, <1>9, <1>10, <1>11, <1>12, <1>13, <1>14 DEF n

\* Fields that have their default value are skipped by writer and reader.
LEMMA LeftFrom ==
  ASSUME NEW m, Dumped(m)
  PROVE  /\ Left(Filled(m.num, m.text, m.list, <<>>), m, FromNames(m, 0))
         /\ Left(Filled(m.num, m.text, <<>>, <<>>), m, FromList(m))
         /\ Left(Filled(m.num, <<>>, <<>>, <<>>), m, FromText(m))
         /\ Left(Filled(0, <<>>, <<>>, <<>>), m, FromNum(m))
<1>1. m.names \in Seq(Seq(Nat)) BY DumpedFields
<1>2. /\ FromNames(m, 0) \in Seq(Nat) /\ FromList(m) \in Seq(Nat)
      /\ FromText(m) \in Seq(Nat) /\ FromNum(m) \in Seq(Nat)
  BY FromFacts
<1>3. Left(Filled(m.num, m.text, m.list, <<>>), m, FromNames(m, 0))
  <2>1. 0 \in 0 .. Len(m.names) BY <1>1
  <2>2. SubSeq(m.names, 1, 0) = <<>> BY SubSeqEmpty
  <2> QED BY <2>1, <2>2 DEF Left
<1>4. Left(Filled(m.num, m.text, <<>>, <<>>), m, FromList(m))
  <2>1. CASE m.list # <<>> BY <2>1 DEF Left
  <2>2. CASE m.list = <<>>
    <3>1. FromList(m) = <<>> \o FromNames(m, 0) BY <2>2 DEF FromList
    <3>2. FromList(m) = FromNames(m, 0) BY <1>2, <3>1, ConcatEmptySeq
    <3> QED BY <1>3, <2>2, <3>2
  <2> QED BY <2>1, <2>2
<1>5. Left(Filled(m.num, <<>>, <<>>, <<>>), m, FromText(m))
  <2>1. CASE m.text # <<>> BY <2>1 DEF Left
  <2>2. CASE m.text = <<>>
    <3>1. FromText(m) = <<>> \o FromList(m) BY <2>2 DEF FromText
    <3>2. FromText(m) = FromList(m) BY <1>2, <3>1, ConcatEmptySeq
    <3> QED BY <1>4, <2>2, <3>2
  <2> QED BY <2>1, <2>2
<1>6. Left(Filled(0, <<>>, <<>>, <<>>), m, FromNum(m))
  <2>1. CASE m.num # 0 BY <2>1 DEF Left
  <2>2. CASE m.num = 0
    <3>1. FromNum(m) = <<>> \o FromText(m) BY <2>2 DEF FromNum
    <3>2. FromNum(m) = FromText(m) BY <1>2, <3>1, ConcatEmptySeq
    <3> QED BY <1>5, <2>2, <3>2
  <2> QED BY <2>1, <2>2
<1> QED BY <1>3, <1>4, <1>5, <1>6

-----------------------------------------------------------------------------
\* The fields of a message are loaded as they were written.

\* A field of a message that d has not yet is loaded and merged into d, and more is left.
TakesField(s, i, d, m, rest) ==
  LET f == LoadField(s, i)
  IN /\ f.end = "field" /\ f.number \in 1 .. 4 /\ ~ CutShort(f)
     /\ \E more \in Seq(Nat) :
          /\ Left(Merged(d, f), m, more) /\ At(s, f.next, more)
          /\ i < f.next /\ f.next + Len(more) = i + Len(rest)

\* A record of fields with one of them changed.
LEMMA FilledChanged ==
  ASSUME NEW num, NEW text, NEW list, NEW names, NEW x
  PROVE  LET d == Filled(num, text, list, names)
         IN /\ [d EXCEPT !.num = x] = Filled(x, text, list, names)
            /\ [d EXCEPT !.text = x] = Filled(num, x, list, names)
            /\ [d EXCEPT !.list = x] = Filled(num, text, x, names)
            /\ [d EXCEPT !.names = x] = Filled(num, text, list, x)
            /\ d.list = list /\ d.names = names
BY DEF Filled

\* What a field is merged into.
LEMMA MergedFields ==
  ASSUME NEW num, NEW text, NEW list, NEW names, NEW d, d = Filled(num, text, list, names),
         NEW f, NEW v, f.value = v
  PROVE  /\ f.number = 1 => Merged(d, f) = Filled(Postprocess("int32", v), text, list, names)
         /\ f.number = 2 => Merged(d, f) = Filled(num, v, list, names)
         /\ f.number = 3 => Merged(d, f) = Filled(num, text, list \o Packed(v), names)
         /\ f.number = 4 => Merged(d, f) = Filled(num, text, list, Append(names, v))
<1> DEFINE p == Postprocess("int32", v)
           q == list \o Packed(v)
           a == Append(names, v)
<1>0. 1 # 2 /\ 1 # 3 /\ 1 # 4 /\ 2 # 3 /\ 2 # 4 /\ 3 # 4 OBVIOUS
<1>1. ASSUME f.number = 1 PROVE Merged(d, f) = Filled(p, text, list, names)
  <2>1. Merged(d, f) = [d EXCEPT !.num = p] BY <1>0, <1>1, Zenon DEF Merged
  <2> HIDE DEF p
  <2> DEFINE e == Filled(num, text, list, names)
  <2>2. [e EXCEPT !.num = p] = Filled(p, text, list, names) BY DEF Filled
  <2>3. d = e OBVIOUS
  <2> HIDE DEF e
  <2> QED BY <2>1, <2>2, <2>3
<1>2. ASSUME f.number = 2 PROVE Merged(d, f) = Filled(num, v, list, names)
  <2>1. Merged(d, f) = [d EXCEPT !.text = v] BY <1>0, <1>2, Zenon DEF Merged
  <2> QED BY <2>1, FilledChanged
<1>3. ASSUME f.number = 3 PROVE Merged(d, f) = Filled(num, text, q, names)
  <2>1. Merged(d, f) = [d EXCEPT !.list = d.list \o Packed(f.value)]
    BY <1>0, <1>3, Zenon DEF Merged
  <2>2. d.list = list BY FilledChanged
  <2>3. Merged(d, f) = [d EXCEPT !.list = q] BY <2>1, <2>2
  <2> HIDE DEF q
  <2> QED BY <2>3, FilledChanged
<1>4. ASSUME f.number = 4 PROVE Merged(d, f) = Filled(num, text, list, a)
  <2>1. Merged(d, f) = [d EXCEPT !.names = Append(d.names, f.value)]
    BY <1>0, <1>4, Zenon DEF Merged
  <2>2. d.names = names BY FilledChanged
  <2>3. Merged(d, f) = [d EXCEPT !.names = a] BY <2>1, <2>2
  <2> HIDE DEF a
  <2> QED BY <2>3, FilledChanged
<1> QED BY <1>1, <1>2, <1>3, <1>4

\* Bytes that are followed by others are in the stream before them.
LEMMA Followed ==
  ASSUME NEW s \in Seq(Nat), NEW i \in Nat, NEW x \in Seq(Nat), NEW y \in Seq(Nat),
         NEW rest, rest = x \o y, At(s, i, rest), Len(x) > 0
  PROVE  /\ At(s, i, x) /\ At(s, i + Len(x), y) /\ i < i + Len(x) /\ Len(x) <= Len(rest)
         /\ (i + Len(x)) + Len(y) = i + Len(rest)
<1>1. Len(rest) = Len(x) + Len(y) /\ Len(x) \in Nat /\ Len(y) \in Nat BY Joined
<1>2. At(s, i, x) /\ At(s, i + Len(x), y) BY AtJoined
<1> QED BY <1>1, <1>2

\* A field whose bytes come first is taken.
LEMMA OneTaken ==
  ASSUME NEW s \in Seq(Nat), NEW i \in Nat, NEW x \in Seq(Nat), NEW y \in Seq(Nat),
         NEW rest, rest = x \o y, At(s, i, rest), Len(x) > 0, NEW d, NEW m
  PROVE  LET f == LoadField(s, i)
         IN f.end = "field" /\ f.number \in 1 .. 4 /\ ~ CutShort(f)
              /\ f.next = i + Len(x) /\ Left(Merged(d, f), m, y)
            => TakesField(s, i, d, m, rest)
<1>1. /\ At(s, i + Len(x), y) /\ i < i + Len(x)
      /\ (i + Len(x)) + Len(y) = i + Len(rest)
  <2>1. Len(rest) = Len(x) + Len(y) /\ Len(x) \in Nat /\ Len(y) \in Nat BY Joined
  <2>2. At(s, i, x) /\ At(s, i + Len(x), y) BY AtJoined
  <2> QED BY <2>1, <2>2
<1> QED BY <1>1 DEF TakesField

\* The number comes first.
LEMMA NumTaken ==
  ASSUME NEW m, Dumped(m), NEW d, d = Filled(0, <<>>, <<>>, <<>>), m.num # 0,
         NEW rest, rest = FromNum(m), NEW s \in Seq(Nat), NEW i \in Nat, At(s, i, rest)
  PROVE  TakesField(s, i, d, m, rest)
<1> DEFINE f == LoadField(s, i)
           num == m.num
           x == Scalar(1, "int32", num)
           y == FromText(m)
<1>1. num \in Int32 /\ y \in Seq(Nat) BY DumpedFields, FromFacts
<1>2. 1 \in Nat /\ 8 * 1 + 7 < WordMod BY SmallNumbers
<1>3. rest = x \o y BY DEF FromNum
<1>4. Left(Filled(num, <<>>, <<>>, <<>>), m, y) BY LeftFrom
<1> HIDE DEF num
<1>5. x \in Seq(Nat) /\ Len(x) > 0 BY <1>1, <1>2, FieldBytes
<1> HIDE DEF x, y
<1>6. At(s, i, x) BY <1>1, <1>3, <1>5, Followed
<1>7. /\ f.end = "field" /\ f.number = 1 /\ f.next = i + Len(x)
      /\ Postprocess("int32", f.value) = num
  BY <1>1, <1>2, <1>6, ScalarAt DEF x
<1> HIDE DEF f
<1>8. Merged(d, f) = Filled(num, <<>>, <<>>, <<>>) BY <1>7, MergedFields
<1>9. Left(Merged(d, f), m, y) BY <1>4, <1>8
<1>10. ~ CutShort(f) /\ f.number \in 1 .. 4 BY <1>7 DEF CutShort
<1>11. f = LoadField(s, i) BY DEF f
<1> QED BY <1>1, <1>3, <1>5, <1>7, <1>9, <1>10, <1>11, OneTaken

\* The bytes come first.
LEMMA TextTaken ==
  ASSUME NEW m, Dumped(m), NEW d, d = Filled(m.num, <<>>, <<>>, <<>>), m.text # <<>>,
         NEW rest, rest = FromText(m), Len(rest) < WordMod,
         NEW s \in Seq(Nat), NEW i \in Nat, At(s, i, rest)
  PROVE  TakesField(s, i, d, m, rest)
<1> DEFINE f == LoadField(s, i)
           num == m.num
           text == m.text
           x == Delimited(2, text)
           y == FromList(m)
<1>1. text \in Seq(Nat) /\ y \in Seq(Nat) BY DumpedFields, FromFacts
<1>2. 2 \in Nat /\ 8 * 2 + 7 < WordMod /\ WordMod \in Nat BY SmallNumbers, ModulusFacts
<1>3. rest = x \o y BY DEF FromText
<1>4. Left(Filled(num, text, <<>>, <<>>), m, y) /\ d = Filled(num, <<>>, <<>>, <<>>) BY LeftFrom
<1> HIDE DEF num, text
<1>5. x \in Seq(Nat) /\ Len(x) > Len(text) BY <1>1, <1>2, FieldBytes
<1>6. Len(text) \in Nat BY <1>1
<1> HIDE DEF x, y
<1>7. Len(x) > 0 /\ Len(x) \in Nat BY <1>5, <1>6
<1>8. At(s, i, x) /\ Len(x) <= Len(rest) BY <1>1, <1>3, <1>5, <1>7, Followed
<1>9. Len(text) < WordMod
  <2>1. Len(rest) \in Nat BY <1>1, <1>3, <1>5, Joined
  <2> QED BY <1>2, <1>5, <1>6, <1>7, <1>8, <2>1
<1>10. f.end = "field" /\ f.number = 2 /\ f.next = i + Len(x) /\ f.value = text
  BY <1>1, <1>2, <1>8, <1>9, DelimitedAt DEF x
<1> HIDE DEF f
<1>11. Merged(d, f) = Filled(num, text, <<>>, <<>>) BY <1>4, <1>10, MergedFields
<1>12. Left(Merged(d, f), m, y) BY <1>4, <1>11
<1>13. ~ CutShort(f) /\ f.number \in 1 .. 4 BY <1>10 DEF CutShort
<1>14. f = LoadField(s, i) BY DEF f
<1> QED BY <1>1, <1>3, <1>5, <1>7, <1>10, <1>12, <1>13, <1>14, OneTaken

\* The packed numbers come first.
LEMMA ListTaken ==
  ASSUME NEW m, Dumped(m), NEW d, d = Filled(m.num, m.text, <<>>, <<>>), m.list # <<>>,
         NEW rest, rest = FromList(m), Len(rest) < WordMod,
         NEW s \in Seq(Nat), NEW i \in Nat, At(s, i, rest)
  PROVE  TakesField(s, i, d, m, rest)
<1> DEFINE f == LoadField(s, i)
           num == m.num
           text == m.text
           list == m.list
           raw == FlattenSeq(ListItems(list))
           x == Delimited(3, raw)
           y == FromNames(m, 0)
<1>1. list \in Seq(Int32) /\ y \in Seq(Nat) BY DumpedFields, FromFacts
<1>2. 3 \in Nat /\ 8 * 3 + 7 < WordMod /\ WordMod \in Nat BY SmallNumbers, ModulusFacts
<1>3. rest = x \o y BY DEF FromList
<1>4. Left(Filled(num, text, list, <<>>), m, y) /\ d = Filled(num, text, <<>>, <<>>) BY LeftFrom
<1>5. list # <<>> OBVIOUS
<1> HIDE DEF num, text, list
<1>6. raw \in Seq(Nat) /\ Packed(raw) = list /\ Last(raw) < Group /\ raw # <<>>
  BY <1>1, <1>5, PackedBack
<1> HIDE DEF raw
<1>7. x \in Seq(Nat) /\ Len(x) > Len(raw) BY <1>2, <1>6, FieldBytes
<1>8. Len(raw) \in Nat BY <1>6
<1> HIDE DEF x, y
<1>9. Len(x) > 0 /\ Len(x) \in Nat BY <1>7, <1>8
<1>10. At(s, i, x) /\ Len(x) <= Len(rest) BY <1>1, <1>3, <1>7, <1>9, Followed
<1>11. Len(raw) < WordMod
  <2>1. Len(rest) \in Nat BY <1>1, <1>3, <1>7, Joined
  <2> QED BY <1>2, <1>7, <1>8, <1>9, <1>10, <2>1
<1>12. f.end = "field" /\ f.number = 3 /\ f.next = i + Len(x) /\ f.value = raw
  BY <1>2, <1>6, <1>10, <1>11, DelimitedAt DEF x
<1> HIDE DEF f
<1>13. Merged(d, f) = Filled(num, text, list, <<>>)
  <2> DEFINE none == <<>>
  <2>0. d = Filled(num, text, none, none) BY <1>4
  <2>2. none \o list = list BY <1>1, ConcatEmptySeq
  <2> HIDE DEF none
  <2>1. Merged(d, f) = Filled(num, text, none \o Packed(raw), none)
    BY <1>12, <2>0, MergedFields
  <2>3. Merged(d, f) = Filled(num, text, list, none) BY <1>6, <2>1, <2>2
  <2> QED BY <2>3 DEF none
<1>14. Left(Merged(d, f), m, y) BY <1>4, <1>13
<1>15. ~ CutShort(f) /\ f.number \in 1 .. 4
  <2>1. Last(raw) \in Nat
    <3>1. Len(raw) # 0 BY <1>6, <1>8, EmptySeq
    <3>2. Len(raw) \in 1 .. Len(raw) BY <1>8, <3>1
    <3> QED BY <1>6, <3>2, ElementOfSeq DEF Last
  <2>2. ~ (Last(raw) >= Group) BY <1>6, <2>1, GroupFacts
  <2> QED BY <1>12, <2>2 DEF CutShort
<1>16. f = LoadField(s, i) BY DEF f
<1> QED BY <1>1, <1>3, <1>7, <1>9, <1>12, <1>14, <1>15, <1>16, OneTaken

\* One of the names comes first.
LEMMA NameTaken ==
  ASSUME NEW m, Dumped(m), NEW c \in 0 .. Len(m.names), NEW d,
         d = Filled(m.num, m.text, m.list, SubSeq(m.names, 1, c)),
         NEW rest, rest = FromNames(m, c), rest # <<>>, Len(rest) < WordMod,
         NEW s \in Seq(Nat), NEW i \in Nat, At(s, i, rest)
  PROVE  TakesField(s, i, d, m, rest)
<1> DEFINE f == LoadField(s, i)
           names == m.names
           name == names[c + 1]
           x == Delimited(4, name)
           y == FromNames(m, c + 1)
<1>1. names \in Seq(Seq(Nat)) /\ Len(names) \in Nat /\ c \in Nat /\ c <= Len(names)
  BY DumpedFields
<1>2. c < Len(names) /\ c + 1 \in 0 .. Len(names) /\ c + 1 \in 1 .. Len(names)
  <2>1. c # Len(names) BY NamesFacts
  <2> QED BY <1>1, <2>1
<1>3. rest = x \o y BY <1>2, NamesFacts
<1>4. y \in Seq(Nat) BY <1>2, NamesFacts
<1>5. name \in Seq(Nat) BY <1>1, <1>2, ElementOfSeq
<1>6. 4 \in Nat /\ 8 * 4 + 7 < WordMod /\ WordMod \in Nat BY SmallNumbers, ModulusFacts
<1>7. Left(Filled(m.num, m.text, m.list, SubSeq(names, 1, c + 1)), m, y)
  BY <1>2 DEF Left
<1>8. Append(SubSeq(names, 1, c), name) = SubSeq(names, 1, c + 1)
  <2> DEFINE k == c + 1
  <2>1. k - 1 = c /\ k \in 1 .. Len(names) /\ 1 \in 1 .. Len(names)
    BY <1>1, <1>2
  <2>2. name = names[k] OBVIOUS
  <2> HIDE DEF k, name, names
  <2>3. SubSeq(names, 1, k) = SubSeq(names, 1, k - 1) \o <<names[k]>>
    BY <1>1, <2>1, SubSeqRecursiveSecond
  <2>4. SubSeq(names, 1, c) \in Seq(Seq(Nat))
    <3>1. 1 \in Int /\ c \in Int /\ \A j \in 1 .. c : names[j] \in Seq(Nat)
      BY <1>1, ElementOfSeq
    <3> QED BY <3>1, SubSeqProperties
  <2>5. Append(SubSeq(names, 1, c), name) = SubSeq(names, 1, c) \o <<name>>
    BY <1>5, <2>4, AppendIsConcat
  <2> QED BY <2>1, <2>2, <2>3, <2>5 DEF k
<1> HIDE DEF name
<1>9. x \in Seq(Nat) /\ Len(x) > Len(name) BY <1>5, <1>6, FieldBytes
<1>10. Len(name) \in Nat BY <1>5
<1> HIDE DEF x, y
<1>11. Len(x) > 0 /\ Len(x) \in Nat BY <1>9, <1>10
<1>12. At(s, i, x) /\ Len(x) <= Len(rest) BY <1>3, <1>4, <1>9, <1>11, Followed
<1>13. Len(name) < WordMod
  <2>1. Len(rest) \in Nat BY <1>3, <1>4, <1>9, Joined
  <2> QED BY <1>6, <1>9, <1>10, <1>11, <1>12, <2>1
<1>14. f.end = "field" /\ f.number = 4 /\ f.next = i + Len(x) /\ f.value = name
  BY <1>5, <1>6, <1>12, <1>13, DelimitedAt DEF x
<1> HIDE DEF f
<1>15. Merged(d, f) = Filled(m.num, m.text, m.list, SubSeq(names, 1, c + 1))
  <2> DEFINE before == SubSeq(names, 1, c)
             num == m.num
             text == m.text
             list == m.list
  <2>1. d = Filled(num, text, list, before) OBVIOUS
  <2>2. Append(before, name) = SubSeq(names, 1, c + 1) BY <1>8
  <2> HIDE DEF before, num, text, list
  <2>3. Merged(d, f) = Filled(num, text, list, Append(before, name))
    BY <1>14, <2>1, MergedFields
  <2> QED BY <2>2, <2>3 DEF num, text, list
<1>16. Left(Merged(d, f), m, y) BY <1>7, <1>15
<1>17. ~ CutShort(f) /\ f.number \in 1 .. 4 BY <1>14 DEF CutShort
<1>18. f = LoadField(s, i) BY DEF f
<1> QED BY <1>3, <1>4, <1>9, <1>11, <1>14, <1>16, <1>17, <1>18, OneTaken

\* The loop of load takes the fields of a message in the order in which they were written.
LEMMA NextField ==
  ASSUME NEW m, Dumped(m), NEW d, NEW rest, Left(d, m, rest), rest # <<>>,
         Len(rest) < WordMod, NEW s \in Seq(Nat), NEW i \in Nat, At(s, i, rest)
  PROVE  TakesField(s, i, d, m, rest)
<1>1. CASE m.num # 0 /\ d = Filled(0, <<>>, <<>>, <<>>) /\ rest = FromNum(m)
  BY <1>1, NumTaken
<1>2. CASE m.text # <<>> /\ d = Filled(m.num, <<>>, <<>>, <<>>) /\ rest = FromText(m)
  BY <1>2, TextTaken
<1>3. CASE m.list # <<>> /\ d = Filled(m.num, m.text, <<>>, <<>>) /\ rest = FromList(m)
  BY <1>3, ListTaken
<1>4. CASE \E c \in 0 .. Len(m.names) :
             /\ d = Filled(m.num, m.text, m.list, SubSeq(m.names, 1, c))
             /\ rest = FromNames(m, c)
  BY <1>4, NameTaken
<1> QED BY <1>1, <1>2, <1>3, <1>4 DEF Left

\* A message of which nothing is left has been loaded as it was dumped.
LEMMA NothingLeft ==
  ASSUME NEW m, Dumped(m), NEW d, NEW rest, Left(d, m, rest)
  PROVE  rest \in Seq(Nat) /\ (rest = <<>> => d = m)
<1>1. /\ m.num \in Int32 /\ m.text \in Seq(Nat) /\ m.list \in Seq(Int32)
      /\ m.names \in Seq(Seq(Nat)) /\ m = Filled(m.num, m.text, m.list, m.names)
  BY DumpedFields
<1>2. /\ FromNames(m, 0) \in Seq(Nat) /\ FromList(m) \in Seq(Nat)
      /\ FromText(m) \in Seq(Nat) /\ FromNum(m) \in Seq(Nat)
  BY FromFacts
<1>3. 1 \in Nat /\ 2 \in Nat /\ 3 \in Nat /\ 4 \in Nat OBVIOUS
<1>4. ASSUME NEW x \in Seq(Nat), NEW y \in Seq(Nat), Len(x) > 0 PROVE x \o y # <<>>
  <2>1. Len(x \o y) = Len(x) + Len(y) /\ Len(y) \in Nat /\ Len(x) \in Nat BY Joined
  <2>2. Len(x \o y) > 0 BY <1>4, <2>1
  <2>3. Len(<<>>) = 0 OBVIOUS
  <2> DEFINE z == x \o y
  <2> HIDE DEF z
  <2>4. Len(z) > 0 BY <2>2 DEF z
  <2>5. z # <<>> BY <2>3, <2>4
  <2> QED BY <2>5 DEF z
<1>5. CASE m.num # 0 /\ rest = FromNum(m)
  <2>1. Scalar(1, "int32", m.num) \in Seq(Nat) /\ Len(Scalar(1, "int32", m.num)) > 0
    BY <1>1, <1>3, FieldBytes
  <2>2. FromNum(m) = Scalar(1, "int32", m.num) \o FromText(m) BY <1>5 DEF FromNum
  <2>3. rest # <<>> BY <1>2, <1>4, <1>5, <2>1, <2>2
  <2> QED BY <1>2, <1>5, <2>3
<1>6. CASE m.text # <<>> /\ rest = FromText(m)
  <2> DEFINE text == m.text
             x == Delimited(2, text)
  <2>0. text \in Seq(Nat) /\ Len(text) \in Nat BY <1>1
  <2>2. FromText(m) = x \o FromList(m) BY <1>6 DEF FromText
  <2> HIDE DEF text
  <2>1. x \in Seq(Nat) /\ Len(x) > Len(text) BY <1>3, <2>0, FieldBytes
  <2> HIDE DEF x
  <2>3. Len(x) > 0 BY <2>0, <2>1
  <2>4. rest # <<>> BY <1>2, <1>4, <1>6, <2>1, <2>2, <2>3
  <2> QED BY <1>2, <1>6, <2>4
<1>7. CASE m.list # <<>> /\ rest = FromList(m)
  <2> DEFINE raw == FlattenSeq(ListItems(m.list))
             x == Delimited(3, raw)
  <2>1. raw \in Seq(Nat) BY <1>1, PackedBack
  <2>2. FromList(m) = x \o FromNames(m, 0) BY <1>7 DEF FromList
  <2> HIDE DEF raw
  <2>3. x \in Seq(Nat) /\ Len(x) > Len(raw) /\ Len(raw) \in Nat
    BY <1>3, <2>1, FieldBytes
  <2> HIDE DEF x
  <2>4. Len(x) > 0 BY <2>3
  <2>5. rest # <<>> BY <1>2, <1>4, <1>7, <2>2, <2>3, <2>4
  <2> QED BY <1>2, <1>7, <2>5
<1>8. ASSUME NEW c \in 0 .. Len(m.names), rest = FromNames(m, c),
             d = Filled(m.num, m.text, m.list, SubSeq(m.names, 1, c))
      PROVE  rest \in Seq(Nat) /\ (rest = <<>> => d = m)
  <2>1. Len(m.names) \in Nat /\ c \in Nat BY <1>1
  <2>2. rest \in Seq(Nat) BY <1>8, NamesFacts
  <2>3. CASE c = Len(m.names)
    <3>1. SubSeq(m.names, 1, c) = m.names BY <1>1, <2>3, SubSeqFull
    <3> QED BY <1>1, <1>8, <2>2, <3>1
  <2>4. CASE c # Len(m.names)
    <3> DEFINE name == m.names[c + 1]
               x == Delimited(4, name)
    <3>1. c < Len(m.names) /\ c + 1 \in 0 .. Len(m.names) /\ c + 1 \in 1 .. Len(m.names)
      BY <2>1, <2>4
    <3>2. rest = x \o FromNames(m, c + 1) /\ FromNames(m, c + 1) \in Seq(Nat)
      BY <1>8, <3>1, NamesFacts
    <3>3. name \in Seq(Nat) BY <1>1, <3>1, ElementOfSeq
    <3> HIDE DEF name
    <3>4. x \in Seq(Nat) /\ Len(x) > Len(name) /\ Len(name) \in Nat
      BY <1>3, <3>3, FieldBytes
    <3> HIDE DEF x
    <3>5. Len(x) > 0 BY <3>4
    <3>6. rest # <<>> BY <1>4, <3>2, <3>4, <3>5
    <3> QED BY <2>2, <3>6
  <2> QED BY <2>3, <2>4
<1> QED BY <1>5, <1>6, <1>7, <1>8 DEF Left

-----------------------------------------------------------------------------
\* The inductive invariant.

\* What is on the stream: n messages end at Start(ends, n), and the last of them is followed by
\* nothing, or by the beginning of a torn one.
Start(ended, n) == IF n = 0 THEN 0 ELSE ended[n]

StreamInv ==
  /\ stream \in Seq(Nat) /\ torn \in BOOLEAN
  /\ sent \in Seq(Messages) /\ ends \in Seq(Nat) /\ Len(ends) = Len(sent)
  /\ \A n \in 1 .. Len(sent) :
       /\ Start(ends, n) = Start(ends, n - 1) + Len(Framed(sent[n]))
       /\ At(stream, Start(ends, n - 1), Framed(sent[n]))

TornAt(s, e) ==
  \E m \in Messages : \E n \in Nat :
    /\ n < Len(Framed(m)) /\ Len(s) = e + n
    /\ \A j \in 1 .. n : s[e + j] = Framed(m)[j]

TailInv ==
  /\ ~ torn => Len(stream) = Start(ends, Len(sent))
  /\ torn => TornAt(stream, Start(ends, Len(sent)))

\* What has been loaded was sent, and between two calls of load nothing else has been read.
ReaderInv ==
  /\ pos \in 0 .. Len(stream) /\ size \in Nat /\ read \in Nat
  /\ loaded \in Seq(Messages) /\ Len(loaded) <= Len(sent)
  /\ \A n \in 1 .. Len(loaded) : loaded[n] = sent[n]
  /\ reader = "idle" => pos = Start(ends, Len(loaded))

\* In the middle of a message of n bytes that ends at e: rest is what is left to read of it.
Halfway(m, rest, s, i, n, count, d, e) ==
  /\ Left(d, m, rest) /\ rest # <<>> /\ At(s, i, rest)
  /\ count + Len(rest) = n /\ n = Len(Bytes(m)) /\ i + Len(rest) = e

LoadingInv ==
  reader = "loading" =>
    /\ Len(loaded) < Len(sent) =>
         \E rest \in Seq(Nat) :
           Halfway(sent[Len(loaded) + 1], rest, stream, pos, size, read, msg,
                   Start(ends, Len(loaded) + 1))
    /\ ~ (Len(loaded) < Len(sent)) => torn /\ read + (Len(stream) - pos) < size

IInv == StreamInv /\ TailInv /\ ReaderInv /\ LoadingInv

\* The messages of an agreed type.
LEMMA AgreedMessages == ASSUME Agreed PROVE \A m \in Messages : Dumped(m)
<1> SUFFICES ASSUME NEW m \in Messages PROVE Dumped(m) OBVIOUS
<1>1. m \in Message /\ Len(Bytes(m)) < WordMod BY MessagesAssumption
<1>2. m.unknown = <<>> /\ m # Empty BY DEF Agreed
<1> QED BY <1>1, <1>2 DEF Dumped

\* The bytes of a message and its delimiter.
LEMMA FramedBytes ==
  ASSUME NEW m, Dumped(m), NEW b, b = Bytes(m), NEW z, z = EncodeVarint(Len(b))
  PROVE  /\ b \in Seq(Nat) /\ Len(b) \in Nat \ {0} /\ Len(b) < WordMod
         /\ z \in Seq(Nat) /\ Len(z) \in Nat \ {0}
         /\ Framed(m) = z \o b /\ Framed(m) \in Seq(Nat) /\ Len(Framed(m)) = Len(z) + Len(b)
<1>1. b \in Seq(Nat) /\ b = FromNum(m) BY FromFacts
<1>2. Len(b) \in Nat /\ Len(b) < WordMod BY <1>1 DEF Dumped
<1>3. Len(b) # 0
  <2> SUFFICES ASSUME Len(b) = 0 PROVE FALSE OBVIOUS
  <2>1. b = <<>> BY <1>1, EmptySeq
  <2>2. Left(Filled(0, <<>>, <<>>, <<>>), m, b) BY <1>1, LeftFrom
  <2>3. Filled(0, <<>>, <<>>, <<>>) = m BY <2>1, <2>2, NothingLeft
  <2>4. Filled(0, <<>>, <<>>, <<>>) = Empty BY DEF Filled, Empty
  <2> QED BY <2>3, <2>4 DEF Dumped
<1>4. z \in Seq(Nat) /\ Len(z) \in Nat \ {0} BY <1>2, VarintBytes
<1>5. Framed(m) = z \o b BY DEF Framed
<1>6. z \o b \in Seq(Nat) /\ Len(z \o b) = Len(z) + Len(b) BY <1>1, <1>4, Joined
<1> QED BY <1>1, <1>2, <1>3, <1>4, <1>5, <1>6

-----------------------------------------------------------------------------
\* What a call of load meets.

\* load is told the size of a message that is on the stream, and has all of it to read.
LEMMA BeginsMessage ==
  ASSUME NEW m, Dumped(m), NEW s \in Seq(Nat), NEW i \in Nat, At(s, i, Framed(m))
  PROVE  LET v == LoadVarint(s, i)
         IN /\ v.end = "ok" /\ v.next \in Nat /\ v.value \in Nat /\ Bytes(m) \in Seq(Nat)
            /\ Halfway(m, Bytes(m), s, v.next, v.value, 0, Empty, i + Len(Framed(m)))
<1> DEFINE b == Bytes(m)
           z == EncodeVarint(Len(b))
           v == LoadVarint(s, i)
<1>1. /\ b \in Seq(Nat) /\ Len(b) \in Nat \ {0} /\ Len(b) < WordMod
      /\ z \in Seq(Nat) /\ Len(z) \in Nat \ {0}
      /\ Framed(m) = z \o b /\ Len(Framed(m)) = Len(z) + Len(b)
  BY FramedBytes
<1>2. Left(Empty, m, b)
  <2>1. Left(Filled(0, <<>>, <<>>, <<>>), m, b) BY FromFacts, LeftFrom
  <2>2. Filled(0, <<>>, <<>>, <<>>) = Empty BY DEF Filled, Empty
  <2> QED BY <2>1, <2>2
<1>3. b = Bytes(m) OBVIOUS
<1> HIDE DEF b
<1>4. At(s, i, z) /\ At(s, i + Len(z), b)
  <2> HIDE DEF z
  <2> QED BY <1>1, AtJoined
<1>5. v = [end |-> "ok", next |-> i + Len(z), value |-> Len(b)]
  <2>1. Len(b) \in Nat BY <1>1
  <2> QED BY <1>1, <1>4, <2>1, VarintAt
<1> HIDE DEF z, v
<1>6. v.end = "ok" /\ v.next = i + Len(z) /\ v.value = Len(b) BY <1>5
<1>7. b # <<>> BY <1>1, EmptySeq
<1>8. 0 + Len(b) = v.value /\ v.value = Len(b) /\ v.next + Len(b) = i + Len(Framed(m))
      /\ v.next \in Nat /\ v.value \in Nat
  BY <1>1, <1>6
<1>9. At(s, v.next, b) BY <1>4, <1>6
<1>10. Halfway(m, b, s, v.next, v.value, 0, Empty, i + Len(Framed(m)))
  BY <1>2, <1>3, <1>7, <1>8, <1>9 DEF Halfway
<1> QED BY <1>1, <1>3, <1>6, <1>8, <1>10 DEF v

\* At a torn message, load fails or is told a size that the stream does not have.
LEMMA BeginsTorn ==
  ASSUME \A m \in Messages : Dumped(m), NEW s \in Seq(Nat), NEW i \in Nat,
         TornAt(s, i), i < Len(s)
  PROVE  LET v == LoadVarint(s, i)
         IN v.end = "ok" => 0 + (Len(s) - v.next) < v.value
<1> DEFINE v == LoadVarint(s, i)
<1>1. PICK m \in Messages, n \in Nat :
        /\ n < Len(Framed(m)) /\ Len(s) = i + n
        /\ \A j \in 1 .. n : s[i + j] = Framed(m)[j]
  BY DEF TornAt
<1> DEFINE b == Bytes(m)
           z == EncodeVarint(Len(b))
<1>2. /\ b \in Seq(Nat) /\ Len(b) \in Nat \ {0} /\ Len(b) < WordMod
      /\ z \in Seq(Nat) /\ Len(z) \in Nat \ {0}
      /\ Framed(m) = z \o b /\ Len(Framed(m)) = Len(z) + Len(b)
  BY FramedBytes
<1>3. \A j \in 1 .. Len(z) : Framed(m)[j] = z[j]
  <2> HIDE DEF b, z
  <2> QED BY <1>2, Joined
<1>4. \A j \in 1 .. Len(z) : j < Len(z) => z[j] >= Group
  <2>1. Len(b) \in Nat BY <1>2
  <2> HIDE DEF b
  <2> QED BY <2>1, VarintBytes
<1>5. CASE Len(z) <= n
  <2>1. At(s, i, z)
    <3> HIDE DEF b, z
    <3> QED BY <1>1, <1>2, <1>3, <1>5 DEF At
  <2>2. v = [end |-> "ok", next |-> i + Len(z), value |-> Len(b)]
    <3>1. Len(b) \in Nat BY <1>2
    <3> HIDE DEF b
    <3> QED BY <1>2, <2>1, <3>1, VarintAt
  <2> HIDE DEF b, z, v
  <2>3. v.next = i + Len(z) /\ v.value = Len(b) BY <2>2
  <2>4. 0 + (Len(s) - v.next) < v.value BY <1>1, <1>2, <1>5, <2>3
  <2> QED BY <2>4 DEF v
<1>6. CASE ~ (Len(z) <= n)
  <2> HIDE DEF b, z
  <2> DEFINE last == {k \in 1 .. MaxGroups : i + k <= Len(s) /\ s[i + k] < Group}
  <2>1. last = {}
    <3> SUFFICES ASSUME NEW k \in 1 .. MaxGroups, i + k <= Len(s), s[i + k] < Group
                 PROVE  FALSE
      OBVIOUS
    <3>1. MaxGroups \in Int BY MaxGroupsPositive
    <3>2. k \in 1 .. n /\ k \in 1 .. Len(z) /\ k < Len(z) /\ k \in Nat
      BY <1>1, <1>2, <1>6, <3>1
    <3>3. s[i + k] = z[k] /\ z[k] >= Group BY <1>1, <1>3, <1>4, <3>2
    <3>4. z[k] \in Nat BY <1>2, <3>2, ElementOfSeq
    <3> QED BY <3>3, <3>4, GroupFacts
  <2>2. v.end # "ok" BY <2>1 DEF LoadVarint
  <2> QED BY <2>2
<1> QED BY <1>5, <1>6

\* In the middle of a message, load takes a field of it and goes on, or has the message.
LEMMA GoesOn ==
  ASSUME NEW m, Dumped(m), NEW d, NEW rest \in Seq(Nat), NEW s \in Seq(Nat),
         NEW i \in Nat, NEW n, NEW count \in Nat, NEW e, Halfway(m, rest, s, i, n, count, d, e)
  PROVE  LET f == LoadField(s, i)
             c == count + (f.next - i)
         IN /\ f.end = "field" /\ f.number \in 1 .. 4 /\ ~ CutShort(f)
            /\ f.next \in 0 .. Len(s) /\ c \in Nat /\ n \in Nat /\ c <= n
            /\ c = n => Merged(d, f) = m /\ f.next = e
            /\ c # n => \E more \in Seq(Nat) :
                          Halfway(m, more, s, f.next, n, c, Merged(d, f), e)
<1> DEFINE f == LoadField(s, i)
           c == count + (f.next - i)
<1>1. /\ Left(d, m, rest) /\ rest # <<>> /\ At(s, i, rest)
      /\ count + Len(rest) = n /\ n = Len(Bytes(m)) /\ i + Len(rest) = e
  BY DEF Halfway
<1>2. Len(rest) \in Nat /\ Len(s) \in Nat OBVIOUS
<1>3. n < WordMod /\ WordMod \in Nat BY <1>1, ModulusFacts DEF Dumped
<1>4. Len(rest) < WordMod BY <1>1, <1>2, <1>3
<1>5. TakesField(s, i, d, m, rest) BY <1>1, <1>4, NextField
<1>6. i \in 0 .. Len(s) BY <1>1, <1>2 DEF At
<1>7. f.next \in i .. Len(s) BY <1>6, FieldNext
<1>8. /\ f.end = "field" /\ f.number \in 1 .. 4 /\ ~ CutShort(f)
      /\ \E more \in Seq(Nat) :
           /\ Left(Merged(d, f), m, more) /\ At(s, f.next, more)
           /\ i < f.next /\ f.next + Len(more) = i + Len(rest)
  BY <1>5 DEF TakesField
<1> HIDE DEF f
<1>9. PICK more \in Seq(Nat) :
        /\ Left(Merged(d, f), m, more) /\ At(s, f.next, more)
        /\ i < f.next /\ f.next + Len(more) = i + Len(rest)
  BY <1>8
<1>10. Len(more) \in Nat OBVIOUS
<1>11. f.next \in Nat /\ f.next \in 0 .. Len(s) BY <1>2, <1>6, <1>7
<1>12. /\ c + Len(more) = n /\ c \in Nat /\ n \in Nat /\ c <= n /\ f.next + Len(more) = e
  <2> DEFINE next == f.next
             left == Len(rest)
             ahead == Len(more)
  <2>1. n \in Nat /\ e \in Nat /\ n = count + left /\ e = i + left /\ left \in Nat
    BY <1>1, <1>2
  <2>2. /\ i < next /\ next + ahead = i + left /\ next \in Nat /\ ahead \in Nat
        /\ c = count + (next - i)
    BY <1>9, <1>10, <1>11
  <2> HIDE DEF next, left, ahead, c
  <2>3. c + ahead = n /\ c \in Nat /\ c <= n /\ next + ahead = e BY <2>1, <2>2
  <2> QED BY <2>1, <2>3 DEF next, ahead
<1> HIDE DEF c
<1>13. ASSUME c = n PROVE Merged(d, f) = m /\ f.next = e
  <2>1. Len(more) = 0 BY <1>10, <1>12, <1>13
  <2>2. more = <<>> BY <2>1, EmptySeq
  <2>3. Merged(d, f) = m BY <1>9, <2>2, NothingLeft
  <2>4. f.next = e BY <1>11, <1>12, <2>1
  <2> QED BY <2>3, <2>4
<1>14. ASSUME c # n PROVE Halfway(m, more, s, f.next, n, c, Merged(d, f), e)
  <2>1. Len(more) # 0 BY <1>10, <1>12, <1>14
  <2>2. more # <<>> BY <2>1, EmptySeq
  <2>3. n = Len(Bytes(m)) BY <1>1
  <2> QED BY <1>9, <1>12, <2>2, <2>3 DEF Halfway
<1> QED BY <1>8, <1>11, <1>12, <1>13, <1>14 DEF f, c

-----------------------------------------------------------------------------
\* The steps of the writer.

\* Where messages end.
LEMMA StartNat ==
  ASSUME StreamInv, NEW n \in 0 .. Len(sent)
  PROVE  Start(ends, n) \in Nat
<1>1. n = 0 \/ n \in 1 .. Len(ends) BY DEF StreamInv
<1>2. n \in 1 .. Len(ends) => ends[n] \in Nat BY ElementOfSeq DEF StreamInv
<1> QED BY <1>1, <1>2 DEF Start

\* A message that has been dumped in full.
LEMMA SentMessage ==
  ASSUME \A m \in Messages : Dumped(m), StreamInv, Len(loaded) < Len(sent), Len(loaded) \in Nat
  PROVE  LET m == sent[Len(loaded) + 1]
         IN /\ m \in Messages /\ Dumped(m) /\ At(stream, Start(ends, Len(loaded)), Framed(m))
            /\ Start(ends, Len(loaded) + 1) = Start(ends, Len(loaded)) + Len(Framed(m))
            /\ Start(ends, Len(loaded)) \in Nat /\ Start(ends, Len(loaded) + 1) \in Nat
<1> DEFINE k == Len(loaded) + 1
<1>1. sent \in Seq(Messages) /\ Len(sent) \in Nat BY DEF StreamInv
<1>2. /\ k \in 1 .. Len(sent) /\ k - 1 = Len(loaded)
      /\ k \in 0 .. Len(sent) /\ k - 1 \in 0 .. Len(sent)
  BY <1>1
<1> HIDE DEF k
<1>3. sent[k] \in Messages BY <1>1, <1>2, ElementOfSeq
<1>4. /\ Start(ends, k) = Start(ends, k - 1) + Len(Framed(sent[k]))
      /\ At(stream, Start(ends, k - 1), Framed(sent[k]))
  BY <1>2 DEF StreamInv
<1>5. Start(ends, k) \in Nat /\ Start(ends, k - 1) \in Nat BY <1>2, StartNat
<1> QED BY <1>2, <1>3, <1>4, <1>5 DEF k

\* What has been read is on the stream, also when more is written.
LEMMA HalfwayAppended ==
  ASSUME NEW m, NEW rest \in Seq(Nat), NEW s \in Seq(Nat), NEW more \in Seq(Nat),
         NEW i \in Nat, NEW n, NEW count, NEW d, NEW e, Halfway(m, rest, s, i, n, count, d, e)
  PROVE  Halfway(m, rest, s \o more, i, n, count, d, e)
<1>1. At(s, i, rest) BY DEF Halfway
<1>2. At(s \o more, i, rest) BY <1>1, AtAppended
<1> QED BY <1>2 DEF Halfway

\* Nothing has been written, loaded or read.
LEMMA InitInv == Init => IInv
<1> SUFFICES ASSUME Init PROVE IInv OBVIOUS
<1>1. /\ stream = <<>> /\ sent = <<>> /\ ends = <<>> /\ torn = FALSE
      /\ pos = 0 /\ reader = "idle" /\ size = 0 /\ read = 0 /\ loaded = <<>>
  BY DEF Init
<1>2. Len(stream) = 0 /\ Len(sent) = 0 /\ Len(ends) = 0 /\ Len(loaded) = 0 BY <1>1, EmptySeq
<1>3. /\ stream \in Seq(Nat) /\ sent \in Seq(Messages) /\ ends \in Seq(Nat)
      /\ loaded \in Seq(Messages)
  BY <1>1, EmptySeq
<1>4. Start(ends, 0) = 0 BY DEF Start
<1>5. StreamInv
  <2>1. \A n \in 1 .. Len(sent) : FALSE BY <1>2
  <2>2. Len(ends) = Len(sent) /\ torn \in BOOLEAN BY <1>1, <1>2
  <2> QED BY <1>3, <2>1, <2>2 DEF StreamInv
<1>6. TailInv BY <1>1, <1>2, <1>4 DEF TailInv
<1>7. ReaderInv BY <1>1, <1>2, <1>3, <1>4 DEF ReaderInv
<1>8. LoadingInv BY <1>1 DEF LoadingInv
<1> QED BY <1>5, <1>6, <1>7, <1>8 DEF IInv

\* What is written does not concern the reader: what was sent ends where it did.
LEMMA WriterKeepsReader ==
  ASSUME IInv, NEW more \in Seq(Nat), stream' = stream \o more, ~ torn, UNCHANGED readerVars,
         sent' \in Seq(Messages), Len(sent') >= Len(sent),
         \A n \in 1 .. Len(sent) : sent'[n] = sent[n],
         \A n \in 0 .. Len(sent) : Start(ends', n) = Start(ends, n)
  PROVE  ReaderInv' /\ LoadingInv'
<1>1. /\ pos' = pos /\ reader' = reader /\ size' = size /\ read' = read /\ msg' = msg
      /\ loaded' = loaded
  BY DEF readerVars
<1>2. /\ stream \in Seq(Nat) /\ sent \in Seq(Messages) /\ pos \in 0 .. Len(stream)
      /\ loaded \in Seq(Messages) /\ Len(loaded) <= Len(sent)
  BY DEF IInv, StreamInv, ReaderInv
<1>3. /\ Len(loaded) \in Nat /\ Len(sent) \in Nat /\ Len(sent') \in Nat /\ Len(stream) \in Nat
      /\ pos \in Nat
  BY <1>2
<1>4. Len(stream') = Len(stream) + Len(more) /\ Len(more) \in Nat BY <1>2, Joined
<1>5. ReaderInv'
  <2>1. pos' \in 0 .. Len(stream') /\ Len(loaded') <= Len(sent') BY <1>1, <1>2, <1>3, <1>4
  <2>2. \A n \in 1 .. Len(loaded') : loaded'[n] = sent'[n]
    <3> SUFFICES ASSUME NEW n \in 1 .. Len(loaded) PROVE loaded[n] = sent'[n] BY <1>1
    <3>1. n \in 1 .. Len(sent) BY <1>2, <1>3
    <3> QED BY <3>1 DEF IInv, ReaderInv
  <2>3. reader' = "idle" => pos' = Start(ends', Len(loaded'))
    <3> SUFFICES ASSUME reader = "idle" PROVE pos = Start(ends', Len(loaded')) BY <1>1
    <3>1. pos = Start(ends, Len(loaded)) BY DEF IInv, ReaderInv
    <3>2. Len(loaded) \in 0 .. Len(sent) BY <1>2, <1>3
    <3>3. Start(ends', Len(loaded')) = Start(ends, Len(loaded)) BY <1>1, <3>2
    <3> QED BY <3>1, <3>3
  <2> QED BY <1>1, <2>1, <2>2, <2>3 DEF IInv, ReaderInv
<1>6. LoadingInv'
  <2> SUFFICES ASSUME reader = "loading"
               PROVE  LoadingInv'
    BY <1>1 DEF LoadingInv
  <2>1. Len(loaded) < Len(sent) BY DEF IInv, LoadingInv
  <2> DEFINE k == Len(loaded) + 1
  <2>2. PICK rest \in Seq(Nat) :
          Halfway(sent[k], rest, stream, pos, size, read, msg, Start(ends, k))
    BY <2>1 DEF IInv, LoadingInv
  <2>3. Halfway(sent[k], rest, stream', pos, size, read, msg, Start(ends, k))
    BY <1>2, <1>3, <2>2, HalfwayAppended
  <2>4. k \in 1 .. Len(sent) /\ k \in 0 .. Len(sent) BY <1>3, <2>1
  <2>5. sent'[k] = sent[k] /\ Start(ends', k) = Start(ends, k) BY <2>4
  <2>6. Len(loaded') < Len(sent') BY <1>1, <1>3, <2>1
  <2>7. Halfway(sent'[k], rest, stream', pos', size', read', msg', Start(ends', k))
    BY <1>1, <2>3, <2>5
  <2> QED BY <1>1, <2>6, <2>7 DEF LoadingInv
<1> QED BY <1>5, <1>6

\* A message that is dumped is on the stream behind what was there.
LEMMA DumpInv ==
  ASSUME \A m \in Messages : Dumped(m), IInv, NEW m \in Messages, Dump(m)
  PROVE  IInv'
<1> DEFINE b == Framed(m)
           n == Len(sent)
<1>1. /\ ~ torn /\ stream' = stream \o b /\ sent' = Append(sent, m)
      /\ ends' = Append(ends, Len(stream')) /\ torn' = torn /\ UNCHANGED readerVars
  BY DEF Dump
<1>2. b \in Seq(Nat) /\ Len(b) \in Nat
  <2>1. Dumped(m) OBVIOUS
  <2> QED BY <2>1, FramedBytes
<1> HIDE DEF b
<1>3. /\ stream \in Seq(Nat) /\ sent \in Seq(Messages) /\ ends \in Seq(Nat) /\ Len(ends) = n
      /\ n \in Nat /\ Len(stream) = Start(ends, n)
  BY <1>1 DEF IInv, StreamInv, TailInv
<1>4. /\ stream' \in Seq(Nat) /\ Len(stream') = Len(stream) + Len(b) /\ Len(stream') \in Nat
      /\ Len(stream) \in Nat
  BY <1>1, <1>2, <1>3, Joined
<1>5. /\ sent' \in Seq(Messages) /\ Len(sent') = n + 1 /\ sent'[n + 1] = m
      /\ \A k \in 1 .. n : sent'[k] = sent[k]
  BY <1>1, <1>3, AppendProperties
<1>6. /\ ends' \in Seq(Nat) /\ Len(ends') = n + 1 /\ ends'[n + 1] = Len(stream')
      /\ \A k \in 1 .. n : ends'[k] = ends[k]
  BY <1>1, <1>3, <1>4, AppendProperties
<1> HIDE DEF n
<1>7. Start(ends', n + 1) = Len(stream') BY <1>3, <1>6 DEF Start
<1>8. ASSUME NEW k \in 0 .. n PROVE Start(ends', k) = Start(ends, k)
  <2>1. k = 0 \/ k \in 1 .. n BY <1>3
  <2> QED BY <1>6, <2>1 DEF Start
<1>9. StreamInv'
  <2>1. ASSUME NEW k \in 1 .. n + 1
        PROVE  /\ Start(ends', k) = Start(ends', k - 1) + Len(Framed(sent'[k]))
               /\ At(stream', Start(ends', k - 1), Framed(sent'[k]))
    <3>1. CASE k = n + 1
      <4>1. k - 1 = n /\ n \in 0 .. n BY <1>3, <3>1
      <4>2. Start(ends', k - 1) = Len(stream) BY <1>3, <1>8, <4>1
      <4>3. Framed(sent'[k]) = b BY <1>5, <3>1 DEF b
      <4>4. At(stream', Len(stream), b) BY <1>1, <1>2, <1>3, AtAppended
      <4> QED BY <1>4, <1>7, <3>1, <4>2, <4>3, <4>4
    <3>2. CASE k # n + 1
      <4>1. k \in 1 .. n /\ k \in 0 .. n /\ k - 1 \in 0 .. n BY <1>3, <3>2
      <4>2. /\ Start(ends, k) = Start(ends, k - 1) + Len(Framed(sent[k]))
            /\ At(stream, Start(ends, k - 1), Framed(sent[k]))
        BY <4>1 DEF IInv, StreamInv, n
      <4>3. Start(ends, k - 1) \in Nat
        BY <4>1, StartNat DEF IInv, n
      <4>4. Framed(sent[k]) \in Seq(Nat)
        <5>1. sent[k] \in Messages BY <1>3, <4>1, ElementOfSeq DEF n
        <5> QED BY <5>1, FramedBytes
      <4>5. At(stream', Start(ends, k - 1), Framed(sent[k]))
        BY <1>1, <1>2, <1>3, <4>2, <4>3, <4>4, AtAppended
      <4>6. sent'[k] = sent[k] BY <1>5, <4>1
      <4>7. Start(ends', k) = Start(ends, k) /\ Start(ends', k - 1) = Start(ends, k - 1)
        BY <1>8, <4>1
      <4> QED BY <4>2, <4>5, <4>6, <4>7
    <3> QED BY <3>1, <3>2
  <2>2. torn' \in BOOLEAN BY <1>1 DEF IInv, StreamInv
  <2> QED BY <1>4, <1>5, <1>6, <2>1, <2>2 DEF StreamInv
<1>10. TailInv'
  <2>1. ~ torn' /\ Len(stream') = Start(ends', Len(sent')) BY <1>1, <1>5, <1>7
  <2> QED BY <2>1 DEF TailInv
<1>11. ReaderInv' /\ LoadingInv'
  <2>1. Len(sent') >= Len(sent) /\ \A k \in 1 .. Len(sent) : sent'[k] = sent[k]
    BY <1>3, <1>5 DEF n
  <2>2. \A k \in 0 .. Len(sent) : Start(ends', k) = Start(ends, k) BY <1>8 DEF n
  <2> QED BY <1>1, <1>2, <1>5, <2>1, <2>2, WriterKeepsReader
<1> QED BY <1>9, <1>10, <1>11 DEF IInv

\* The beginning of a message that is written leaves a torn one on the stream.
LEMMA DumpTornInv ==
  ASSUME \A m \in Messages : Dumped(m), IInv, NEW m \in Messages,
         NEW n \in 0 .. Len(Framed(m)) - 1, DumpTorn(m, n)
  PROVE  IInv'
<1> DEFINE b == SubSeq(Framed(m), 1, n)
<1>1. /\ ~ torn /\ stream' = stream \o b /\ sent' = sent /\ ends' = ends /\ torn' = TRUE
      /\ UNCHANGED readerVars
  BY DEF DumpTorn
<1>2. Framed(m) \in Seq(Nat) /\ Len(Framed(m)) \in Nat
  <2>1. Dumped(m) OBVIOUS
  <2> QED BY <2>1, FramedBytes
<1>3. n \in Nat /\ n < Len(Framed(m)) BY <1>2
<1>4. b \in Seq(Nat) /\ Len(b) = n /\ \A j \in 1 .. n : b[j] = Framed(m)[j]
  <2> DEFINE w == Framed(m)
  <2>1. w \in Seq(Nat) /\ n < Len(w) /\ Len(w) \in Nat BY <1>2, <1>3
  <2>2. 0 + 1 = 1 /\ 0 + n = n /\ 0 \in Nat BY <1>3
  <2>3. b = SubSeq(w, 0 + 1, 0 + n) BY <2>2
  <2> HIDE DEF w, b
  <2>4. b \in Seq(Nat) /\ Len(b) = n /\ \A j \in 1 .. n : b[j] = w[0 + j]
    BY <1>3, <2>1, <2>2, <2>3, Slice
  <2>5. \A j \in 1 .. n : w[0 + j] = w[j] OBVIOUS
  <2> QED BY <2>4, <2>5 DEF w
<1> HIDE DEF b
<1>5. /\ stream \in Seq(Nat) /\ sent \in Seq(Messages) /\ Len(stream) = Start(ends, Len(sent))
      /\ Len(stream) \in Nat
  BY <1>1 DEF IInv, StreamInv, TailInv
<1>6. stream' \in Seq(Nat) /\ Len(stream') = Len(stream) + n BY <1>1, <1>4, <1>5, Joined
<1>7. StreamInv'
  <2>1. ASSUME NEW k \in 1 .. Len(sent)
        PROVE  /\ Start(ends, k) = Start(ends, k - 1) + Len(Framed(sent[k]))
               /\ At(stream', Start(ends, k - 1), Framed(sent[k]))
    <3>1. Len(sent) \in Nat BY <1>5
    <3>2. k - 1 \in 0 .. Len(sent) BY <3>1
    <3>3. /\ Start(ends, k) = Start(ends, k - 1) + Len(Framed(sent[k]))
          /\ At(stream, Start(ends, k - 1), Framed(sent[k]))
      BY DEF IInv, StreamInv
    <3>4. Start(ends, k - 1) \in Nat BY <3>2, StartNat DEF IInv
    <3>5. Framed(sent[k]) \in Seq(Nat)
      <4>1. sent[k] \in Messages BY <1>5, ElementOfSeq
      <4> QED BY <4>1, FramedBytes
    <3>6. At(stream', Start(ends, k - 1), Framed(sent[k]))
      BY <1>1, <1>4, <1>5, <3>3, <3>4, <3>5, AtAppended
    <3> QED BY <3>3, <3>6
  <2>2. ends \in Seq(Nat) /\ Len(ends) = Len(sent) BY DEF IInv, StreamInv
  <2> QED BY <1>1, <1>5, <1>6, <2>1, <2>2 DEF StreamInv
<1>8. TailInv'
  <2> DEFINE e == Start(ends, Len(sent))
  <2>1. At(stream', e, b) BY <1>1, <1>4, <1>5, AtAppended
  <2>2. Len(stream') = e + n /\ \A j \in 1 .. n : stream'[e + j] = b[j]
    BY <1>4, <1>5, <1>6, <2>1 DEF At
  <2> HIDE DEF e
  <2>3. \A j \in 1 .. n : stream'[e + j] = Framed(m)[j] BY <1>4, <2>2
  <2>4. TornAt(stream', e) BY <1>3, <2>2, <2>3 DEF TornAt
  <2>5. e = Start(ends', Len(sent')) BY <1>1 DEF e
  <2> QED BY <1>1, <2>4, <2>5 DEF TailInv
<1>9. ReaderInv' /\ LoadingInv'
  <2>1. Len(sent') >= Len(sent) /\ \A k \in 1 .. Len(sent) : sent'[k] = sent[k]
    BY <1>1, <1>5
  <2>2. \A k \in 0 .. Len(sent) : Start(ends', k) = Start(ends, k) BY <1>1
  <2> QED BY <1>1, <1>4, <1>5, <2>1, <2>2, WriterKeepsReader
<1> QED BY <1>7, <1>8, <1>9 DEF IInv

-----------------------------------------------------------------------------
\* The steps of the reader.

\* A call of load begins with the delimiter of the next message.
LEMMA BeginLoadInv ==
  ASSUME \A m \in Messages : Dumped(m), IInv, BeginLoad
  PROVE  IInv' /\ sent' = sent /\ loaded' = loaded
<1> DEFINE v == LoadVarint(stream, pos)
<1>1. /\ reader = "idle" /\ pos < Len(stream) /\ pos' = v.next
      /\ stream' = stream /\ sent' = sent /\ ends' = ends /\ torn' = torn /\ loaded' = loaded
      /\ v.end = "ok" => /\ reader' = "loading" /\ size' = v.value /\ read' = 0
                         /\ msg' = Empty
      /\ v.end # "ok" => reader' = "raised" /\ size' = size /\ read' = read
  BY DEF BeginLoad, streamVars
<1>2. /\ stream \in Seq(Nat) /\ pos \in 0 .. Len(stream) /\ pos = Start(ends, Len(loaded))
      /\ Len(loaded) \in Nat /\ Len(loaded) <= Len(sent) /\ Len(sent) \in Nat
      /\ size \in Nat /\ read \in Nat /\ Len(stream) \in Nat
  BY <1>1 DEF IInv, StreamInv, ReaderInv
<1>3. v.next \in pos .. Len(stream) /\ v.value \in Nat BY <1>2, VarintNext
<1>4. StreamInv' /\ TailInv' BY <1>1 DEF IInv, StreamInv, TailInv
<1>5. ReaderInv'
  <2>1. pos' \in 0 .. Len(stream') BY <1>1, <1>2, <1>3
  <2>2. reader' # "idle" /\ size' \in Nat /\ read' \in Nat BY <1>1, <1>2, <1>3
  <2>3. /\ loaded' \in Seq(Messages) /\ Len(loaded') <= Len(sent')
        /\ \A n \in 1 .. Len(loaded') : loaded'[n] = sent'[n]
    BY <1>1 DEF IInv, ReaderInv
  <2> QED BY <2>1, <2>2, <2>3 DEF ReaderInv
<1>6. LoadingInv'
  <2> SUFFICES ASSUME reader' = "loading" PROVE LoadingInv' BY DEF LoadingInv
  <2>1. v.end = "ok" /\ size' = v.value /\ read' = 0 /\ msg' = Empty BY <1>1
  <2>2. CASE Len(loaded) < Len(sent)
    <3> DEFINE m == sent[Len(loaded) + 1]
               b == Bytes(m)
               e == Start(ends, Len(loaded) + 1)
    <3>1. /\ Dumped(m) /\ At(stream, pos, Framed(m)) /\ e = pos + Len(Framed(m))
      BY <1>2, <2>2, SentMessage DEF IInv
    <3>2. b = Bytes(m) OBVIOUS
    <3> HIDE DEF b, e
    <3>3. b \in Seq(Nat) /\ Halfway(m, b, stream, v.next, v.value, 0, Empty, e)
      <4> HIDE DEF m
      <4>1. pos \in Nat BY <1>2
      <4> QED BY <1>2, <3>1, <3>2, <4>1, BeginsMessage
    <3>4. Halfway(m, b, stream', pos', size', read', msg', e)
      <4> HIDE DEF v, m
      <4> QED BY <1>1, <2>1, <3>3
    <3>5. m = sent'[Len(loaded') + 1] /\ e = Start(ends', Len(loaded') + 1)
      BY <1>1 DEF e
    <3>6. Len(loaded') < Len(sent') BY <1>1, <2>2
    <3> HIDE DEF m
    <3> QED BY <3>3, <3>4, <3>5, <3>6 DEF LoadingInv
  <2>3. CASE ~ (Len(loaded) < Len(sent))
    <3>1. Len(loaded) = Len(sent) BY <1>2, <2>3
    <3>2. torn /\ TornAt(stream, pos)
      <4>1. Len(stream) # Start(ends, Len(sent)) BY <1>1, <1>2, <3>1
      <4>2. torn BY <4>1 DEF IInv, TailInv, StreamInv
      <4> QED BY <1>2, <3>1, <4>2 DEF IInv, TailInv
    <3>3. 0 + (Len(stream) - v.next) < v.value
      <4>1. pos \in Nat BY <1>2
      <4> QED BY <1>1, <1>2, <2>1, <3>2, <4>1, BeginsTorn
    <3>4. read' + (Len(stream') - pos') < size'
      <4> HIDE DEF v
      <4> QED BY <1>1, <2>1, <3>3
    <3>5. torn' /\ ~ (Len(loaded') < Len(sent')) BY <1>1, <2>3, <3>2
    <3> QED BY <3>4, <3>5 DEF LoadingInv
  <2> QED BY <2>2, <2>3
<1> QED BY <1>1, <1>4, <1>5, <1>6 DEF IInv

\* What a turn of load's loop does with a field.
LEMMA LoadsField ==
  ASSUME LoadOneField
  PROVE  LET f == LoadField(stream, pos)
             c == read + (f.next - pos)
         IN /\ reader = "loading" /\ pos' = f.next /\ size' = size
            /\ stream' = stream /\ sent' = sent /\ ends' = ends /\ torn' = torn
            /\ \/ f.end = "none" /\ NoMoreFields
               \/ f.end \in {"eof", "long"} /\ FieldBroken
               \/ f.end = "field" /\ f.number \notin Known /\ FieldUnknown(f)
               \/ f.end = "field" /\ f.number \in Known /\ CutShort(f) /\ FieldBroken
               \/ f.end = "field" /\ f.number \in Known /\ ~ CutShort(f) /\ FieldKnown(f, c)
<1> DEFINE f == LoadField(stream, pos)
<1>1. /\ reader = "loading" /\ pos' = f.next /\ size' = size
      /\ stream' = stream /\ sent' = sent /\ ends' = ends /\ torn' = torn
      /\ \/ f.end = "none" /\ NoMoreFields
         \/ f.end \in {"eof", "long"} /\ FieldBroken
         \/ f.end = "field" /\ f.number \notin Known /\ FieldUnknown(f)
         \/ f.end = "field" /\ f.number \in Known
              /\ IF CutShort(f) THEN FieldBroken ELSE FieldKnown(f, read + Counted(f))
  <2> HIDE DEF f
  <2>1. \E g \in {LoadField(stream, pos)} :
          /\ pos' = g.next
          /\ \/ g.end = "none" /\ NoMoreFields
             \/ g.end \in {"eof", "long"} /\ FieldBroken
             \/ g.end = "field" /\ g.number \notin Known /\ FieldUnknown(g)
             \/ g.end = "field" /\ g.number \in Known
                  /\ IF CutShort(g) THEN FieldBroken ELSE FieldKnown(g, read + Counted(g))
    BY DEF LoadOneField
  <2>2. /\ reader = "loading" /\ size' = size
        /\ stream' = stream /\ sent' = sent /\ ends' = ends /\ torn' = torn
    BY DEF LoadOneField, streamVars
  <2> QED BY <2>1, <2>2 DEF f
<1>2. Counted(f) = f.next - pos BY DEF Counted
<1> HIDE DEF f
<1> QED BY <1>1, <1>2 DEF f

\* What the reader has loaded stays as it is while it reads on.
ReadsOn ==
  /\ pos' \in 0 .. Len(stream') /\ size' \in Nat /\ read' \in Nat
  /\ stream' = stream /\ sent' = sent /\ ends' = ends /\ torn' = torn

\* A step of the reader which does not return a message.
LEMMA NothingReturned ==
  ASSUME IInv, ReadsOn, loaded' = loaded, reader' # "idle", LoadingInv'
  PROVE  IInv'
<1>1. stream' = stream /\ sent' = sent /\ ends' = ends /\ torn' = torn BY DEF ReadsOn
<1>2. StreamInv' /\ TailInv' BY <1>1 DEF IInv, StreamInv, TailInv
<1>3. /\ loaded' \in Seq(Messages) /\ Len(loaded') <= Len(sent')
      /\ \A n \in 1 .. Len(loaded') : loaded'[n] = sent'[n]
  BY <1>1 DEF IInv, ReaderInv
<1>4. ReaderInv' BY <1>3 DEF ReaderInv, ReadsOn
<1> QED BY <1>2, <1>4 DEF IInv

\* A step of the reader which returns the next message.
LEMMA NextReturned ==
  ASSUME IInv, ReadsOn, Len(loaded) < Len(sent), reader' = "idle",
         loaded' = Append(loaded, sent[Len(loaded) + 1]), pos' = Start(ends, Len(loaded) + 1)
  PROVE  IInv'
<1> DEFINE k == Len(loaded) + 1
<1>1. stream' = stream /\ sent' = sent /\ ends' = ends /\ torn' = torn BY DEF ReadsOn
<1>2. StreamInv' /\ TailInv' BY <1>1 DEF IInv, StreamInv, TailInv
<1>3. loaded \in Seq(Messages) /\ sent \in Seq(Messages) BY DEF IInv, ReaderInv, StreamInv
<1>4. Len(loaded) \in Nat /\ Len(sent) \in Nat BY <1>3
<1>5. k \in 1 .. Len(sent) /\ k \in Nat /\ k - 1 = Len(loaded) BY <1>4
<1>6. sent[k] \in Messages BY <1>3, <1>5, ElementOfSeq
<1>7. /\ loaded' \in Seq(Messages) /\ Len(loaded') = k /\ loaded'[k] = sent[k]
      /\ \A n \in 1 .. Len(loaded) : loaded'[n] = loaded[n]
  BY <1>3, <1>6, AppendProperties
<1> HIDE DEF k
<1>8. \A n \in 1 .. Len(loaded') : loaded'[n] = sent'[n]
  <2> SUFFICES ASSUME NEW n \in 1 .. k PROVE loaded'[n] = sent[n] BY <1>1, <1>7
  <2>1. CASE n = k BY <1>7, <2>1
  <2>2. CASE n # k
    <3>1. n \in 1 .. Len(loaded) BY <1>4, <1>5, <2>2
    <3>2. loaded[n] = sent[n] BY <3>1 DEF IInv, ReaderInv
    <3> QED BY <1>7, <3>1, <3>2
  <2> QED BY <2>1, <2>2
<1>9. Len(loaded') <= Len(sent') BY <1>1, <1>4, <1>5, <1>7
<1>10. pos' = Start(ends', Len(loaded')) BY <1>1, <1>7 DEF k
<1>11. ReaderInv' BY <1>7, <1>8, <1>9, <1>10 DEF ReaderInv, ReadsOn
<1>12. LoadingInv' BY DEF LoadingInv
<1> QED BY <1>2, <1>11, <1>12 DEF IInv

\* A turn of the loop in a message that is on the stream.
LEMMA TurnInMessage ==
  ASSUME \A m \in Messages : Dumped(m), Known = 1 .. 4, IInv, LoadOneField,
         Len(loaded) < Len(sent)
  PROVE  IInv' /\ (loaded' = loaded \/ loaded' = Append(loaded, sent[Len(loaded) + 1]))
<1> DEFINE f == LoadField(stream, pos)
           c == read + (f.next - pos)
           m == sent[Len(loaded) + 1]
           e == Start(ends, Len(loaded) + 1)
<1>1. /\ stream \in Seq(Nat) /\ pos \in Nat /\ read \in Nat /\ size \in Nat
      /\ Len(loaded) \in Nat /\ Len(stream) \in Nat
  BY DEF IInv, StreamInv, ReaderInv
<1>2. Dumped(m) BY <1>1, SentMessage DEF IInv
<1>3. /\ reader = "loading" /\ pos' = f.next /\ size' = size
      /\ stream' = stream /\ sent' = sent /\ ends' = ends /\ torn' = torn
      /\ \/ f.end = "none" /\ NoMoreFields
         \/ f.end \in {"eof", "long"} /\ FieldBroken
         \/ f.end = "field" /\ f.number \notin Known /\ FieldUnknown(f)
         \/ f.end = "field" /\ f.number \in Known /\ CutShort(f) /\ FieldBroken
         \/ f.end = "field" /\ f.number \in Known /\ ~ CutShort(f) /\ FieldKnown(f, c)
  BY LoadsField
<1>4. PICK rest \in Seq(Nat) : Halfway(m, rest, stream, pos, size, read, msg, e)
  BY <1>3 DEF IInv, LoadingInv
<1>5. /\ f.end = "field" /\ f.number \in 1 .. 4 /\ ~ CutShort(f)
      /\ f.next \in 0 .. Len(stream) /\ c \in Nat /\ c <= size
      /\ c = size => Merged(msg, f) = m /\ f.next = e
      /\ c # size => \E more \in Seq(Nat) :
                       Halfway(m, more, stream, f.next, size, c, Merged(msg, f), e)
  <2> HIDE DEF m, e
  <2> QED BY <1>1, <1>2, <1>4, GoesOn
<1> HIDE DEF f, c, m, e
<1>6. FieldKnown(f, c)
  <2>1. f.end # "none" /\ f.end \notin {"eof", "long"} /\ f.number \in Known BY <1>5
  <2> QED BY <1>3, <1>5, <2>1
<1>7. /\ msg' = Merged(msg, f) /\ read' = c
      /\ c = size => reader' = "idle" /\ loaded' = Append(loaded, Merged(msg, f))
      /\ c # size => reader' = reader /\ loaded' = loaded
  <2>1. ~ (c > size) BY <1>1, <1>5
  <2> QED BY <1>6, <2>1 DEF FieldKnown, ExactSize, Return
<1>8. ReadsOn BY <1>1, <1>3, <1>5, <1>7 DEF ReadsOn
<1>9. CASE c = size
  <2>1. reader' = "idle" /\ loaded' = Append(loaded, m) /\ pos' = e
    BY <1>3, <1>5, <1>7, <1>9
  <2>2. IInv' BY <1>8, <2>1, NextReturned DEF m, e
  <2> QED BY <2>1, <2>2 DEF m
<1>10. CASE c # size
  <2>1. reader' = "loading" /\ loaded' = loaded BY <1>3, <1>7, <1>10
  <2>2. PICK more \in Seq(Nat) :
          Halfway(m, more, stream, f.next, size, c, Merged(msg, f), e)
    BY <1>5, <1>10
  <2>3. Halfway(m, more, stream', pos', size', read', msg', e) BY <1>3, <1>7, <2>2
  <2>4. m = sent'[Len(loaded') + 1] /\ e = Start(ends', Len(loaded') + 1)
    BY <1>3, <2>1 DEF m, e
  <2>5. Len(loaded') < Len(sent') BY <1>3, <2>1
  <2>6. LoadingInv' BY <2>3, <2>4, <2>5 DEF LoadingInv
  <2>7. IInv' BY <1>8, <2>1, <2>6, NothingReturned
  <2> QED BY <2>1, <2>7
<1> QED BY <1>9, <1>10

\* A turn of the loop in a torn message.
LEMMA TurnInTorn ==
  ASSUME IInv, LoadOneField, ~ (Len(loaded) < Len(sent))
  PROVE  IInv' /\ loaded' = loaded
<1> DEFINE f == LoadField(stream, pos)
           c == read + (f.next - pos)
<1>1. /\ stream \in Seq(Nat) /\ pos \in 0 .. Len(stream) /\ pos \in Nat
      /\ read \in Nat /\ size \in Nat /\ Len(stream) \in Nat
  BY DEF IInv, StreamInv, ReaderInv
<1>2. /\ reader = "loading" /\ pos' = f.next /\ size' = size
      /\ stream' = stream /\ sent' = sent /\ ends' = ends /\ torn' = torn
      /\ \/ f.end = "none" /\ NoMoreFields
         \/ f.end \in {"eof", "long"} /\ FieldBroken
         \/ f.end = "field" /\ f.number \notin Known /\ FieldUnknown(f)
         \/ f.end = "field" /\ f.number \in Known /\ CutShort(f) /\ FieldBroken
         \/ f.end = "field" /\ f.number \in Known /\ ~ CutShort(f) /\ FieldKnown(f, c)
  BY LoadsField
<1>3. torn /\ read + (Len(stream) - pos) < size BY <1>2 DEF IInv, LoadingInv
<1>4. f.next \in pos .. Len(stream) BY <1>1, FieldNext
<1> DEFINE next == f.next
<1>5. /\ next \in 0 .. Len(stream) /\ c \in Nat /\ c < size /\ ~ (c > size) /\ read < size
      /\ c + (Len(stream) - next) < size /\ read + (Len(stream) - next) < size
  <2>1. next \in pos .. Len(stream) /\ c = read + (next - pos) BY <1>4
  <2> HIDE DEF next, c
  <2> QED BY <1>1, <1>3, <2>1
<1>6. pos' = next BY <1>2
<1> HIDE DEF f, c, next
<1>7. /\ loaded' = loaded
      /\ \/ reader' = "raised" /\ read' \in {read, c}
         \/ reader' = "loading" /\ read' \in {read, c}
  <2>1. CASE NoMoreFields BY <1>5, <2>1 DEF NoMoreFields, TooShort, Raise
  <2>2. CASE FieldBroken BY <2>2 DEF FieldBroken, Raise
  <2>3. CASE FieldUnknown(f) BY <1>2, <2>3 DEF FieldUnknown
  <2>4. CASE FieldKnown(f, c) BY <1>2, <1>5, <2>4 DEF FieldKnown, ExactSize
  <2> QED BY <1>2, <2>1, <2>2, <2>3, <2>4
<1>8. ReadsOn BY <1>1, <1>2, <1>5, <1>6, <1>7 DEF ReadsOn
<1>9. LoadingInv'
  <2>1. read' + (Len(stream') - pos') < size' BY <1>2, <1>5, <1>6, <1>7
  <2>2. torn' /\ ~ (Len(loaded') < Len(sent')) BY <1>2, <1>3, <1>7
  <2> QED BY <2>1, <2>2 DEF LoadingInv
<1>10. reader' # "idle" BY <1>7
<1> QED BY <1>7, <1>8, <1>9, <1>10, NothingReturned

\* The inductive invariant, and what a step does with the messages: one is sent, the next
\* one is loaded, or nothing happens to them.
LEMMA NextInv ==
  ASSUME Agreed, IInv, [Next]_vars
  PROVE  IInv' /\ [Channel!Send \/ Channel!Receive]_(Channel!channelVars)
<1>1. \A m \in Messages : Dumped(m) BY AgreedMessages
<1>2. Known = 1 .. 4 BY DEF Agreed
<1>3. ASSUME NEW m \in Messages, Dump(m) PROVE IInv' /\ Channel!Send
  <2>1. IInv' BY <1>1, <1>3, DumpInv
  <2>2. sent' = Append(sent, m) /\ loaded' = loaded BY <1>3 DEF Dump, readerVars
  <2> QED BY <2>1, <2>2 DEF Channel!Send
<1>4. ASSUME NEW m \in Messages, NEW n \in 0 .. Len(Framed(m)) - 1, DumpTorn(m, n)
      PROVE  IInv' /\ sent' = sent /\ loaded' = loaded
  <2>1. IInv' BY <1>1, <1>4, DumpTornInv
  <2> QED BY <1>4, <2>1 DEF DumpTorn, readerVars
<1>5. ASSUME BeginLoad PROVE IInv' /\ sent' = sent /\ loaded' = loaded
  BY <1>1, <1>5, BeginLoadInv
<1>6. ASSUME LoadOneField
      PROVE  /\ IInv' /\ sent' = sent
             /\ loaded' = loaded \/ Channel!Receive
  <2>1. sent' = sent BY <1>6 DEF LoadOneField, streamVars
  <2>2. CASE Len(loaded) < Len(sent)
    <3>1. /\ IInv'
          /\ loaded' = loaded \/ loaded' = Append(loaded, sent[Len(loaded) + 1])
      BY <1>1, <1>2, <1>6, <2>2, TurnInMessage
    <3> QED BY <2>1, <2>2, <3>1 DEF Channel!Receive
  <2>3. CASE ~ (Len(loaded) < Len(sent))
    <3>1. IInv' /\ loaded' = loaded BY <1>6, <2>3, TurnInTorn
    <3> QED BY <2>1, <3>1
  <2> QED BY <2>2, <2>3
<1>7. ASSUME UNCHANGED vars PROVE IInv' /\ sent' = sent /\ loaded' = loaded
  <2>1. /\ stream' = stream /\ sent' = sent /\ ends' = ends /\ torn' = torn /\ pos' = pos
        /\ reader' = reader /\ size' = size /\ read' = read /\ msg' = msg /\ loaded' = loaded
    BY <1>7 DEF vars, streamVars, readerVars
  <2> QED BY <2>1 DEF IInv, StreamInv, TailInv, ReaderInv, LoadingInv
<1> QED BY <1>3, <1>4, <1>5, <1>6, <1>7 DEF Next, Channel!channelVars

\* Message.load leaves the reader between two messages (lines 921-924 and 980-1004), when
\* the reader's class has every field that is written and no message is empty: whatever the
\* messages, however many they are, and wherever a writer dies.
THEOREM StreamFramed == ASSUME Agreed PROVE Spec => []Framing
<1>1. Init => IInv BY InitInv
<1>2. IInv /\ [Next]_vars => IInv' BY NextInv
<1>3. IInv => Framing
  <2> SUFFICES ASSUME IInv, reader = "idle"
               PROVE  /\ Len(loaded) <= Len(ends)
                      /\ pos = IF loaded = <<>> THEN 0 ELSE ends[Len(loaded)]
    BY DEF Framing
  <2>1. /\ Len(loaded) <= Len(ends) /\ pos = Start(ends, Len(loaded))
        /\ loaded \in Seq(Messages)
    BY DEF IInv, StreamInv, ReaderInv
  <2>2. Len(loaded) = 0 <=> loaded = <<>> BY <2>1, EmptySeq
  <2> QED BY <2>1, <2>2 DEF Start
<1> QED BY <1>1, <1>2, <1>3, PTL DEF Spec

\* dump and load are a channel of messages: every step of the stream sends one, or loads the
\* one that is next, whole and unchanged, or does neither; what is left of a message whose
\* writer died is never loaded.
THEOREM StreamIsChannel ==
  ASSUME Agreed
  PROVE  Spec => Channel!ChannelInit /\ [][Channel!Send \/ Channel!Receive]_(Channel!channelVars)
<1>1. Init => IInv BY InitInv
<1>2. IInv /\ [Next]_vars
        => IInv' /\ [Channel!Send \/ Channel!Receive]_(Channel!channelVars)
  BY NextInv
<1>3. Init => Channel!ChannelInit BY DEF Init, Channel!ChannelInit
<1> QED BY <1>1, <1>2, <1>3, PTL DEF Spec
=============================================================================
