-------------------------- MODULE TimeRelayProofs --------------------------
(***************************************************************************)
(* TimestampExact and DurationKept of TimeRelay, for every even Base, in   *)
(* particular 1000, every instant, every time zone, every duration that is *)
(* not negative and every error of floats that the module assumes.         *)
(***************************************************************************)
EXTENDS TimeRelay, TLAPS

-----------------------------------------------------------------------------
\* Arithmetic.

LEMMA Units == /\ Base \in Nat /\ Base > 0
               /\ Micros \in Nat /\ Micros > 0
               /\ Second \in Nat /\ Second > 0 /\ Second = Base * Micros
<1>1. Base \in Nat /\ Base > 0 BY BaseAssumption
<1>2. Micros \in Nat /\ Micros > 0 BY <1>1 DEF Micros
<1>3. Base * Micros \in Nat /\ Base * Micros > 0 BY <1>1, <1>2
<1> QED BY <1>1, <1>2, <1>3 DEF Second

LEMMA DivisionRemainder ==
  ASSUME NEW a \in Int, NEW b \in Nat, b > 0
  PROVE  /\ a \div b \in Int /\ a % b \in 0 .. b - 1
         /\ a = b * (a \div b) + (a % b)
OBVIOUS

\* Two multiples of b that differ by less than b are the same one.
LEMMA DivisionUnique ==
  ASSUME NEW b \in Nat, b > 0, NEW q \in Int, NEW r \in 0 .. b - 1
  PROVE  (b * q + r) \div b = q /\ (b * q + r) % b = r
OBVIOUS

-----------------------------------------------------------------------------
\* A field is held in one of the forms, with the time that was sent, or what is left of it
\* when the datetime has been rebuilt.
Instant == IF rebuilt THEN sent - (sent % Base) ELSE sent

Python(l, z, r) ==
  /\ form = NanoDatetime(l, z * Micros, r)
  /\ (l - z * Micros) * Base + r = Instant

InBytes(s, n) == form = SecondsNanos(s, n) /\ s * Second + n = Instant

Json(l, z, n) ==
  form = TimestampText(l, z, FractionText(n)) /\ (l - z) * Second + n = Instant

TimestampInv ==
  kind = "timestamp" =>
    /\ sent \in Int
    /\ place \in {"python", "bytes", "json"}
    /\ place = "python" => \E l \in Int, z \in Int, r \in 0 .. Base - 1 : Python(l, z, r)
    /\ place = "bytes"  => \E s \in Int, n \in 0 .. Second - 1 : InBytes(s, n)
    /\ place = "json"   => \E l \in Int, z \in Int, n \in 0 .. Second - 1 : Json(l, z, n)

\* The digits of a fraction are read as they were written.
LEMMA FractionKept ==
  ASSUME NEW n \in 0 .. Second - 1
  PROVE  FractionNanos(FractionText(n)) = n
<1>1. CASE n = 0
  <2>0. n % Micros = 0 BY <1>1, Units
  <2>1. FractionText(n) = [groups |-> 0, number |-> 0] BY <1>1, <2>0 DEF FractionText
  <2> QED BY <1>1, <2>1, Units DEF FractionNanos
<1>2. CASE n # 0 /\ n % Micros = 0
  <2>1. FractionText(n) = [groups |-> 1, number |-> n \div Micros] BY <1>2 DEF FractionText
  <2>2. n = Micros * (n \div Micros) /\ n \div Micros \in Int
    BY <1>2, Units, DivisionRemainder
  <2>3. FractionNanos(FractionText(n)) = (n \div Micros) * Micros BY <2>1 DEF FractionNanos
  <2> QED BY <2>2, <2>3, Units
<1>3. CASE n % Micros # 0 /\ n % Base = 0
  <2>1. n # 0 BY <1>3, Units
  <2>2. FractionText(n) = [groups |-> 2, number |-> n \div Base]
    BY <1>3, <2>1 DEF FractionText
  <2>3. n = Base * (n \div Base) /\ n \div Base \in Int
    BY <1>3, Units, DivisionRemainder
  <2>4. FractionNanos(FractionText(n)) = (n \div Base) * Base BY <2>2 DEF FractionNanos
  <2> QED BY <2>3, <2>4, Units
<1>4. CASE n % Micros # 0 /\ n % Base # 0
  <2>1. n # 0 BY <1>4, Units
  <2>2. FractionText(n) = [groups |-> 3, number |-> n]
    BY <1>4, <2>1 DEF FractionText
  <2> QED BY <2>2 DEF FractionNanos
<1> QED BY <1>1, <1>2, <1>3, <1>4

\* A datetime is split into seconds and nanoseconds without loss, before 1970 and in
\* every time zone.
LEMMA SecondsOfDatetime ==
  ASSUME NEW l \in Int, NEW z \in Int, NEW r \in 0 .. Base - 1
  PROVE  \E s \in Int, n \in 0 .. Second - 1 :
           /\ ToTimestamp(NanoDatetime(l, z * Micros, r)) = SecondsNanos(s, n)
           /\ s * Second + n = (l - z * Micros) * Base + r
<1> DEFINE u == l - z * Micros
           s == u \div Micros
           m == u % Micros
           n == m * Base + r
<1>1. z * Micros \in Int /\ u \in Int BY Units
<1>2. s \in Int /\ m \in 0 .. Micros - 1 /\ u = Micros * s + m
  BY <1>1, Units, DivisionRemainder
<1>3. l % Micros = m
  <2>1. l = Micros * (s + z) + m
    <3>1. Micros * (s + z) = Micros * s + Micros * z BY <1>2, Units
    <3>2. z * Micros = Micros * z BY Units
    <3> QED BY <1>1, <1>2, <3>1, <3>2, Units
  <2>2. s + z \in Int BY <1>2
  <2>3. (Micros * (s + z) + m) % Micros = m BY <1>2, <2>2, Units, DivisionUnique
  <2> QED BY <2>1, <2>3
<1>4. ToTimestamp(NanoDatetime(l, z * Micros, r)) = SecondsNanos(s, n)
  BY <1>3 DEF ToTimestamp, TotalNanoseconds, NanoDatetime
<1>5. n \in 0 .. Second - 1
  <2>1. m * Base \in Int /\ 0 <= m * Base BY <1>2, Units
  <2>2. m * Base <= (Micros - 1) * Base BY <1>2, Units
  <2>3. (Micros - 1) * Base = Second - Base BY Units
  <2> QED BY <2>1, <2>2, <2>3, Units
<1>6. s * Second + n = u * Base + r
  <2>1. s * Second = (Micros * s) * Base BY <1>2, Units
  <2>2. (Micros * s) * Base + m * Base = (Micros * s + m) * Base BY <1>2, Units
  <2>3. s * Second \in Int /\ m * Base \in Int BY <1>2, Units
  <2> QED BY <1>2, <2>1, <2>2, <2>3
<1> QED BY <1>2, <1>4, <1>5, <1>6

\* Seconds and nanoseconds make a datetime without loss.
LEMMA DatetimeOfSeconds ==
  ASSUME NEW s \in Int, NEW n \in 0 .. Second - 1
  PROVE  \E l \in Int, r \in 0 .. Base - 1 :
           /\ NanoDatetime(s * Micros + n \div Base, 0, n % Base)
                = NanoDatetime(l, 0 * Micros, r)
           /\ (l - 0 * Micros) * Base + r = s * Second + n
<1> DEFINE q == n \div Base
           r == n % Base
           l == s * Micros + q
<1>1. q \in Int /\ r \in 0 .. Base - 1 /\ n = Base * q + r BY Units, DivisionRemainder
<1>2. s * Micros \in Int /\ l \in Int BY <1>1, Units
<1>3. 0 * Micros = 0 BY Units
<1>4. l * Base + r = s * Second + n
  <2>1. l * Base = (s * Micros) * Base + q * Base BY <1>1, <1>2, Units
  <2>2. (s * Micros) * Base = s * Second BY Units
  <2>3. q * Base = Base * q /\ q * Base \in Int /\ s * Second \in Int BY <1>1, Units
  <2> QED BY <1>1, <2>1, <2>2, <2>3
<1>5. (l - 0 * Micros) * Base + r = s * Second + n BY <1>2, <1>3, <1>4
<1> QED BY <1>1, <1>2, <1>3, <1>5

-----------------------------------------------------------------------------
\* The conversions keep what is held, and what is written is well-formed.

LEMMA InitTimestamp == Init => TimestampInv
<1> SUFFICES ASSUME Init, kind = "timestamp" PROVE TimestampInv BY DEF TimestampInv
<1>1. sent \in Int /\ SetTimestamp(sent) /\ Instant = sent BY TimesAssumption DEF Init, Instant
<1>2. ASSUME NEW z \in Offsets,
             form = NanoDatetime(sent \div Base + z * Micros, z * Micros, sent % Base),
             place = "python"
      PROVE  TimestampInv
  <2> DEFINE q == sent \div Base
             l == q + z * Micros
  <2>1. q \in Int /\ sent % Base \in 0 .. Base - 1 /\ sent = Base * q + (sent % Base)
    BY <1>1, Units, DivisionRemainder
  <2>2. z \in Int /\ z * Micros \in Int BY TimesAssumption, Units
  <2>3. l \in Int /\ l - z * Micros = q BY <2>1, <2>2
  <2>4. (l - z * Micros) * Base + (sent % Base) = sent BY <2>1, <2>3, Units
  <2>5. Python(l, z, sent % Base) BY <1>1, <1>2, <2>4 DEF Python
  <2> QED BY <1>1, <1>2, <2>1, <2>2, <2>3, <2>5 DEF TimestampInv
<1>3. /\ sent \div Second \in Int /\ sent % Second \in 0 .. Second - 1
      /\ sent = Second * (sent \div Second) + (sent % Second)
  BY <1>1, Units, DivisionRemainder
<1>4. CASE form = SecondsNanos(sent \div Second, sent % Second) /\ place = "bytes"
  <2>1. InBytes(sent \div Second, sent % Second) BY <1>1, <1>3, <1>4, Units DEF InBytes
  <2> QED BY <1>1, <1>3, <1>4, <2>1 DEF TimestampInv
<1>5. ASSUME NEW z \in Offsets, place = "json",
             form = TimestampText(sent \div Second + z, z, FractionText(sent % Second))
      PROVE  TimestampInv
  <2> DEFINE l == sent \div Second + z
  <2>1. z \in Int /\ l \in Int /\ l - z = sent \div Second BY <1>3, TimesAssumption
  <2>2. (l - z) * Second + (sent % Second) = sent BY <1>3, <2>1, Units
  <2>3. Json(l, z, sent % Second) BY <1>1, <1>5, <2>2 DEF Json
  <2> QED BY <1>1, <1>3, <1>5, <2>1, <2>3 DEF TimestampInv
<1> QED BY <1>1, <1>2, <1>4, <1>5 DEF SetTimestamp

\* Without its remainder a datetime stands for the microsecond at or before the instant,
\* however often the remainder was dropped before.
LEMMA RebuiltInstant ==
  ASSUME sent \in Int, NEW u \in Int, NEW r \in 0 .. Base - 1, u * Base + r = Instant
  PROVE  u * Base = sent - (sent % Base)
<1> DEFINE q == sent \div Base
           m == sent % Base
<1>1. q \in Int /\ m \in 0 .. Base - 1 /\ sent = Base * q + m BY Units, DivisionRemainder
<1>2. u * Base = Base * u /\ Base * u \in Int BY Units
<1> HIDE DEF q, m
<1>3. CASE ~rebuilt
  <2>1. sent = Base * u + r BY <1>2, <1>3 DEF Instant
  <2>2. m = r BY <2>1, Units, DivisionUnique DEF m
  <2> QED BY <1>2, <2>1, <2>2 DEF m
<1>4. CASE rebuilt
  <2>1. Instant = sent - m BY <1>4 DEF Instant, m
  <2>2. Instant = Base * q + 0 /\ Base * q \in Int BY <1>1, <2>1, Units
  <2>3. 0 \in 0 .. Base - 1 BY Units
  <2>4. (Base * q + 0) % Base = 0 BY <1>1, <2>3, Units, DivisionUnique
  <2>5. (Base * u + r) % Base = r BY Units, DivisionUnique
  <2>6. r = 0 BY <1>2, <2>2, <2>4, <2>5
  <2> QED BY <1>2, <2>1, <2>6 DEF m
<1> QED BY <1>3, <1>4

LEMMA StepTimestamp == TimestampInv /\ [Next]_vars => TimestampInv'
<1> SUFFICES ASSUME TimestampInv, [Next]_vars, kind' = "timestamp" PROVE TimestampInv'
  BY DEF TimestampInv
<1> USE DEF vars
<1>1. kind = "timestamp" /\ sent' = sent /\ sent \in Int /\ sent' \in Int
  BY DEF Next, Serialize, Parse, ToJson, FromJson, DeepCopy, InZone, TimestampInv
<1>0. rebuilt' = rebuilt => Instant' = Instant BY <1>1 DEF Instant
<1>2. CASE UNCHANGED vars BY <1>0, <1>2 DEF TimestampInv, Python, InBytes, Json
<1>3. CASE Serialize
  <2>1. PICK l \in Int, z \in Int, r \in 0 .. Base - 1 : Python(l, z, r)
    BY <1>1, <1>3 DEF Serialize, TimestampInv
  <2>2. PICK s \in Int, n \in 0 .. Second - 1 :
          /\ ToTimestamp(NanoDatetime(l, z * Micros, r)) = SecondsNanos(s, n)
          /\ s * Second + n = (l - z * Micros) * Base + r
    BY SecondsOfDatetime
  <2>3. form' = SecondsNanos(s, n) BY <1>1, <1>3, <2>1, <2>2 DEF Serialize, Python
  <2>4. s * Second + n = Instant' BY <1>0, <1>1, <1>3, <2>1, <2>2 DEF Python, Serialize
  <2>5. InBytes(s, n)' BY <2>3, <2>4 DEF InBytes
  <2> QED BY <1>1, <1>3, <2>5 DEF Serialize, TimestampInv
<1>4. CASE Parse
  <2>1. PICK s \in Int, n \in 0 .. Second - 1 : InBytes(s, n)
    BY <1>1, <1>4 DEF Parse, TimestampInv
  <2>2. form.seconds = s /\ form.nanos = n BY <2>1 DEF InBytes, SecondsNanos
  <2>3. form' = NanoDatetime(s * Micros + n \div Base, 0, n % Base)
    BY <1>1, <1>4, <2>2 DEF Parse, FromTimestamp
  <2>4. PICK l \in Int, r \in 0 .. Base - 1 :
          /\ form' = NanoDatetime(l, 0 * Micros, r)
          /\ (l - 0 * Micros) * Base + r = s * Second + n
    BY <2>3, DatetimeOfSeconds
  <2>5. (l - 0 * Micros) * Base + r = Instant' BY <1>0, <1>1, <1>4, <2>1, <2>4 DEF InBytes, Parse
  <2>6. Python(l, 0, r)' BY <2>4, <2>5 DEF Python
  <2> QED BY <1>1, <1>4, <2>6 DEF Parse, TimestampInv
<1>5. CASE ToJson
  <2>1. PICK l \in Int, z \in Int, r \in 0 .. Base - 1 : Python(l, z, r)
    BY <1>1, <1>5 DEF ToJson, TimestampInv
  <2>2. PICK s \in Int, n \in 0 .. Second - 1 :
          /\ ToTimestamp(NanoDatetime(l, z * Micros, r)) = SecondsNanos(s, n)
          /\ s * Second + n = (l - z * Micros) * Base + r
    BY SecondsOfDatetime
  <2>3. ToTimestamp(form) = SecondsNanos(s, n) BY <2>1, <2>2 DEF Python
  <2>4. form' = TimestampText(s, 0, FractionText(n))
    BY <1>1, <1>5, <2>3 DEF ToJson, TimestampToJson, SecondsNanos
  <2>5. (s - 0) * Second + n = Instant' BY <1>0, <1>1, <1>5, <2>1, <2>2 DEF Python, ToJson
  <2>6. Json(s, 0, n)' BY <2>4, <2>5 DEF Json
  <2> QED BY <1>1, <1>5, <2>6 DEF ToJson, TimestampInv
<1>6. CASE FromJson
  <2>1. PICK l \in Int, z \in Int, n \in 0 .. Second - 1 : Json(l, z, n)
    BY <1>1, <1>6 DEF FromJson, TimestampInv
  <2>2. form.local = l /\ form.offset = z /\ form.fraction = FractionText(n)
    BY <2>1 DEF Json, TimestampText
  <2>3. FractionNanos(form.fraction) = n BY <2>2, FractionKept
  <2>4. place' = "python" /\ form' = TimestampFromJson(form) BY <1>1, <1>6 DEF FromJson
  <2>5. form' = NanoDatetime((l - z) * Micros + n \div Base, 0, n % Base)
    BY <2>2, <2>3, <2>4 DEF TimestampFromJson
  <2>6. l - z \in Int OBVIOUS
  <2>7. PICK k \in Int, r \in 0 .. Base - 1 :
          /\ form' = NanoDatetime(k, 0 * Micros, r)
          /\ (k - 0 * Micros) * Base + r = (l - z) * Second + n
    BY <2>5, <2>6, DatetimeOfSeconds
  <2>8. (k - 0 * Micros) * Base + r = Instant' BY <1>0, <1>1, <1>6, <2>1, <2>7 DEF Json, FromJson
  <2>9. Python(k, 0, r)' BY <2>7, <2>8 DEF Python
  <2> QED BY <1>1, <2>4, <2>9 DEF TimestampInv
<1>7. ASSUME NEW l \in Int, NEW z \in Int, NEW r \in 0 .. Base - 1, Python(l, z, r),
             NEW k \in Int, NEW y \in Int, k - y * Micros = l - z * Micros,
             form' = Rebuilt(k, y * Micros), rebuilt', place' = "python"
      PROVE  TimestampInv'
  <2>1. l - z * Micros \in Int /\ (l - z * Micros) * Base + r = Instant
    BY <1>7, Units DEF Python
  <2>2. (l - z * Micros) * Base = sent - (sent % Base) BY <1>1, <2>1, RebuiltInstant
  <2>3. Instant' = sent - (sent % Base) BY <1>1, <1>7 DEF Instant
  <2>4. (k - y * Micros) * Base + 0 = Instant' BY <1>7, <2>1, <2>2, <2>3, Units
  <2>5. form' = NanoDatetime(k, y * Micros, 0) BY <1>7 DEF Rebuilt
  <2>6. Python(k, y, 0)' BY <2>4, <2>5 DEF Python
  <2>7. 0 \in 0 .. Base - 1 BY Units
  <2> QED BY <1>1, <1>7, <2>6, <2>7 DEF TimestampInv
<1>8. CASE DeepCopy
  <2>1. PICK l \in Int, z \in Int, r \in 0 .. Base - 1 : Python(l, z, r)
    BY <1>1, <1>8 DEF DeepCopy, TimestampInv
  <2>2. form.local = l /\ form.offset = z * Micros BY <2>1 DEF Python, NanoDatetime
  <2> QED BY <1>7, <1>8, <2>1, <2>2 DEF DeepCopy
<1>9. ASSUME NEW y \in Offsets, InZone(y) PROVE TimestampInv'
  <2>1. PICK l \in Int, z \in Int, r \in 0 .. Base - 1 : Python(l, z, r)
    BY <1>1, <1>9 DEF InZone, TimestampInv
  <2>2. form.local = l /\ form.offset = z * Micros BY <2>1 DEF Python, NanoDatetime
  <2> DEFINE k == l - z * Micros + y * Micros
  <2>3. y \in Int /\ z * Micros \in Int /\ y * Micros \in Int BY TimesAssumption, Units
  <2>4. k \in Int /\ k - y * Micros = l - z * Micros BY <2>3
  <2>5. form' = Rebuilt(k, y * Micros) /\ rebuilt' /\ place' = "python"
    BY <1>9, <2>2 DEF InZone
  <2> QED BY <1>7, <2>1, <2>3, <2>4, <2>5
<1> QED BY <1>2, <1>3, <1>4, <1>5, <1>6, <1>8, <1>9 DEF Next

LEMMA TimestampHeld == TimestampInv => TimestampExact
<1> SUFFICES ASSUME TimestampInv, kind = "timestamp" PROVE WellFormed /\ Held = Instant
  BY DEF TimestampExact, Instant
<1>1. CASE place = "python"
  <2>1. PICK l \in Int, z \in Int, r \in 0 .. Base - 1 : Python(l, z, r)
    BY <1>1 DEF TimestampInv
  <2> QED BY <1>1, <2>1 DEF Python, NanoDatetime, Held, Nanoseconds, WellFormed
<1>2. CASE place = "bytes"
  <2>1. PICK s \in Int, n \in 0 .. Second - 1 : InBytes(s, n) BY <1>2 DEF TimestampInv
  <2> QED BY <1>2, <2>1 DEF InBytes, SecondsNanos, Held, Nanoseconds, WellFormed
<1>3. CASE place = "json"
  <2>1. PICK l \in Int, z \in Int, n \in 0 .. Second - 1 : Json(l, z, n)
    BY <1>3 DEF TimestampInv
  <2>2. FractionNanos(FractionText(n)) = n BY FractionKept
  <2>3. form.local = l /\ form.offset = z /\ form.fraction = FractionText(n)
    BY <2>1 DEF Json, TimestampText
  <2>4. Held = (l - z) * Second + n BY <1>3, <2>2, <2>3 DEF Held, Nanoseconds
  <2> QED BY <1>3, <2>1, <2>4 DEF Json, WellFormed
<1> QED BY <1>1, <1>2, <1>3 DEF TimestampInv

\* A timestamp keeps its nanoseconds through any number of conversions, and is cut once,
\* to microseconds, where a datetime is rebuilt: for the 1000 nanoseconds of a microsecond
\* as for any even number, any instants and any time zones.
THEOREM TimestampsExact == Spec => []TimestampExact
BY InitTimestamp, StepTimestamp, TimestampHeld, PTL DEF Spec

-----------------------------------------------------------------------------
\* Durations.

\* Microseconds that are as near to what was sent as the first conversion makes them.
Near(m) ==
  m * Base - sent \in -(Base \div 2 + MaxFloatError) .. Base \div 2 + MaxFloatError

\* A duration is either still what was sent, or the form of such microseconds.
Bytes(s, n) == form = SecondsNanos(s, n) /\ s * Second + n = sent

AsSent ==
  \/ place = "bytes" /\ \E s \in Nat, n \in 0 .. Second - 1 : Bytes(s, n)
  \/ place = "json" /\ \E s \in Nat, n \in 0 .. Second - 1 :
       form = DurationText(FALSE, s, FractionText(n)) /\ s * Second + n = sent

FormOf(m) ==
  \/ place = "python" /\ form = Timedelta(m)
  \/ place = "bytes" /\ form = SecondsNanos(m \div Micros, (m % Micros) * Base)
  \/ place = "json"
       /\ form = DurationText(FALSE, m \div Micros, FractionText((m % Micros) * Base))

DurationInv ==
  kind = "duration" => sent \in Nat /\ (AsSent \/ \E m \in Nat : Near(m) /\ FormOf(m))

LEMMA Floats == MaxFloatError \in Nat /\ 2 * MaxFloatError < Base /\ Base \div 2 \in Nat
                /\ Base = 2 * (Base \div 2)
BY FloatAssumption, BaseAssumption

\* Rounding goes no further than half a microsecond.
LEMMA RoundNear ==
  ASSUME NEW n \in Nat
  PROVE  /\ RoundHalfEven(n, Base) \in Nat
         /\ RoundHalfEven(n, Base) * Base - n \in -(Base \div 2) .. Base \div 2
<1> DEFINE q == n \div Base
           r == n % Base
<1>1. q \in Nat /\ r \in 0 .. Base - 1 /\ n = Base * q + r
  <2>1. q \in Int /\ r \in 0 .. Base - 1 /\ n = Base * q + r BY Units, DivisionRemainder
  <2>2. q >= 0 BY Units
  <2> QED BY <2>1, <2>2
<1>2. q * Base = Base * q /\ (q + 1) * Base = Base * q + Base /\ Base * q \in Int
  BY <1>1, Units
<1>3. CASE 2 * r > Base \/ (2 * r = Base /\ q % 2 = 1)
  <2>1. RoundHalfEven(n, Base) = q + 1 BY <1>3 DEF RoundHalfEven
  <2> HIDE DEF q, r
  <2>2. (q + 1) * Base - n = Base - r BY <1>1, <1>2, Units
  <2>3. Base - r \in 0 .. Base \div 2 BY <1>1, <1>3, Floats, Units
  <2>4. q + 1 \in Nat BY <1>1
  <2> QED BY <2>1, <2>2, <2>3, <2>4, Floats
<1>4. CASE ~(2 * r > Base \/ (2 * r = Base /\ q % 2 = 1))
  <2>1. RoundHalfEven(n, Base) = q BY <1>1, <1>4 DEF RoundHalfEven
  <2> HIDE DEF q, r
  <2>2. q * Base - n = -r BY <1>1, <1>2, Units
  <2>3. -r \in -(Base \div 2) .. 0 BY <1>1, <1>4, Floats, Units
  <2> QED BY <1>1, <2>1, <2>2, <2>3, Floats
<1> QED BY <1>3, <1>4

\* And finds whole microseconds again behind the error of a float.
LEMMA RoundExact ==
  ASSUME NEW k \in Nat, NEW e \in -MaxFloatError .. MaxFloatError
  PROVE  RoundHalfEven(k * Base + e, Base) = k
<1>1. k * Base = Base * k /\ Base * k \in Int /\ e \in Int BY Floats, Units
<1>2. CASE e >= 0
  <2>1. e \in 0 .. Base - 1 /\ ~(2 * e > Base) /\ ~(2 * e = Base) BY <1>2, Floats, Units
  <2>2. (Base * k + e) \div Base = k /\ (Base * k + e) % Base = e
    BY <2>1, Units, DivisionUnique
  <2> QED BY <1>1, <2>1, <2>2 DEF RoundHalfEven
<1>3. CASE e < 0
  <2>1. Base + e \in 0 .. Base - 1 /\ 2 * (Base + e) > Base BY <1>3, Floats, Units
  <2>2. Base * k + e = Base * (k - 1) + (Base + e) BY <1>1, Units
  <2>3. k - 1 \in Int OBVIOUS
  <2>4. (Base * k + e) \div Base = k - 1 /\ (Base * k + e) % Base = Base + e
    BY <2>1, <2>2, <2>3, Units, DivisionUnique
  <2> QED BY <1>1, <2>1, <2>4 DEF RoundHalfEven
<1> QED BY <1>1, <1>2, <1>3

\* Microseconds are split into seconds and the rest.
LEMMA MicrosSplit ==
  ASSUME NEW m \in Nat
  PROVE  /\ m \div Micros \in Nat /\ m % Micros \in Nat
         /\ (m % Micros) * Base \in 0 .. Second - 1
         /\ (m \div Micros) * Micros + (m % Micros) = m
         /\ (m \div Micros) * Second + (m % Micros) * Base = m * Base
<1> DEFINE s == m \div Micros
           r == m % Micros
<1>1. s \in Int /\ r \in 0 .. Micros - 1 /\ m = Micros * s + r BY Units, DivisionRemainder
<1>2. s >= 0 BY Units
<1> HIDE DEF s, r
<1>3. s * Micros = Micros * s /\ s * Micros \in Int BY <1>1, Units
<1>4. s * Second = (s * Micros) * Base BY <1>1, Units
<1>5. (s * Micros) * Base + r * Base = (s * Micros + r) * Base BY <1>1, <1>3, Units
<1>6. r * Base \in 0 .. Second - 1
  <2>1. r * Base \in Int /\ 0 <= r * Base /\ r * Base <= (Micros - 1) * Base
    BY <1>1, Units
  <2>2. (Micros - 1) * Base = Second - Base BY Units
  <2> QED BY <2>1, <2>2, Units
<1>7. s * Micros + r = m BY <1>1, <1>3
<1>8. s * Second + r * Base = m * Base BY <1>4, <1>5, <1>7
<1> QED BY <1>1, <1>2, <1>6, <1>7, <1>8 DEF s, r

\* What from_timedelta makes of a timedelta that is not negative.
LEMMA FromTimedeltaNat ==
  ASSUME NEW m \in Nat
  PROVE  FromTimedelta(m) = SecondsNanos(m \div Micros, (m % Micros) * Base)
BY DEF FromTimedelta, Truncated

\* Seconds and nanoseconds as they were sent, the latter with the error of a float.
LEMMA FirstConversion ==
  ASSUME NEW s \in Nat, NEW n \in 0 .. Second - 1, s * Second + n = sent,
         NEW t \in Nat, t - n \in -MaxFloatError .. MaxFloatError
  PROVE  \E m \in Nat : Near(m) /\ ToTimedelta(s, t) = Timedelta(m)
<1> DEFINE k == RoundHalfEven(t, Base)
           m == s * Micros + k
<1>1. k \in Nat /\ k * Base - t \in -(Base \div 2) .. Base \div 2 BY RoundNear
<1> HIDE DEF k
<1>2. s * Micros \in Nat /\ s * Second \in Nat BY Units
<1>3. m \in Nat BY <1>1, <1>2
<1>4. m * Base = s * Second + k * Base
  <2>1. m * Base = (s * Micros) * Base + k * Base BY <1>1, <1>2, Units
  <2>2. (s * Micros) * Base = s * Second BY Units
  <2> QED BY <2>1, <2>2
<1>5. m * Base - sent = (k * Base - t) + (t - n)
  <2>1. k * Base \in Int BY <1>1, Units
  <2> QED BY <1>2, <1>4, <2>1, Units
<1> HIDE DEF m
<1>6. Near(m)
  <2>1. k * Base - t \in Int /\ t - n \in Int BY <1>1, Floats
  <2> QED BY <1>1, <1>5, <2>1, Floats DEF Near
<1>7. ToTimedelta(s, t) = Timedelta(m) BY DEF ToTimedelta, k, m
<1> QED BY <1>3, <1>6, <1>7

\* Every later conversion finds the same microseconds.
LEMMA LaterConversion ==
  ASSUME NEW m \in Nat, NEW e \in -MaxFloatError .. MaxFloatError
  PROVE  ToTimedelta(m \div Micros, (m % Micros) * Base + e) = Timedelta(m)
<1>1. m % Micros \in Nat /\ (m \div Micros) * Micros + (m % Micros) = m BY MicrosSplit
<1>2. RoundHalfEven((m % Micros) * Base + e, Base) = m % Micros BY <1>1, RoundExact
<1> QED BY <1>1, <1>2 DEF ToTimedelta

LEMMA InitDuration == Init /\ Durations \subseteq Nat => DurationInv
<1> SUFFICES ASSUME Init, Durations \subseteq Nat, kind = "duration"
             PROVE  sent \in Nat /\ (AsSent \/ \E m \in Nat : Near(m) /\ FormOf(m))
  BY DEF DurationInv
<1>1. sent \in Nat /\ SetDuration(sent) BY DEF Init
<1> DEFINE s == sent \div Second
           n == sent % Second
<1>2. s \in Nat /\ n \in 0 .. Second - 1 /\ s * Second + n = sent
  <2>1. s \in Int /\ n \in 0 .. Second - 1 /\ sent = Second * s + n
    BY <1>1, Units, DivisionRemainder
  <2>2. s >= 0 BY <1>1, Units
  <2> HIDE DEF s, n
  <2>3. Second * s = s * Second BY <2>1, Units
  <2> QED BY <2>1, <2>2, <2>3
<1>3. CASE sent % Base = 0 /\ form = Timedelta(sent \div Base) /\ place = "python"
  <2> DEFINE m == sent \div Base
  <2>1. m \in Int /\ sent = Base * m + (sent % Base) BY <1>1, Units, DivisionRemainder
  <2>2. m >= 0 BY <1>1, Units
  <2> HIDE DEF m
  <2>3. m * Base - sent = 0 BY <1>1, <1>3, <2>1, Units
  <2>4. Near(m) BY <2>3, Floats DEF Near
  <2>5. FormOf(m) BY <1>3 DEF FormOf, m
  <2> QED BY <1>1, <2>1, <2>2, <2>4, <2>5
<1>4. CASE form = SecondsNanos(1 * s, 1 * n) /\ place = "bytes"
  <2>1. Bytes(s, n) BY <1>2, <1>4 DEF Bytes
  <2> QED BY <1>1, <1>2, <1>4, <2>1 DEF AsSent
<1>5. CASE form = DurationText(FALSE, s, FractionText(n)) /\ place = "json"
  BY <1>1, <1>2, <1>5 DEF AsSent
<1>6. ~(sent < 0) /\ (sent < 0) = FALSE BY <1>1
<1> QED BY <1>1, <1>3, <1>4, <1>5, <1>6 DEF SetDuration

LEMMA StepDuration == DurationInv /\ [Next]_vars => DurationInv'
<1> SUFFICES ASSUME DurationInv, [Next]_vars, kind' = "duration"
             PROVE  sent' \in Nat /\ (AsSent' \/ \E m \in Nat : Near(m)' /\ FormOf(m)')
  BY DEF DurationInv
<1> USE DEF vars
<1>1. kind = "duration" /\ sent' = sent /\ sent \in Nat
  BY DEF Next, Serialize, Parse, ToJson, FromJson, DeepCopy, InZone, DurationInv
<1>2. AsSent \/ \E m \in Nat : Near(m) /\ FormOf(m) BY <1>1 DEF DurationInv
<1>3. ASSUME NEW m PROVE Near(m)' <=> Near(m) BY <1>1 DEF Near
<1>4. CASE UNCHANGED vars
  <2>1. CASE AsSent BY <1>1, <1>4, <2>1 DEF AsSent, Bytes
  <2>2. ASSUME NEW m \in Nat, Near(m), FormOf(m) PROVE Near(m)' /\ FormOf(m)'
    BY <1>3, <1>4, <2>2 DEF FormOf
  <2> QED BY <1>1, <1>2, <2>1, <2>2
<1>5. CASE Serialize
  <2>1. PICK m \in Nat : Near(m) /\ FormOf(m) BY <1>2, <1>5 DEF Serialize, AsSent
  <2>2. form.micros = m BY <1>5, <2>1 DEF Serialize, FormOf, Timedelta
  <2>3. FormOf(m)' BY <1>1, <1>5, <2>2, FromTimedeltaNat DEF Serialize, FormOf
  <2> QED BY <1>1, <1>3, <2>1, <2>3
<1>6. CASE Parse
  <2>1. place = "bytes" /\ place' = "python" /\ form' = ToTimedelta(form.seconds, form.nanos)
    BY <1>1, <1>6 DEF Parse
  <2>2. CASE AsSent
    <3>1. PICK s \in Nat, n \in 0 .. Second - 1 : Bytes(s, n) BY <2>1, <2>2 DEF AsSent
    <3>2. form' = ToTimedelta(s, n) BY <2>1, <3>1 DEF Bytes, SecondsNanos
    <3>3. n \in Nat /\ n - n \in -MaxFloatError .. MaxFloatError BY Floats, Units
    <3>4. PICK m \in Nat : Near(m) /\ ToTimedelta(s, n) = Timedelta(m)
      BY <3>1, <3>3, FirstConversion DEF Bytes
    <3>5. FormOf(m)' BY <2>1, <3>2, <3>4 DEF FormOf
    <3> QED BY <1>1, <1>3, <3>4, <3>5
  <2>3. ASSUME NEW m \in Nat, Near(m), FormOf(m) PROVE Near(m)' /\ FormOf(m)'
    <3>1. form.seconds = m \div Micros /\ form.nanos = (m % Micros) * Base
      BY <2>1, <2>3 DEF FormOf, SecondsNanos
    <3>2. (m % Micros) * Base = (m % Micros) * Base + 0 BY MicrosSplit
    <3>3. 0 \in -MaxFloatError .. MaxFloatError BY Floats
    <3>4. form' = Timedelta(m) BY <2>1, <3>1, <3>2, <3>3, LaterConversion
    <3> QED BY <1>3, <2>1, <2>3, <3>4 DEF FormOf
  <2> QED BY <1>1, <1>2, <2>2, <2>3
<1>7. CASE ToJson
  <2>1. PICK m \in Nat : Near(m) /\ FormOf(m) BY <1>2, <1>7 DEF ToJson, AsSent
  <2>2. form.micros = m BY <1>7, <2>1 DEF ToJson, FormOf, Timedelta
  <2>3. m \div Micros \in Nat BY MicrosSplit
  <2>4. ~(m \div Micros < 0) /\ (m \div Micros < 0) = FALSE BY <2>3
  <2>5. DurationToJson(m)
          = DurationText(FALSE, m \div Micros, FractionText((m % Micros) * Base))
    <3> DEFINE seconds == m \div Micros
               nanos == (m % Micros) * Base
    <3>1. FromTimedelta(m) = SecondsNanos(seconds, nanos) BY FromTimedeltaNat
    <3>2. SecondsNanos(seconds, nanos).seconds = seconds
      BY DEF SecondsNanos
    <3>3. SecondsNanos(seconds, nanos).nanos = nanos
      BY DEF SecondsNanos
    <3>4. ~(seconds < 0) /\ (seconds < 0) = FALSE BY <2>4
    <3> HIDE DEF seconds, nanos
    <3>5. DurationToJson(m)
            = DurationText(seconds < 0, IF seconds < 0 THEN -seconds ELSE seconds,
                           FractionText(nanos))
      BY <3>1, <3>2, <3>3, Zenon DEF DurationToJson
    <3>6. DurationToJson(m) = DurationText(FALSE, seconds, FractionText(nanos))
      BY <3>4, <3>5, Zenon
    <3> QED BY <3>6 DEF seconds, nanos
  <2>6. FormOf(m)' BY <1>1, <1>7, <2>2, <2>5 DEF ToJson, FormOf
  <2> QED BY <1>1, <1>3, <2>1, <2>6
<1>8. CASE FromJson
  <2>1. PICK s \in Nat, n \in 0 .. Second - 1 :
          /\ form = DurationText(FALSE, s, FractionText(n))
          /\ \/ s * Second + n = sent
             \/ \E m \in Nat : /\ Near(m) /\ s = m \div Micros /\ n = (m % Micros) * Base
    <3>1. place = "json" BY <1>8 DEF FromJson
    <3>2. CASE AsSent BY <3>1, <3>2 DEF AsSent
    <3>3. ASSUME NEW m \in Nat, Near(m), FormOf(m)
          PROVE  /\ form = DurationText(FALSE, m \div Micros, FractionText((m % Micros) * Base))
                 /\ m \div Micros \in Nat /\ (m % Micros) * Base \in 0 .. Second - 1
      BY <3>1, <3>3, MicrosSplit DEF FormOf
    <3> QED BY <1>2, <3>2, <3>3
  <2>2. /\ form.negative = FALSE /\ form.seconds = s /\ form.fraction = FractionText(n)
        /\ FractionNanos(form.fraction) = n
    BY <2>1, FractionKept DEF DurationText
  <2>3. place' = "python" BY <1>1, <1>8, <2>2 DEF FromJson
  <2>4. PICK error \in -MaxFloatError .. MaxFloatError : form' = DurationFromJson(form, error)
    BY <1>1, <1>8, <2>2 DEF FromJson
  <2>5. PICK e \in -MaxFloatError .. MaxFloatError :
          n + e \in Nat /\ form' = ToTimedelta(s, n + e)
    <3> DEFINE nanos == IF n + error \in 0 .. Second - 1 THEN n + error ELSE n
    <3>1. form' = ToTimedelta(s, IF FractionText(n).groups = 0 THEN 0 ELSE nanos)
      BY <2>2, <2>4 DEF DurationFromJson
    <3>2. 0 \in -MaxFloatError .. MaxFloatError /\ n + 0 = n /\ n \in Nat BY Floats, Units
    <3>3. CASE FractionText(n).groups = 0
      <4>1. n = 0 BY <3>3 DEF FractionText
      <4> QED BY <3>1, <3>2, <3>3, <4>1
    <3>4. CASE FractionText(n).groups # 0 /\ n + error \in 0 .. Second - 1
      <4>1. n + error \in Nat BY <3>4, Units
      <4> QED BY <3>1, <3>4, <4>1
    <3>5. CASE FractionText(n).groups # 0 /\ n + error \notin 0 .. Second - 1
      BY <3>1, <3>2, <3>5
    <3> QED BY <3>3, <3>4, <3>5
  <2>6. CASE s * Second + n = sent
    <3>1. (n + e) - n \in -MaxFloatError .. MaxFloatError BY Floats, Units
    <3>2. PICK m \in Nat : Near(m) /\ ToTimedelta(s, n + e) = Timedelta(m)
      BY <2>5, <2>6, <3>1, FirstConversion
    <3>3. FormOf(m)' BY <2>3, <2>5, <3>2 DEF FormOf
    <3> QED BY <1>1, <1>3, <3>2, <3>3
  <2>7. ASSUME NEW m \in Nat, Near(m), s = m \div Micros, n = (m % Micros) * Base
        PROVE  Near(m)' /\ FormOf(m)'
    <3>1. form' = Timedelta(m) BY <2>5, <2>7, LaterConversion
    <3> QED BY <1>3, <2>3, <2>7, <3>1 DEF FormOf
  <2> QED BY <1>1, <2>1, <2>6, <2>7
<1>9. ~DeepCopy /\ ~(\E z \in Offsets : InZone(z)) BY <1>1 DEF DeepCopy, InZone
<1> QED BY <1>4, <1>5, <1>6, <1>7, <1>8, <1>9 DEF Next

LEMMA DurationHeld == DurationInv => DurationKept
<1> SUFFICES ASSUME DurationInv, kind = "duration"
             PROVE  /\ Held - sent \in -(Base \div 2 + MaxFloatError) .. Base \div 2 + MaxFloatError
                    /\ WellFormed
  BY DEF DurationKept
<1>1. sent \in Nat /\ (AsSent \/ \E m \in Nat : Near(m) /\ FormOf(m)) BY DEF DurationInv
<1>2. sent - sent \in -(Base \div 2 + MaxFloatError) .. Base \div 2 + MaxFloatError
  BY <1>1, Floats
<1>3. CASE AsSent
  <2>1. ASSUME NEW s \in Nat, NEW n \in 0 .. Second - 1, Bytes(s, n), place = "bytes"
        PROVE  Held = sent /\ WellFormed
    BY <2>1 DEF Bytes, SecondsNanos, Held, Nanoseconds, WellFormed
  <2>2. ASSUME NEW s \in Nat, NEW n \in 0 .. Second - 1, place = "json",
               form = DurationText(FALSE, s, FractionText(n)), s * Second + n = sent
        PROVE  Held = sent /\ WellFormed
    <3>1. FractionNanos(FractionText(n)) = n BY FractionKept
    <3>2. form.negative = FALSE /\ form.seconds = s /\ form.fraction = FractionText(n)
      BY <2>2 DEF DurationText
    <3>3. Held = 1 * (s * Second + n) BY <2>2, <3>1, <3>2 DEF Held, Nanoseconds
    <3> QED BY <1>1, <2>2, <3>3 DEF WellFormed
  <2> QED BY <1>2, <1>3, <2>1, <2>2 DEF AsSent
<1>4. ASSUME NEW m \in Nat, Near(m), FormOf(m) PROVE Held = m * Base /\ WellFormed
  <2> DEFINE s == m \div Micros
             n == (m % Micros) * Base
  <2>1. s \in Nat /\ n \in 0 .. Second - 1 /\ s * Second + n = m * Base BY MicrosSplit
  <2>2. m * Base \in Int BY Units
  <2>3. CASE place = "python" /\ form = Timedelta(m)
    BY <2>3 DEF Timedelta, Held, Nanoseconds, WellFormed
  <2>4. CASE place = "bytes" /\ form = SecondsNanos(s, n)
    <3>1. form.seconds = s /\ form.nanos = n BY <2>4 DEF SecondsNanos
    <3> HIDE DEF s, n
    <3> QED BY <2>1, <2>4, <3>1 DEF Held, Nanoseconds, WellFormed
  <2>5. CASE place = "json" /\ form = DurationText(FALSE, s, FractionText(n))
    <3>1. form.negative = FALSE /\ form.seconds = s /\ form.fraction = FractionText(n)
      BY <2>5 DEF DurationText
    <3>2. FractionNanos(FractionText(n)) = n BY <2>1, FractionKept
    <3> HIDE DEF s, n
    <3>3. Held = 1 * (s * Second + n) BY <2>5, <3>1, <3>2 DEF Held, Nanoseconds
    <3> QED BY <2>1, <2>2, <2>5, <3>3 DEF WellFormed
  <2> QED BY <1>4, <2>3, <2>4, <2>5 DEF FormOf
<1> QED BY <1>1, <1>3, <1>4 DEF Near

\* A duration that is not negative is rounded once, by less than a microsecond, however
\* often it is converted, whatever the error of floats within FloatAssumption.
THEOREM DurationsKept == ASSUME Durations \subseteq Nat PROVE Spec => []DurationKept
<1>1. Init => DurationInv BY InitDuration
<1> QED BY <1>1, StepDuration, DurationHeld, PTL DEF Spec
=============================================================================
