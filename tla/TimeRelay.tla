----------------------------- MODULE TimeRelay -----------------------------
(***************************************************************************)
(* A google.protobuf.Timestamp or Duration field of a message on its way   *)
(* through any number of programs: bytes and JSON are converted to the     *)
(* datetime or timedelta that users work with, and back.  The conversions  *)
(* are those of nano_datetime.py and of duration.py and timestamp.py of    *)
(* the known types; to_wrapped and from_wrapped are their entry points.    *)
(*                                                                         *)
(* Amounts of time are whole numbers.  Digits come in groups of three in   *)
(* the code: Base is 1000 there, and nothing depends on its value.         *)
(***************************************************************************)
EXTENDS Integers

CONSTANTS Base,           \* nanoseconds in a microsecond, 1000 in the code
          Timestamps,     \* the instants to consider, in nanoseconds since 1970
          Durations,      \* the durations, in nanoseconds
          Offsets,        \* UTC offsets of the users' time zones, in seconds
          MaxFloatError   \* bound: error of a parsed fraction, in nanoseconds

Micros == Base * Base      \* microseconds in a second
Second == Base * Micros    \* nanoseconds in a second

ASSUME BaseAssumption == Base \in Nat \ {0, 1} /\ Base % 2 = 0
ASSUME TimesAssumption ==
  Timestamps \subseteq Int /\ Durations \subseteq Int /\ Offsets \subseteq Int
\* A float has 53 bits: the error is below half a microsecond for some 270 years.
ASSUME FloatAssumption == MaxFloatError \in Nat /\ 2 * MaxFloatError < Base

VARIABLES
  kind,   \* "timestamp" or "duration"
  sent,   \* what the field was first set to, in nanoseconds
  place,  \* "python", "bytes", "json", or "raised" by a conversion
  form,   \* the field in the form of that place
  rebuilt \* whether CPython has made the datetime anew, for history

vars == <<kind, sent, place, form, rebuilt>>

-----------------------------------------------------------------------------
\* The forms: seconds and nanoseconds; whole seconds with a fraction of up to three
\* groups of digits, and a time zone or a sign; a datetime of some time zone, as
\* microseconds and the rest in nanoseconds; a timedelta, in microseconds.
SecondsNanos(s, n) == [seconds |-> s, nanos |-> n]
TimestampText(local, offset, f) == [local |-> local, offset |-> offset, fraction |-> f]
DurationText(negative, s, f)    == [negative |-> negative, seconds |-> s, fraction |-> f]
NanoDatetime(local, offset, rest) == [local |-> local, offset |-> offset, rest |-> rest]
Timedelta(m) == [micros |-> m]

\* A fraction of a second without the groups of digits that are zero at its end, and
\* how it is read: ljust(9, "0").
FractionText(n) ==
  CASE n = 0                           -> [groups |-> 0, number |-> 0]
    [] n # 0 /\ n % Micros = 0         -> [groups |-> 1, number |-> n \div Micros]
    [] n % Micros # 0 /\ n % Base = 0  -> [groups |-> 2, number |-> n \div Base]
    [] OTHER                           -> [groups |-> 3, number |-> n]
FractionNanos(f) ==
  f.number * CASE f.groups = 0 -> Second
               [] f.groups = 1 -> Micros
               [] f.groups = 2 -> Base
               [] f.groups = 3 -> 1

\* The amount of time that a form stands for.
Nanoseconds(k, p, f) ==
  CASE p = "bytes"                       -> f.seconds * Second + f.nanos
    [] p = "python" /\ k = "timestamp"   -> (f.local - f.offset) * Base + f.rest
    [] p = "python" /\ k = "duration"    -> f.micros * Base
    [] p = "json" /\ k = "timestamp"     -> (f.local - f.offset) * Second
                                              + FractionNanos(f.fraction)
    [] p = "json" /\ k = "duration"      ->
         (IF f.negative THEN -1 ELSE 1) * (f.seconds * Second + FractionNanos(f.fraction))

Held == Nanoseconds(kind, place, form)

-----------------------------------------------------------------------------
\* Timestamp.

\* Mutant: the fraction is taken after the conversion to UTC has dropped the rest.
FractionAfterUTC(dt) == ((dt.local - dt.offset) % Micros) * Base

\* _datetime_total_nanoseconds: the microsecond attribute and the rest.
TotalNanoseconds(dt) == (dt.local % Micros) * Base + dt.rest

ToTimestamp(dt) == SecondsNanos((dt.local - dt.offset) \div Micros, TotalNanoseconds(dt))

FromTimestamp(s, n) == NanoDatetime(s * Micros + n \div Base, 0, n % Base)

\* to_json writes UTC; from_rfc3339 reads any time zone.
TimestampToJson(dt) ==
  LET t == ToTimestamp(dt) IN TimestampText(t.seconds, 0, FractionText(t.nanos))

TimestampFromJson(text) ==
  LET nanos == FractionNanos(text.fraction)
  IN NanoDatetime((text.local - text.offset) * Micros + nanos \div Base, 0, nanos % Base)

-----------------------------------------------------------------------------
\* Duration.

\* n / d, to the nearest whole number and to the even one of two.
RoundHalfEven(n, d) ==
  LET up == 2 * (n % d) > d \/ (2 * (n % d) = d /\ (n \div d) % 2 = 1)
  IN n \div d + IF up THEN 1 ELSE 0

\* int(n / d)
Truncated(n, d) == IF n >= 0 THEN n \div d ELSE -((-n) \div d)

FromTimedelta(t) == SecondsNanos(Truncated(t, Micros), (t % Micros) * Base)

\* Mutant: the nanoseconds are cut and not rounded.
ToTimedeltaCut(s, n) == Timedelta(s * Micros + n \div Base)

ToTimedelta(s, n) == Timedelta(s * Micros + RoundHalfEven(n, Base))

\* Duration.to_dict asserts 0 <= nanos < 1e9.
DurationToJson(t) ==
  LET d == FromTimedelta(t)
  IN DurationText(d.seconds < 0, IF d.seconds < 0 THEN -d.seconds ELSE d.seconds,
                  FractionText(d.nanos))

\* Duration.from_dict accepts no sign, and reads the fraction off a float.
DurationFromJson(text, error) ==
  LET exact == FractionNanos(text.fraction)
      nanos == IF exact + error \in 0 .. Second - 1 THEN exact + error ELSE exact
  IN ToTimedelta(text.seconds, IF text.fraction.groups = 0 THEN 0 ELSE nanos)

-----------------------------------------------------------------------------
\* The field as it is first set: by a user, or by a program in another language.
SetTimestamp(n) ==
  \/ \E z \in Offsets : form = NanoDatetime(n \div Base + z * Micros, z * Micros, n % Base)
                        /\ place = "python"
  \/ form = SecondsNanos(n \div Second, n % Second) /\ place = "bytes"
  \/ \E z \in Offsets : form = TimestampText(n \div Second + z, z, FractionText(n % Second))
                        /\ place = "json"

SetDuration(n) ==
  LET amount == IF n < 0 THEN -n ELSE n
      sign   == IF n < 0 THEN -1 ELSE 1
  IN \/ n % Base = 0 /\ form = Timedelta(n \div Base) /\ place = "python"
     \/ form = SecondsNanos(sign * (amount \div Second), sign * (amount % Second))
          /\ place = "bytes"
     \/ form = DurationText(n < 0, amount \div Second, FractionText(amount % Second))
          /\ place = "json"

Init ==
  /\ rebuilt = FALSE
  /\ \/ kind = "timestamp" /\ sent \in Timestamps /\ SetTimestamp(sent)
     \/ kind = "duration" /\ sent \in Durations /\ SetDuration(sent)

\* bytes(message) and parse().
Serialize ==
  /\ place = "python" /\ place' = "bytes"
  /\ form' = IF kind = "timestamp" THEN ToTimestamp(form) ELSE FromTimedelta(form.micros)
  /\ UNCHANGED <<kind, sent, rebuilt>>

Parse ==
  /\ place = "bytes" /\ place' = "python"
  /\ form' = IF kind = "timestamp" THEN FromTimestamp(form.seconds, form.nanos)
             ELSE ToTimedelta(form.seconds, form.nanos)
  /\ UNCHANGED <<kind, sent, rebuilt>>

\* to_json() and from_json().
ToJson ==
  /\ place = "python" /\ place' = "json"
  /\ form' = IF kind = "timestamp" THEN TimestampToJson(form) ELSE DurationToJson(form.micros)
  /\ UNCHANGED <<kind, sent, rebuilt>>

FromJson ==
  /\ place = "json"
  /\ \/ kind = "timestamp" /\ place' = "python" /\ form' = TimestampFromJson(form)
     \/ kind = "duration" /\ form.negative /\ place' = "raised" /\ UNCHANGED form
     \/ /\ kind = "duration" /\ ~form.negative /\ place' = "python"
        /\ \E error \in -MaxFloatError .. MaxFloatError : form' = DurationFromJson(form, error)
  /\ UNCHANGED <<kind, sent, rebuilt>>

\* CPython makes a datetime of the subclass anew from the fields that it knows of: the
\* remainder is no argument, and __new__ sets it to 0.
Rebuilt(local, offset) == NanoDatetime(local, offset, 0)

\* deepcopy() of a message takes that of the datetime, which is rebuilt from what
\* datetime.__reduce_ex__ says of it.  A timedelta is copied as it is.
DeepCopy ==
  /\ kind = "timestamp" /\ place = "python"
  /\ form' = Rebuilt(form.local, form.offset) /\ rebuilt' = TRUE
  /\ UNCHANGED <<kind, sent, place>>

\* The user takes the datetime to another tzinfo, which may have the same offset:
\* NanoDatetime leaves astimezone to datetime.
InZone(z) ==
  /\ kind = "timestamp" /\ place = "python"
  /\ form' = Rebuilt(form.local - form.offset + z * Micros, z * Micros) /\ rebuilt' = TRUE
  /\ UNCHANGED <<kind, sent, place>>

Next ==
  \/ Serialize \/ Parse \/ ToJson \/ FromJson
  \/ DeepCopy \/ \E z \in Offsets : InZone(z)

Spec == Init /\ [][Next]_vars

-----------------------------------------------------------------------------
\* The range that the documentation of protobuf demands of what is written: the
\* nanoseconds of a timestamp count forward, those of a duration have its sign, and
\* neither makes up a second.
WellFormed ==
  place = "bytes" =>
    \/ kind = "timestamp" /\ form.nanos \in 0 .. Second - 1
    \/ kind = "duration" /\ form.seconds >= 0 /\ form.nanos \in 0 .. Second - 1
    \/ kind = "duration" /\ form.seconds <= 0 /\ form.nanos \in -(Second - 1) .. 0

\* The conversions keep every nanosecond of a timestamp, before and after 1970, in
\* whatever time zone users give it and however often it is converted, and write it
\* well-formed.  Only where CPython has rebuilt the datetime is it cut to microseconds,
\* down, once, and no further however often that happens.  (nano_datetime.py:82-129.)
TimestampExact ==
  kind = "timestamp" =>
    WellFormed /\ Held = IF rebuilt THEN sent - (sent % Base) ELSE sent

\* Sub-microsecond precision is preserved.  It is not, through deepcopy() and
\* astimezone().  (getting-started.md:271-275.)
NanosPreserved == kind = "timestamp" => Held = sent

\* A duration is rounded to a microsecond once and then stays what it is: however
\* often it is converted, it gets no further from what it was set to, and it is
\* written well-formed.
\* ("A Duration represents a signed, fixed-length span of time".)
DurationKept ==
  kind = "duration" /\ place # "raised" =>
    /\ Held - sent \in -(Base \div 2 + MaxFloatError) .. Base \div 2 + MaxFloatError
    /\ WellFormed
=============================================================================
