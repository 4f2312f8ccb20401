---------------------------- MODULE MCTimeRelay ----------------------------
\* Instants around 1970, durations from zero, and durations of both signs, each at
\* every nanosecond of a little more than two seconds.
EXTENDS TimeRelay

AroundEpoch == -(2 * Second + 1) .. 2 * Second + 1
NotNegative == 0 .. 2 * Second + 1
None        == {}

\* UTC and a zone on either side of it.
Zones == {-1, 0, 2}
=============================================================================
