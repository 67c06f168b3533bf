----------------------------- MODULE Timestamps -----------------------------
(***************************************************************************)
(* timestamp.rs: PravegaTimestamp, an optional u64 of nanoseconds since    *)
(* the TAI epoch, and TimeDelta, an optional i128.  A release build wraps; *)
(* formatting and parsing are exact to the nanosecond and are modelled by  *)
(* the Unix time that is printed.                                          *)
(***************************************************************************)
EXTENDS Integers

CONSTANTS
  U64,                  \* 2^64
  UTC_TO_TAI_SECONDS,   \* both in nanoseconds
  UNIX_TO_NTP_SECONDS

ASSUME TimestampsAssumption ==
  /\ U64 \in Nat /\ U64 % 2 = 0
  /\ UTC_TO_TAI_SECONDS \in 0 .. U64 - 1 /\ UNIX_TO_NTP_SECONDS \in 0 .. U64 - 1

NONE == -1   \* orders before every Some
MIN == 0
MAX == U64 - 1

PravegaTimestamp == {NONE} \cup MIN .. MAX
NoDelta == U64   \* beyond every difference

from_nanoseconds(n) == n

\* Mutant: Unix time is taken for TAI.
UnixIsTai(n) == n

from_unix_nanoseconds(n) == IF n = NONE THEN NONE ELSE (n + UTC_TO_TAI_SECONDS) % U64

from_ntp_nanoseconds(n) ==
  IF n >= UNIX_TO_NTP_SECONDS THEN from_unix_nanoseconds(n - UNIX_TO_NTP_SECONDS) ELSE NONE

to_unix_nanoseconds(t) == IF t >= UTC_TO_TAI_SECONDS THEN t - UTC_TO_TAI_SECONDS ELSE NONE

\* From<PravegaTimestamp> for SystemTime: UNIX_EPOCH if there is no Unix time.
to_system_time(t) == IF to_unix_nanoseconds(t) = NONE THEN 0 ELSE to_unix_nanoseconds(t)

\* The Unix time printed, also by Display and Debug.
to_iso_8601(t) == IF t = NONE THEN NONE ELSE to_system_time(t)

\* DateTime::timestamp_nanos: an i64, which wraps.
timestamp_nanos(unix) == IF unix < U64 \div 2 THEN unix ELSE unix - U64

\* From<Option<DateTime>> and TryFrom of a string, whose error is NONE here.
from_date_time(unix) ==
  IF unix # NONE /\ timestamp_nanos(unix) >= 0
  THEN from_unix_nanoseconds(timestamp_nanos(unix)) ELSE NONE

or(t, u) == IF t # NONE THEN t ELSE u

-----------------------------------------------------------------------------
\* Sub for PravegaTimestamp.
Sub(t, u) == IF t = NONE \/ u = NONE THEN NoDelta ELSE t - u

\* Add<TimeDelta> for PravegaTimestamp: the sum in i128 is cast to u64.
AddDelta(t, d) == IF t = NONE \/ d = NoDelta THEN NONE ELSE (t + d) % U64

\* Sub<TimeDelta> for PravegaTimestamp.
SubDelta(t, d) == IF t = NONE \/ d = NoDelta THEN NONE ELSE (t - d) % U64
=============================================================================
