---------------------------- MODULE MCPravegaSink ----------------------------
(* Values for the constants of PravegaSink. *)
EXTENDS PravegaSink

\* A buffer with the given timestamp and kind and no flag set.
Plain(ts, key) ==
  [ts |-> ts, duration |-> 1, key |-> key, discont |-> FALSE, sync |-> FALSE, oversize |-> FALSE]

\* With index-min 1 and index-max 2: key frames below and at index-min, delta units at and
\* above index-max, and every flag once: SYNC_AFTER, DISCONT, a payload that is too large,
\* and a timestamp of 0, which the index refuses.
FlagBuffers ==
  {Plain(NONE, TRUE), Plain(0, TRUE), Plain(1, TRUE), Plain(3, FALSE),
   [Plain(2, TRUE) EXCEPT !.oversize = TRUE], [Plain(2, TRUE) EXCEPT !.sync = TRUE],
   [Plain(4, FALSE) EXCEPT !.sync = TRUE, !.discont = TRUE]}

\* One buffer of each kind that makes calls wait in their own way.
SealBuffers ==
  {Plain(1, TRUE), Plain(NONE, FALSE), [Plain(2, FALSE) EXCEPT !.sync = TRUE]}

\* Timestamps of a stream in order, with durations of 0 to 2.
OrderedBuffers ==
  {[Plain(ts, key) EXCEPT !.duration = d] : ts \in 1..5, key \in BOOLEAN, d \in 0..2}
=============================================================================
