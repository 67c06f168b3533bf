---------------------------- MODULE IndexedStream ----------------------------
(***************************************************************************)
(* What a video stream promises to its readers, whoever wrote it and       *)
(* however often its writers stopped, failed or died: a data stream and an *)
(* index stream, both append-only, in which                                *)
(*   - an event that does not continue the one before it is marked as a    *)
(*     discontinuity (event_serde.rs, DIS);                                *)
(*   - a new index record points into the data that is already stored      *)
(*     (index.rs, constraint 1), not before the last record, and unless it *)
(*     is marked as a discontinuity the data between the two was written   *)
(*     continuously (constraint 4).                                        *)
(* The sequences are what the Pravega server stores.                       *)
(***************************************************************************)
EXTENDS Integers, Sequences

VARIABLES
  data,   \* sequence of events
  index   \* sequence of index records

vars == <<data, index>>

Init == data = <<>> /\ index = <<>>

\* f was written right after e, by the same session.
Follows(e, f) == f.session = e.session /\ f.seq = e.seq + 1

\* Event k of d is marked or continues event k-1.
Continues(d, k) == d[k].discontinuity \/ (k > 1 /\ Follows(d[k-1], d[k]))

\* No event is missing between offsets lo and hi of d.
Unbroken(d, lo, hi) == \A k \in lo + 2 .. hi : Follows(d[k-1], d[k])

AppendEvent ==
  LET n == Len(data) + 1 IN
  /\ Len(data') = n
  /\ \A k \in DOMAIN data : data'[k] = data[k]
  /\ Continues(data', n)
  /\ UNCHANGED index

AppendRecord ==
  LET n == Len(index) + 1
      r == index'[n]
  IN
  /\ Len(index') = n
  /\ \A k \in DOMAIN index : index'[k] = index[k]
  /\ r.offset <= Len(data)
  /\ n > 1 => index[n-1].offset <= r.offset
  /\ ~r.discontinuity => n > 1 /\ Unbroken(data, index[n-1].offset, r.offset)
  /\ UNCHANGED data

Next == AppendEvent \/ AppendRecord

Spec == Init /\ [][Next]_vars
=============================================================================
