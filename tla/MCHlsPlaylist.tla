---------------------------- MODULE MCHlsPlaylist ----------------------------
(* Values for the constants of HlsPlaylist. *)
EXTENDS HlsPlaylist

Rec(t, o, d) == [ts |-> t, offset |-> o, discontinuity |-> d]

\* A segment of one second, a flagged record, and a jump of eleven seconds that is
\* within 10 + 1 but beyond the average after a shorter segment; and a rewind.
MCRecords ==
  {Rec(1, 0, FALSE), Rec(2, 2, FALSE), Rec(2, 2, TRUE), Rec(13, 6, FALSE), Rec(1, 6, FALSE)}

\* All of the stream, and an interval.
MCBounds == {<<MIN, U64MAX>>, <<2, 2>>}

\* Timestamps that go back.
ReplayedRecords == {Rec(3, 0, FALSE), Rec(1, 0, FALSE), Rec(2, 0, FALSE), Rec(4, 0, FALSE)}

ReplayedBounds == {<<2, 3>>}
=============================================================================
