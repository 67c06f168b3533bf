---------------------------- MODULE MCIndexSearch ----------------------------
(* Values for the constants of IndexSearch. *)
EXTENDS IndexSearch

\* The searched timestamps: None, MIN, and those below, between, at and above
\* the records' timestamps 2 and 4 (and 3).
WantedTimes == {-1} \cup 0 .. 5
=============================================================================
