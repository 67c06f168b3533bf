---------------------------- MODULE MCPravegaSrc ----------------------------
(* Values for the constants of PravegaSrc. *)
EXTENDS PravegaSrc

\* A key frame and the final record of a session.
MCRecords ==
  {[ts |-> 1, offset |-> 0, random_access |-> TRUE],
   [ts |-> 2, offset |-> 2, random_access |-> FALSE]}

Setting(s, e) == [stream |-> TRUE, start_mode |-> s, end_mode |-> e,
                  start_timestamp |-> 2, end_timestamp |-> 2]

\* Every end-mode once; the first two are one property apart.
MCSettings ==
  {Setting("no-seek", "latest"), Setting("no-seek", "unbounded"),
   Setting("latest", "latest-indexed"), Setting("timestamp", "timestamp")}
=============================================================================
