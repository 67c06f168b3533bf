----------------------------- MODULE MCMediaPath -----------------------------
(* Values for the constants of MediaPath. *)
EXTENDS MediaPath

\* Nothing, the most that fits, and too much.
MCPayloads == {<<>>, <<9>>, <<9, 8>>}

\* A first key frame, and a delta unit forced into the index.  Events that are not
\* indexed are those without a timestamp.
MCFlagSets ==
  {[include_in_index |-> TRUE, random_access |-> TRUE, discontinuity |-> TRUE],
   [include_in_index |-> TRUE, random_access |-> FALSE, discontinuity |-> FALSE]}
=============================================================================
