-------------------------- MODULE MCTruncateStream --------------------------
(* Values for the constants of TruncateStream. *)
EXTENDS TruncateStream, TLC

\* The runs of the tool are alike.
ToolSymmetry == Permutations(Searchers)
=============================================================================
