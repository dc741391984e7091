----------------------------- MODULE MCPolicyLoop -----------------------------
(***************************************************************************)
(* PolicyLoop for TLC: two processes, of one game that is restarted or of  *)
(* two games, with the default thresholds of PolicyThresholds.             *)
(***************************************************************************)
EXTENDS PolicyLoop, TLC

CONSTANTS p1, p2

MCThresholds == [tight |-> 5, adequate |-> 15, comfortable |-> 30]
TwoGames == [p \in {p1, p2} |-> IF p = p1 THEN 1 ELSE 2]
HandleSymmetry == Permutations(Handles)
OneGame == [p \in {p1, p2} |-> 1]
=============================================================================
