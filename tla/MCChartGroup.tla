---------------------------- MODULE MCChartGroup ----------------------------
(* Instances of ChartGroup for TLC. *)
EXTENDS ChartGroup, TLC

CONSTANTS c1, c2, c3, g1, g2

ChartSymmetry == Permutations(Charts)
MemberSymmetry == Permutations(Charts) \cup Permutations(Groups)
=============================================================================
