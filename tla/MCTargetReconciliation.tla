----------------------- MODULE MCTargetReconciliation -----------------------
(* TLC instances of TargetReconciliation.  Nothing in it orders requests,    *)
(* operation ids or comments.                                                *)
EXTENDS TargetReconciliation, TLC

Symmetry ==
  Permutations(Workers) \cup Permutations(Operations) \cup Permutations(Comments)
=============================================================================
