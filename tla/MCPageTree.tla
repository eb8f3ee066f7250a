----------------------------- MODULE MCPageTree -----------------------------
(* The TLC instance of PageTree.  Pages and requests are interchangeable.  *)
EXTENDS PageTree, TLC

Symmetry == Permutations(Pages) \cup Permutations(Requests)
=============================================================================
