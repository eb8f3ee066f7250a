------------------------- MODULE MCPostNotification -------------------------
(* TLC instances of PostNotification.                                      *)
EXTENDS PostNotification, TLC

Symmetry == Permutations(Requests) \cup Permutations(Consumers)
=============================================================================
