-------------------------- MODULE MCAccountAccess --------------------------
(* The TLC instance of AccountAccess.  Users and requests are              *)
(* interchangeable.                                                        *)
EXTENDS AccountAccess, TLC

Symmetry == Permutations(Users) \cup Permutations(Requests)
=============================================================================
