----------------------- MODULE MCCommentTargetOutbox -----------------------
(* TLC instances of CommentTargetOutbox.                                     *)
EXTENDS CommentTargetOutbox, TLC

Symmetry == Permutations(Targets) \cup Permutations(Drains)
=============================================================================
