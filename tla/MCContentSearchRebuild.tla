----------------------- MODULE MCContentSearchRebuild -----------------------
(* The TLC instance of ContentSearchRebuild: all constants come from the   *)
(* configuration.                                                          *)
EXTENDS ContentSearchRebuild, TLC
=============================================================================
