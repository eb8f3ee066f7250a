------------------------- MODULE MCContentAutosave -------------------------
(* The TLC instance of ContentAutosave: all constants come from the        *)
(* configuration.                                                          *)
EXTENDS ContentAutosave, TLC
=============================================================================
