--------------------------- MODULE MCMediaUpload ---------------------------
(* TLC instance of MediaUpload.  Uploads only share the requests and the   *)
(* cleaners, which treat every key alike: one upload meets every race.     *)
EXTENDS MediaUpload, TLC
=============================================================================
