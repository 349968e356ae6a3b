--------------------------- MODULE MCImageDownload ---------------------------
(* Instances of ImageDownload for TLC: all constants are given in the cfg. *)
EXTENDS ImageDownload
=============================================================================
