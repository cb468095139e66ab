--------------------------- MODULE MCDfuDownload ---------------------------
(* Instances of DfuDownload. *)
EXTENDS DfuDownload
=============================================================================
