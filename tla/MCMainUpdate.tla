---------------------------- MODULE MCMainUpdate ----------------------------
(* Instances of MainUpdate. *)
EXTENDS MainUpdate
MCEnvs == [devdfu : 0..1, dfureboottimes : 0..3, dfutotaltimes : 0..MaxUpdates]
=============================================================================
