------------------------------ MODULE EnvStore ------------------------------
(***************************************************************************)
(* What the environment promises whoever keeps flags in it: a save happens *)
(* in one step; when power or flash fail it may not have happened at all,  *)
(* but never in part; and when it returns as done, the next start finds    *)
(* what was saved.                                                         *)
(***************************************************************************)
CONSTANT Envs

VARIABLES
  stored,   \* the environment the next start will find
  wanted,   \* the environment in memory
  call      \* how far the program is with saving

storeVars == <<stored, wanted, call>>

Init == stored \in Envs /\ call = "off"

(* Read, changed in memory, handed over to be saved. *)
Edit ==
  /\ call # "saving"
  /\ call' \in {"none", "saving"}
  /\ UNCHANGED stored

Save ==
  /\ call = "saving"
  /\ call' \in {"saving", "done", "failed"}
  /\ stored' \in {stored, wanted}
  /\ call' = "done" => stored' = wanted
  /\ UNCHANGED wanted

PowerLost == call' = "off" /\ UNCHANGED stored

(* Before the program runs the start script may count a start. *)
Counted == call = "off" /\ call' = "off" /\ stored' \in Envs

Next == Edit \/ Save \/ PowerLost \/ Counted

Spec == Init /\ [][Next]_storeVars
=============================================================================
