-------------------------- MODULE MCJianeiBatchRack --------------------------
(* The instances of MCJianeiBatch with boards and worker. *)
EXTENDS MCJianeiBatch, JianeiBatchRack
(* No guard and no property of PatientSpec reads the lamp, the single order *)
(* or what the step before transmitted.                                    *)
WithoutLamp == <<batch, ends, entires, uploads, alive, holder, results, used,
                 watched, plugged, due>>
=============================================================================
