------------------------------ MODULE DfuUnits ------------------------------
(***************************************************************************)
(* What the two updates over the line share (include/dfu_update.h): the    *)
(* codes, and what an interface board or a unit board, which are external, *)
(* does in its update.  Started, it enters its boot loader and says so;    *)
(* it says which packet it has written; told to, it restarts and says how  *)
(* that went.  The poll thread fetches what it says and answers it before  *)
(* the handler runs; a command is sent up to three times and then either   *)
(* was heard and answered, or was not heard.                               *)
(***************************************************************************)
EXTENDS Integers, FiniteSets

UPDATE_DONE == 0
UPDATE_NOW == 5
UPDATE_FAIL == 3

STAGE1_DEVICE_STARTUP == 1
STAGE2_WRITING_NFLASH == 2
STAGE3_DEVICE_RESTART == 3

(* A report: the stage, and the packet, refusal or result it carries. *)
Report(stage, n) == [stage |-> stage, n |-> n]
Nothing == Report(0, 0)

(* Counters are unsigned chars. *)
Byte == 0..255
OneLess(n) == (n + 255) % 256
Less(n, k) == (n - k) % 256

(* What a unit runs, of the file of the update it is in. *)
Programs == {"old", "refused", "part", "new"}

(* The units of one update: which are in it, and what is known of each.    *)
NoUnits(Units) ==
  [update |-> UPDATE_DONE, update_result |-> 0, total_update_nums |-> 0,
   updating_index |-> 0,
   updating |-> [u \in Units |-> 0],
   updating_status |-> [u \in Units |-> 0],
   updating_result |-> [u \in Units |-> 0]]

(* find_which_..., verify_update_finished_or_not: still to be updated. *)
Pending(s) ==
  {u \in DOMAIN s.updating : s.updating[u] = UPDATE_NOW /\ s.updating_status[u] = UPDATE_NOW}

(* Mutant: a failure of any but the first unit is not seen. *)
VerdictOfFirst(s) ==
  [NoUnits(DOMAIN s.updating) EXCEPT !.update_result =
    IF 1 \in DOMAIN s.updating /\ s.updating_result[1] = UPDATE_FAIL THEN 1 ELSE 0]

(* filling_data_and_send_to_webmaster: everything is cleared but the       *)
(* result, which is bad when a unit of the update has failed.              *)
Verdict(s) ==
  [NoUnits(DOMAIN s.updating) EXCEPT !.update_result =
    IF \E u \in DOMAIN s.updating :
         s.updating[u] = UPDATE_NOW /\ s.updating_result[u] = UPDATE_FAIL
    THEN 1 ELSE 0]

UnitRecords(Units) ==
  [update : {UPDATE_DONE, UPDATE_NOW}, update_result : {0, 1, UPDATE_FAIL},
   total_update_nums : Byte, updating_index : Units \cup {0},
   updating : [Units -> {0, UPDATE_NOW}],
   updating_status : [Units -> {UPDATE_DONE, UPDATE_NOW}],
   updating_result : [Units -> {0, UPDATE_NOW, UPDATE_FAIL}]]
=============================================================================
