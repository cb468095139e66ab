----------------------------- MODULE MainUpdate -----------------------------
(***************************************************************************)
(* The update of the main board's own program                              *)
(* (dfu_update/update_s3c2416x.c) and the check of its outcome at the next *)
(* start (main.c).  There are two program files; each update rewrites the  *)
(* one the number of updates before it does not name, sets the flags of    *)
(* the update in the environment and reboots.                              *)
(*                                                                         *)
(* The start script (odf_start) is not in the repository: it starts the    *)
(* program last written; while devdfu is set it counts the starts in       *)
(* dfureboottimes, and when they are used up it starts the other one.      *)
(***************************************************************************)
EXTENDS FlashEnv

CONSTANT MaxUpdates   \* bound of the updates of a rack

ASSUME UpdateAssumption ==
  /\ MaxUpdates \in Nat
  /\ Envs = [devdfu : 0..1, dfureboottimes : 0..3, dfutotaltimes : 0..MaxUpdates]

VARIABLES
  file,      \* the program files: how much of each is there, and does it work
  program,   \* the file the program running was started from, 0 for none
  at,        \* where the program is
  dfu_update_result,
  fellBack   \* has the start script ever gone back to the other program

updateVars == <<file, program, at, dfu_update_result, fellBack>>
vars == <<flashVars, updateVars>>

Files == 1..2

TypeOK ==
  /\ FlashTypeOK
  /\ file \in [Files -> [there : {"nothing", "part", "all"}, works : BOOLEAN]]
  /\ program \in 0..2
  /\ at \in {"off", "starting", "clearing", "running", "opening", "writing", "rebooting"}
  /\ dfu_update_result \in 0..1
  /\ fellBack \in BOOLEAN

(* A rack from the factory has run no update; its program is the second.    *)
Init ==
  /\ FlashInit([devdfu |-> 0, dfureboottimes |-> 0, dfutotaltimes |-> 0])
  /\ file = [f \in Files |-> IF f = 2 THEN [there |-> "all", works |-> TRUE]
                             ELSE [there |-> "nothing", works |-> FALSE]]
  /\ program = 0
  /\ at = "off"
  /\ dfu_update_result = 0
  /\ fellBack = FALSE

Odd(n) == n % 2 = 1
Other(f) == 3 - f
(* The file written by the last of n updates, and by the next. *)
LastWritten(n) == IF Odd(n) THEN 1 ELSE 2
NextWritten(n) == IF Odd(n) THEN 2 ELSE 1

(* The flag is set to n, and no start is counted. *)
Flagged(e, n) == [devdfu |-> n, dfureboottimes |-> 0, dfutotaltimes |-> e.dfutotaltimes]

-----------------------------------------------------------------------------
(* The start script. *)
Start ==
  LET e == Found(scheme, copy)
      givenUp == e.devdfu = 1 /\ e.dfureboottimes = 3
      named == LastWritten(e.dfutotaltimes)
  IN  /\ at = "off"
      /\ e # Default
      /\ program' = IF givenUp THEN Other(named) ELSE named
      /\ fellBack' = (fellBack \/ givenUp)
      /\ copy' = IF e.devdfu = 0 \/ givenUp THEN copy
                 ELSE [copy EXCEPT ![Chosen(scheme, copy)].env.dfureboottimes = @ + 1]
      /\ at' = "starting"
      /\ dfu_update_result' = 0
      /\ UNCHANGED <<scheme, image, dev_current, call, file>>

(* Mutant: the count of starts taken for the result. *)
CheckedByCount(e) ==
  /\ e.devdfu = 1
  /\ dfu_update_result' = e.dfureboottimes
  /\ EnvInit(Flagged(e, 0))
  /\ call' = "saving"
  /\ at' = "clearing"

(* main, once its threads run: after the first start of a new program, or   *)
(* the start of the other, the flags are cleared and saved.                 *)
CheckedAfterUpdate(e) ==
  /\ e.devdfu = 1
  /\ dfu_update_result' = IF e.dfureboottimes = 3 THEN 1 ELSE dfu_update_result
  /\ EnvInit(Flagged(e, 0))
  /\ call' = "saving"
  /\ at' = "clearing"

CheckedNormal(e) ==
  /\ e.devdfu = 0
  /\ EnvInit(e)
  /\ call' = "none"
  /\ at' = "running"
  /\ UNCHANGED dfu_update_result

Check ==
  LET e == Found(scheme, copy)
  IN  /\ at = "starting"
      /\ file[program].there = "all" /\ file[program].works
      /\ e # Default
      /\ CheckedAfterUpdate(e) \/ CheckedNormal(e)
      /\ UNCHANGED <<file, program, fellBack>>

Cleared ==
  /\ at = "clearing"
  /\ call \in {"done", "failed"}
  /\ at' = "running"
  /\ UNCHANGED <<flashVars, file, program, dfu_update_result, fellBack>>

-----------------------------------------------------------------------------
(* update_s3c2416x.  The flags are set in memory; the file is removed and   *)
(* opened anew, written packet by packet, and only then is the environment  *)
(* saved, with the number that makes it the program to start.               *)
UpdateStarts ==
  LET e == Found(scheme, copy)
  IN  /\ at = "running"
      /\ e # Default
      /\ e.dfutotaltimes < MaxUpdates
      /\ EnvInit(Flagged(e, 1))
      /\ call' = "none"
      /\ at' = "opening"
      /\ UNCHANGED <<file, program, dfu_update_result, fellBack>>

(* The file this update writes. *)
NextFile == NextWritten(image.env.dfutotaltimes)

(* fopen fails: the routine returns, nothing is saved. *)
OpenFails ==
  /\ at = "opening"
  /\ at' = "running"
  /\ file' \in {file, [file EXCEPT ![NextFile].there = "nothing"]}
  /\ UNCHANGED <<flashVars, program, dfu_update_result, fellBack>>

(* Mutant: the number is raised and saved before the file is written. *)
OpenedSaving ==
  /\ at = "opening"
  /\ at' = "writing"
  /\ file' = [file EXCEPT ![NextFile] = [there |-> "part", works |-> FALSE]]
  /\ image' = [image EXCEPT !.env.dfutotaltimes = @ + 1]
  /\ SaveEnv
  /\ UNCHANGED <<program, dfu_update_result, fellBack>>

Opened ==
  /\ at = "opening"
  /\ at' = "writing"
  /\ file' = [file EXCEPT ![NextFile] = [there |-> "part", works |-> FALSE]]
  /\ UNCHANGED <<flashVars, program, dfu_update_result, fellBack>>

(* Mutant: the number of updates is not raised. *)
WrittenUncounted ==
  /\ at = "writing"
  /\ \E works \in BOOLEAN : file' = [file EXCEPT ![NextFile] = [there |-> "all", works |-> works]]
  /\ UNCHANGED image
  /\ SaveEnv
  /\ at' = "rebooting"
  /\ UNCHANGED <<program, dfu_update_result, fellBack>>

(* Whether the program sent works is not known to the rack. *)
Written ==
  /\ at = "writing"
  /\ \E works \in BOOLEAN : file' = [file EXCEPT ![NextFile] = [there |-> "all", works |-> works]]
  /\ image' = [image EXCEPT !.env.dfutotaltimes = @ + 1]
  /\ SaveEnv
  /\ at' = "rebooting"
  /\ UNCHANGED <<program, dfu_update_result, fellBack>>

SaveGoesOn == SaveStep /\ UNCHANGED updateVars

Down ==
  /\ at' = "off"
  /\ program' = 0
  /\ FlashPowerLost
  /\ UNCHANGED <<file, dfu_update_result, fellBack>>

Reboot == at = "rebooting" /\ call \in {"done", "failed"} /\ Down

(* Power fails, or the watchdog resets a program that does not run. *)
PowerLost == at # "off" /\ Down

Next ==
  \/ Start \/ Check \/ Cleared
  \/ UpdateStarts \/ OpenFails \/ Opened \/ Written
  \/ SaveGoesOn \/ Reboot \/ PowerLost

Spec == Init /\ [][Next]_vars

-----------------------------------------------------------------------------
(* The environment is a store whose saves happen in one step, whatever the  *)
(* steps of flash_io and wherever power fails between them.                 *)
Store == INSTANCE EnvStore WITH
  stored <- Found(scheme, copy),
  wanted <- image.env,
  call <- IF call \in {"erased", "marking"} THEN "saving" ELSE call

SavesAtomically == Store!Spec

(* Wherever power fails, the program the environment in flash names is      *)
(* written to its end: an update leaves it alone until its own program is.  *)
NamedProgramIsWhole ==
  /\ Found(scheme, copy) # Default
  /\ file[LastWritten(Found(scheme, copy).dfutotaltimes)].there = "all"

(* Until a rack has once gone back to its other program, it has a program   *)
(* that works, whatever it is sent and wherever power fails.  (After that   *)
(* the next update removes the very program that is running.)               *)
WorkingProgramRemains ==
  fellBack \/ \E f \in Files : file[f].there = "all" /\ file[f].works

(* An update whose save returned as done is tried: the next start finds its *)
(* flag set, no start counted, and its number naming the file it wrote, not *)
(* the one the rack was running from.                                       *)
UpdateIsTried ==
  at = "rebooting" /\ call = "done" /\ ~fellBack
  => LET e == Found(scheme, copy)
     IN  e.devdfu = 1 /\ e.dfureboottimes = 0 /\ LastWritten(e.dfutotaltimes) # program
=============================================================================
