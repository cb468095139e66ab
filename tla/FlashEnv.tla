------------------------------ MODULE FlashEnv ------------------------------
(***************************************************************************)
(* The environment in flash (env/fw_env.c): two copies, each with a        *)
(* checksum and a flag byte that is not under the checksum.  A save writes *)
(* the copy that is not in use.  Erasing, writing and marking the other    *)
(* copy obsolete are separate steps, and power may fail between any two.   *)
(***************************************************************************)
EXTENDS Naturals

CONSTANTS
  Envs,      \* environments that have the variables of an update
  Default,   \* the environment compiled in, which has none of them
  Schemes,   \* "boolean" on NOR flash, "incremental" on NAND
  FlagMax    \* 255: the largest flag byte, and the one of erased flash

ASSUME FlashAssumption ==
  /\ Default \notin Envs
  /\ Schemes \subseteq {"boolean", "incremental"}
  /\ FlagMax \in Nat
  /\ FlagMax > 1
  /\ FlagMax % 2 = 1

OBSOLETE == 0
ACTIVE == 1

VARIABLES
  scheme,       \* flag_scheme: of the flash the rack has
  copy,         \* the two copies in flash; good: the checksum is right
  image,        \* the copy in memory
  dev_current,  \* the copy that was read into it
  call          \* how far fw_saveenv is

flashVars == <<scheme, copy, image, dev_current, call>>

Devices == 0..1
Flags == 0..FlagMax
AllEnvs == Envs \cup {Default}

FlashTypeOK ==
  /\ scheme \in Schemes
  /\ copy \in [Devices -> [good : BOOLEAN, flags : Flags, env : AllEnvs]]
  /\ image \in [flags : Flags, env : AllEnvs]
  /\ dev_current \in Devices
  /\ call \in {"none", "saving", "erased", "marking", "done", "failed", "off"}

FlashInit(e) ==
  /\ scheme \in Schemes
  /\ copy = [d \in Devices |-> IF d = 0 THEN [good |-> TRUE, flags |-> ACTIVE, env |-> e]
                               ELSE [good |-> FALSE, flags |-> FlagMax, env |-> e]]
  /\ image = [flags |-> 0, env |-> Default]
  /\ dev_current = 0
  /\ call = "off"

(* Mutant: the flag byte is taken for a number that never wraps. *)
SecondByCount(s, f0, f1) ==
  IF s = "boolean"
  THEN \/ f0 = OBSOLETE /\ f1 = ACTIVE
       \/ f0 # FlagMax /\ f1 = FlagMax
  ELSE f1 > f0

(* Which of two good copies is the newer one, from the flags. *)
SecondByFlags(s, f0, f1) ==
  IF s = "boolean"
  THEN \/ f0 = OBSOLETE /\ f1 = ACTIVE
       \/ f0 # FlagMax /\ f1 = FlagMax
  ELSE \/ f0 = FlagMax /\ f1 = 0
       \/ f1 > f0

Chosen(s, c) ==
  IF c[1].good /\ (c[0].good => SecondByFlags(s, c[0].flags, c[1].flags)) THEN 1 ELSE 0

(* With neither checksum right, the environment compiled in is taken. *)
Found(s, c) == IF c[0].good \/ c[1].good THEN c[Chosen(s, c)].env ELSE Default

(* env_init; e: what was found, with the variables the caller sets at once. *)
EnvInit(e) ==
  /\ dev_current' = Chosen(scheme, copy)
  /\ image' = [flags |-> copy[Chosen(scheme, copy)].flags, env |-> e]
  /\ UNCHANGED <<scheme, copy>>

Target == 1 - dev_current

-----------------------------------------------------------------------------
(* fw_saveenv.  The erased copy has no right checksum until it is written.  *)
SaveEnv == call' = "saving" /\ UNCHANGED <<scheme, copy, dev_current>>

(* The flag byte is an unsigned char: it wraps. *)
NextFlags ==
  IF scheme = "boolean" THEN ACTIVE
  ELSE IF image.flags = FlagMax THEN 0 ELSE image.flags + 1

Erase ==
  /\ call = "saving"
  /\ image' = [image EXCEPT !.flags = NextFlags]
  /\ call' = "erased"
  /\ copy' = [copy EXCEPT ![Target] = [good |-> FALSE, flags |-> FlagMax, env |-> @.env]]
  /\ UNCHANGED <<scheme, dev_current>>

WriteCopy ==
  /\ call = "erased"
  /\ copy' = [copy EXCEPT ![Target] = [good |-> TRUE, flags |-> image.flags, env |-> image.env]]
  /\ call' = IF scheme = "boolean" THEN "marking" ELSE "done"
  /\ UNCHANGED <<scheme, image, dev_current>>

(* On NOR flash the copy that was in use is then marked obsolete. *)
MarkObsolete ==
  /\ call = "marking"
  /\ copy' = [copy EXCEPT ![dev_current].flags = OBSOLETE]
  /\ call' = "done"
  /\ UNCHANGED <<scheme, image, dev_current>>

(* The erase or the write fails: fw_saveenv returns -1. *)
FlashFails ==
  /\ call \in {"saving", "erased"}
  /\ call' = "failed"
  /\ UNCHANGED <<scheme, copy, image, dev_current>>

SaveStep == Erase \/ WriteCopy \/ MarkObsolete \/ FlashFails

FlashPowerLost ==
  /\ call' = "off"
  /\ UNCHANGED <<scheme, copy, image, dev_current>>
=============================================================================
