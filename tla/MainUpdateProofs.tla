-------------------------- MODULE MainUpdateProofs --------------------------
(***************************************************************************)
(* The update of the main board, for any number of updates, either kind of *)
(* flash and flag bytes of any width: the environment in flash is saved    *)
(* whole or not at all, and names a program that is whole.                 *)
(***************************************************************************)
EXTENDS MainUpdate, TLAPS

Next1(f) == IF f = FlagMax THEN 0 ELSE f + 1

(* The flags of good copies tell which is newer: on NOR flash not both are  *)
(* obsolete; on NAND the first has odd flags and the second even ones, one  *)
(* apart, also where the byte wraps.                                        *)
FlagsInStep ==
  /\ scheme = "boolean" =>
       /\ copy[0].good => copy[0].flags \in {OBSOLETE, ACTIVE}
       /\ copy[1].good => copy[1].flags \in {OBSOLETE, ACTIVE}
       /\ copy[0].good /\ copy[1].good => copy[0].flags = ACTIVE \/ copy[1].flags = ACTIVE
  /\ scheme = "incremental" =>
       /\ copy[0].good => copy[0].flags % 2 = 1
       /\ copy[1].good => copy[1].flags % 2 = 0
       /\ copy[0].good /\ copy[1].good =>
            copy[1].flags = Next1(copy[0].flags) \/ copy[0].flags = Next1(copy[1].flags)

(* How far a save is, seen from flash. *)
SaveInStep ==
  /\ call \in {"none", "saving"} =>
       /\ dev_current = Chosen(scheme, copy)
       /\ image.flags = copy[dev_current].flags
  /\ call = "erased" =>
       /\ copy[dev_current].good
       /\ ~copy[Target].good
       /\ scheme = "boolean" => image.flags = ACTIVE
       /\ scheme = "incremental" => image.flags = Next1(copy[dev_current].flags)
  /\ call = "marking" =>
       /\ scheme = "boolean"
       /\ copy[dev_current].good
       /\ copy[Target].good
       /\ copy[Target].flags = ACTIVE
       /\ copy[Target].env = image.env
  /\ call = "done" => Found(scheme, copy) = image.env
  /\ call # "off" => image.env \in Envs

FlashInv ==
  /\ FlashTypeOK
  /\ copy[0].good \/ copy[1].good
  /\ \A d \in Devices : copy[d].good => copy[d].env \in Envs
  /\ FlagsInStep
  /\ SaveInStep

-----------------------------------------------------------------------------
(* The flash. *)

(* What a start finds is a good copy. *)
LEMMA ChosenIsGood ==
  ASSUME FlashInv
  PROVE  /\ Chosen(scheme, copy) \in Devices
         /\ copy[Chosen(scheme, copy)].good
         /\ Found(scheme, copy) = copy[Chosen(scheme, copy)].env
         /\ Found(scheme, copy) \in Envs
<1>1. copy[0].good \in BOOLEAN /\ copy[1].good \in BOOLEAN
  BY DEF FlashInv, FlashTypeOK, Devices
<1>2. Chosen(scheme, copy) \in Devices /\ copy[Chosen(scheme, copy)].good
  BY <1>1 DEF FlashInv, Chosen, Devices
<1> QED
  BY <1>2 DEF FlashInv, Found

(* Reading the environment changes nothing in flash. *)
LEMMA EnvInitKeeps ==
  ASSUME FlashInv, NEW e \in Envs, EnvInit(e), call' \in {"none", "saving"}
  PROVE  FlashInv' /\ image'.env = e /\ Found(scheme, copy)' = Found(scheme, copy)
<1> USE ChosenIsGood
<1>1. /\ UNCHANGED <<scheme, copy>>
      /\ dev_current' = Chosen(scheme, copy)
      /\ image' = [flags |-> copy[Chosen(scheme, copy)].flags, env |-> e]
  BY DEF EnvInit
<1>2. FlashTypeOK'
  BY <1>1 DEF FlashInv, FlashTypeOK, AllEnvs
<1>3. FlagsInStep'
  BY <1>1 DEF FlashInv, FlagsInStep
<1>4. SaveInStep'
  BY <1>1 DEF SaveInStep, Chosen, SecondByFlags
<1> QED
  BY <1>1, <1>2, <1>3, <1>4 DEF FlashInv, Found, Chosen, SecondByFlags

(* When power is lost the memory is, and nothing else. *)
LEMMA PowerLostKeeps ==
  ASSUME FlashInv, FlashPowerLost
  PROVE  FlashInv' /\ Found(scheme, copy)' = Found(scheme, copy)
<1>1. call' = "off" /\ UNCHANGED <<scheme, copy, image, dev_current>>
  BY DEF FlashPowerLost
<1>2. FlashTypeOK' /\ FlagsInStep' /\ SaveInStep'
  BY <1>1 DEF FlashInv, FlashTypeOK, FlagsInStep, SaveInStep
<1> QED
  BY <1>1, <1>2 DEF FlashInv, Found, Chosen, SecondByFlags

(* A save that starts. *)
LEMMA SaveStarts ==
  ASSUME FlashInv, call = "none", SaveEnv, NEW e \in Envs, image' = [image EXCEPT !.env = e]
  PROVE  FlashInv' /\ image'.env = e /\ Found(scheme, copy)' = Found(scheme, copy)
<1>1. call' = "saving" /\ UNCHANGED <<scheme, copy, dev_current>>
  BY DEF SaveEnv
<1>2. image'.flags = image.flags /\ image'.env = e /\ image' \in [flags : Flags, env : AllEnvs]
  BY DEF FlashInv, FlashTypeOK, AllEnvs
<1>3. FlashTypeOK' /\ FlagsInStep'
  BY <1>1, <1>2 DEF FlashInv, FlashTypeOK, FlagsInStep
<1>4. SaveInStep'
  BY <1>1, <1>2 DEF FlashInv, SaveInStep, Chosen, SecondByFlags
<1> QED
  BY <1>1, <1>2, <1>3, <1>4 DEF FlashInv, Found, Chosen, SecondByFlags

(* What a step of a save keeps and brings. *)
SaveKeeps ==
  /\ FlashInv'
  /\ image'.env = image.env
  /\ call \in {"saving", "erased", "marking"}
  /\ call' \in {"erased", "marking", "done", "failed"}
  /\ Found(scheme, copy)' \in {Found(scheme, copy), image.env}
  /\ call' = "done" => Found(scheme, copy)' = image.env

(* The copy not in use is erased: the other is found. *)
LEMMA EraseKeeps == ASSUME FlashInv, Erase PROVE SaveKeeps
<1> USE ChosenIsGood
<1> DEFINE d == dev_current
<1>1. /\ call = "saving" /\ call' = "erased"
      /\ UNCHANGED <<scheme, dev_current>>
      /\ copy' = [copy EXCEPT ![Target] = [good |-> FALSE, flags |-> FlagMax, env |-> copy[Target].env]]
      /\ image' = [image EXCEPT !.flags = NextFlags]
  BY DEF Erase
<1>2. /\ d \in {0, 1} /\ Target \in {0, 1} /\ Target # d
      /\ d = Chosen(scheme, copy)
      /\ image.flags = copy[d].flags /\ image.flags \in Flags /\ image.env \in Envs
  BY <1>1 DEF FlashInv, FlashTypeOK, SaveInStep, Target, Devices
<1>3. /\ copy'[d] = copy[d]
      /\ copy'[Target].good = FALSE
      /\ copy' \in [Devices -> [good : BOOLEAN, flags : Flags, env : AllEnvs]]
  BY <1>1, <1>2, FlashAssumption DEF FlashInv, FlashTypeOK, Devices, Flags
<1>4. NextFlags \in Flags
  BY <1>2, FlashAssumption DEF NextFlags, Flags, ACTIVE
<1>5. image' \in [flags : Flags, env : AllEnvs] /\ image'.flags = NextFlags /\ image'.env = image.env
  BY <1>1, <1>4 DEF FlashInv, FlashTypeOK
<1>6. FlashTypeOK'
  BY <1>1, <1>3, <1>5 DEF FlashInv, FlashTypeOK
<1>7. Chosen(scheme, copy)' = d
  BY <1>1, <1>2, <1>3 DEF Chosen
<1>8. Found(scheme, copy)' = Found(scheme, copy)
  BY <1>1, <1>2, <1>3, <1>7 DEF Found
<1>9. FlagsInStep'
  BY <1>1, <1>2, <1>3 DEF FlashInv, FlagsInStep
<1>10. scheme = "incremental" => NextFlags = Next1(copy[d].flags)
  BY <1>2, FlashAssumption DEF NextFlags, Next1
<1>11. SaveInStep'
  BY <1>1, <1>2, <1>3, <1>5, <1>10 DEF SaveInStep, Target, NextFlags, Next1
<1>12. \A x \in Devices : copy'[x].good => copy'[x].env \in Envs
  BY <1>2, <1>3 DEF FlashInv, Devices
<1> QED
  BY <1>1, <1>2, <1>3, <1>5, <1>6, <1>8, <1>9, <1>11, <1>12 DEF FlashInv, SaveKeeps

(* The copy is written, with the flags that make it the newer one. *)
LEMMA WriteCopyKeeps == ASSUME FlashInv, WriteCopy PROVE SaveKeeps
<1> USE ChosenIsGood
<1> DEFINE d == dev_current
<1> DEFINE t == Target
<1>1. /\ call = "erased"
      /\ UNCHANGED <<scheme, image, dev_current>>
      /\ copy' = [copy EXCEPT ![t] = [good |-> TRUE, flags |-> image.flags, env |-> image.env]]
      /\ call' = IF scheme = "boolean" THEN "marking" ELSE "done"
  BY DEF WriteCopy
<1>2. /\ d \in {0, 1} /\ t \in {0, 1} /\ t # d
      /\ copy[d].good /\ ~copy[t].good
      /\ image.flags \in Flags /\ image.env \in Envs /\ copy[d].flags \in Flags
      /\ scheme \in {"boolean", "incremental"}
  BY <1>1, FlashAssumption DEF FlashInv, FlashTypeOK, SaveInStep, Target, Devices
<1>3. /\ copy'[d] = copy[d]
      /\ copy'[t] = [good |-> TRUE, flags |-> image.flags, env |-> image.env]
      /\ copy' \in [Devices -> [good : BOOLEAN, flags : Flags, env : AllEnvs]]
  BY <1>1, <1>2 DEF FlashInv, FlashTypeOK, Devices, AllEnvs
<1>4. FlashTypeOK'
  BY <1>1, <1>3 DEF FlashInv, FlashTypeOK
<1>5. \A x \in Devices : copy'[x].good => copy'[x].env \in Envs
  BY <1>2, <1>3 DEF FlashInv, Devices
<1>6. Found(scheme, copy) = copy[d].env
  BY <1>2 DEF Found, Chosen
<1>7. CASE scheme = "boolean"
  <2>1. image.flags = ACTIVE /\ copy[d].flags \in {OBSOLETE, ACTIVE}
    BY <1>1, <1>2, <1>7 DEF FlashInv, SaveInStep, FlagsInStep
  <2>2. FlagsInStep'
    BY <1>1, <1>2, <1>3, <1>7, <2>1 DEF FlagsInStep, OBSOLETE, ACTIVE
  <2>3. SaveInStep'
    BY <1>1, <1>2, <1>3, <1>7, <2>1 DEF SaveInStep, Target
  <2>4. Found(scheme, copy)' \in {copy[d].env, image.env}
    BY <1>1, <1>2, <1>3 DEF Found, Chosen
  <2> QED
    BY <1>1, <1>2, <1>3, <1>4, <1>5, <1>6, <1>7, <2>2, <2>3, <2>4 DEF FlashInv, SaveKeeps
<1>8. CASE scheme = "incremental"
  <2> DEFINE f == copy[d].flags
  <2>1. image.flags = Next1(f)
    BY <1>1, <1>8 DEF FlashInv, SaveInStep
  <2>2. f \in 0..FlagMax /\ FlagMax \in Nat /\ FlagMax > 1 /\ FlagMax % 2 = 1
    BY <1>2, FlashAssumption DEF Flags
  <2>3. /\ d = 0 => f % 2 = 1 /\ image.flags % 2 = 0
        /\ d = 1 => f % 2 = 0 /\ image.flags % 2 = 1
    <3>1. (d = 0 => f % 2 = 1) /\ (d = 1 => f % 2 = 0)
      BY <1>2, <1>8 DEF FlashInv, FlagsInStep
    <3>2. (f % 2 = 1 => Next1(f) % 2 = 0) /\ (f % 2 = 0 => Next1(f) % 2 = 1)
      BY <2>2 DEF Next1
    <3> QED
      BY <2>1, <3>1, <3>2
  <2>4. FlagsInStep'
    BY <1>1, <1>2, <1>3, <1>8, <2>1, <2>3 DEF FlagsInStep, Next1
  <2>5. Chosen(scheme, copy)' = t
    <3>1. CASE d = 0
      BY <1>1, <1>2, <1>3, <1>8, <2>1, <2>2, <2>3, <3>1 DEF Chosen, SecondByFlags, Next1
    <3>2. CASE d = 1
      <4>1. ~SecondByFlags(scheme, image.flags, f)
        BY <1>8, <2>1, <2>2, <2>3, <3>2 DEF SecondByFlags, Next1
      <4> QED
        BY <1>1, <1>2, <1>3, <3>2, <4>1 DEF Chosen
    <3> QED
      BY <1>2, <3>1, <3>2
  <2>6. Found(scheme, copy)' = image.env
    BY <1>1, <1>2, <1>3, <2>5 DEF Found
  <2>7. SaveInStep'
    BY <1>1, <1>2, <1>8, <2>6 DEF SaveInStep
  <2> QED
    BY <1>1, <1>2, <1>3, <1>4, <1>5, <1>8, <2>4, <2>6, <2>7 DEF FlashInv, SaveKeeps
<1> QED
  BY <1>2, <1>7, <1>8

(* The copy that was in use is marked obsolete. *)
LEMMA MarkObsoleteKeeps == ASSUME FlashInv, MarkObsolete PROVE SaveKeeps
<1> USE ChosenIsGood
<1> DEFINE d == dev_current
<1> DEFINE t == Target
<1>1. /\ call = "marking" /\ call' = "done"
      /\ UNCHANGED <<scheme, image, dev_current>>
      /\ copy' = [copy EXCEPT ![d].flags = OBSOLETE]
  BY DEF MarkObsolete
<1>2. /\ d \in {0, 1} /\ t \in {0, 1} /\ t # d
      /\ scheme = "boolean"
      /\ copy[d].good /\ copy[t].good /\ copy[t].flags = ACTIVE /\ copy[t].env = image.env
      /\ image.env \in Envs
  BY <1>1 DEF FlashInv, FlashTypeOK, SaveInStep, Target, Devices
<1>3. /\ copy'[t] = copy[t]
      /\ copy'[d].good /\ copy'[d].flags = OBSOLETE /\ copy'[d].env = copy[d].env
      /\ copy' \in [Devices -> [good : BOOLEAN, flags : Flags, env : AllEnvs]]
  BY <1>1, <1>2, FlashAssumption DEF FlashInv, FlashTypeOK, Devices, Flags, OBSOLETE
<1>4. FlashTypeOK'
  BY <1>1, <1>3 DEF FlashInv, FlashTypeOK
<1>5. \A x \in Devices : copy'[x].good => copy'[x].env \in Envs
  BY <1>2, <1>3 DEF FlashInv, Devices
<1>6. FlagsInStep'
  BY <1>1, <1>2, <1>3 DEF FlagsInStep
<1>7. Chosen(scheme, copy)' = t
  BY <1>1, <1>2, <1>3, FlashAssumption DEF Chosen, SecondByFlags, OBSOLETE, ACTIVE
<1>8. Found(scheme, copy)' = image.env
  BY <1>1, <1>2, <1>3, <1>7 DEF Found
<1>9. SaveInStep'
  BY <1>1, <1>2, <1>8 DEF SaveInStep
<1> QED
  BY <1>1, <1>2, <1>3, <1>4, <1>5, <1>6, <1>8, <1>9 DEF FlashInv, SaveKeeps

(* A save that fails leaves flash as it is by then. *)
LEMMA FlashFailsKeeps == ASSUME FlashInv, FlashFails PROVE SaveKeeps
<1>1. /\ call \in {"saving", "erased"} /\ call' = "failed"
      /\ UNCHANGED <<scheme, copy, image, dev_current>>
  BY DEF FlashFails
<1>2. FlashTypeOK' /\ FlagsInStep' /\ SaveInStep'
  BY <1>1 DEF FlashInv, FlashTypeOK, FlagsInStep, SaveInStep
<1> QED
  BY <1>1, <1>2 DEF FlashInv, SaveKeeps, Found, Chosen, SecondByFlags

(* Every step of a save finds the old environment or the new one. *)
LEMMA SaveStepKeeps == ASSUME FlashInv, SaveStep PROVE SaveKeeps
BY EraseKeeps, WriteCopyKeeps, MarkObsoleteKeeps, FlashFailsKeeps DEF SaveStep

-----------------------------------------------------------------------------
(* The update. *)

InFlash == Found(scheme, copy)
Named == LastWritten(InFlash.dfutotaltimes)
Works(f) == file[f].there = "all" /\ file[f].works

(* Where the program is, and where its save is. *)
SaveOfStep ==
  /\ at \in {"off", "starting"} => call = "off"
  /\ at \in {"opening", "writing"} => call = "none"
  /\ at = "running" => call \in {"none", "done", "failed"}
  /\ at \in {"clearing", "rebooting"} => call \in {"saving", "erased", "marking", "done", "failed"}

(* What the environment says of the files: in flash, and in memory once it  *)
(* was read for an update or to clear its flags.                            *)
FilesInStep ==
  /\ file[Named].there = "all"
  /\ at # "off" => program \in Files
  /\ at \in {"opening", "writing", "clearing"} => image.env.dfutotaltimes = InFlash.dfutotaltimes
  /\ at \in {"opening", "writing"} => image.env.dfutotaltimes < MaxUpdates
  /\ at = "rebooting" => file[LastWritten(image.env.dfutotaltimes)].there = "all"
  /\ at \in {"opening", "writing", "rebooting"} =>
       image.env.devdfu = 1 /\ image.env.dfureboottimes = 0

(* Until a rack falls back, it runs the program named, and writes the other. *)
ProgramsInStep ==
  ~fellBack =>
    /\ \E f \in Files : Works(f)
    /\ at = "starting" => program = Named
    /\ at \in {"clearing", "running", "opening", "writing"} => program = Named /\ Works(program)
    /\ at = "rebooting" => Works(program) /\ program # LastWritten(image.env.dfutotaltimes)

UpdateTypes ==
  /\ file \in [Files -> [there : {"nothing", "part", "all"}, works : BOOLEAN]]
  /\ program \in 0..2
  /\ at \in {"off", "starting", "clearing", "running", "opening", "writing", "rebooting"}
  /\ dfu_update_result \in 0..1
  /\ fellBack \in BOOLEAN

IInv == FlashInv /\ UpdateTypes /\ SaveOfStep /\ FilesInStep /\ ProgramsInStep

(* The two files are told apart by the parity of the number of updates. *)
LEMMA NextIsOther ==
  ASSUME NEW n \in Nat
  PROVE  /\ LastWritten(n) \in Files /\ NextWritten(n) \in Files
         /\ LastWritten(n) # NextWritten(n)
         /\ LastWritten(n + 1) = NextWritten(n)
BY DEF LastWritten, NextWritten, Odd, Files

(* An environment is a record. *)
LEMMA EnvFields ==
  ASSUME NEW e \in Envs
  PROVE  /\ e.devdfu \in 0..1 /\ e.dfureboottimes \in 0..3
         /\ e.dfutotaltimes \in 0..MaxUpdates /\ e.dfutotaltimes \in Nat
BY UpdateAssumption

(* The environment found names a file. *)
LEMMA NamedIsFile ==
  ASSUME FlashInv
  PROVE  Named \in Files /\ InFlash \in Envs /\ InFlash # Default
<1>1. InFlash \in Envs
  BY ChosenIsGood DEF InFlash
<1> QED
  BY <1>1, EnvFields, NextIsOther, FlashAssumption DEF Named

(* A rack from the factory. *)
LEMMA InitKeeps == Init => IInv
<1> SUFFICES ASSUME Init PROVE IInv
  OBVIOUS
<1> DEFINE e == [devdfu |-> 0, dfureboottimes |-> 0, dfutotaltimes |-> 0]
<1>1. e \in Envs
  BY UpdateAssumption
<1>2. /\ scheme \in Schemes
      /\ copy = [d \in Devices |-> IF d = 0 THEN [good |-> TRUE, flags |-> ACTIVE, env |-> e]
                                   ELSE [good |-> FALSE, flags |-> FlagMax, env |-> e]]
      /\ image = [flags |-> 0, env |-> Default]
      /\ dev_current = 0 /\ call = "off"
      /\ file = [f \in Files |-> IF f = 2 THEN [there |-> "all", works |-> TRUE]
                                  ELSE [there |-> "nothing", works |-> FALSE]]
      /\ program = 0 /\ at = "off" /\ dfu_update_result = 0 /\ fellBack = FALSE
  BY DEF Init, FlashInit
<1>3. copy[0] = [good |-> TRUE, flags |-> ACTIVE, env |-> e]
      /\ copy[1] = [good |-> FALSE, flags |-> FlagMax, env |-> e]
  BY <1>2 DEF Devices
<1>4. FlashTypeOK
  BY <1>1, <1>2, <1>3, FlashAssumption DEF FlashTypeOK, Devices, Flags, AllEnvs, ACTIVE
<1>5. FlagsInStep /\ SaveInStep
  BY <1>2, <1>3 DEF FlagsInStep, SaveInStep, ACTIVE, OBSOLETE
<1>6. FlashInv
  BY <1>1, <1>2, <1>3, <1>4, <1>5 DEF FlashInv, Devices
<1>7. UpdateTypes /\ SaveOfStep
  <2>1. \A f \in Files : file[f] \in [there : {"nothing", "part", "all"}, works : BOOLEAN]
    BY <1>2
  <2>2. file \in [Files -> [there : {"nothing", "part", "all"}, works : BOOLEAN]]
    BY <1>2, <2>1
  <2>3. fellBack \in BOOLEAN
    BY <1>2
  <2>4. program \in 0..2 /\ dfu_update_result \in 0..1
    BY <1>2
  <2>5. SaveOfStep
    BY <1>2 DEF SaveOfStep
  <2> QED
    BY <1>2, <2>2, <2>3, <2>4, <2>5 DEF UpdateTypes
<1>8. Named = 2
  BY <1>3 DEF Named, InFlash, Found, Chosen, LastWritten, Odd
<1>9. Works(2) /\ 2 \in Files
  BY <1>2 DEF Works, Files
<1> QED
  BY <1>2, <1>6, <1>7, <1>8, <1>9 DEF IInv, FilesInStep, ProgramsInStep, Works

(* The start script counts a start, or gives the new program up. *)
LEMMA StartKeeps == ASSUME IInv, Start PROVE IInv'
<1> DEFINE e == Found(scheme, copy)
<1> DEFINE c == Chosen(scheme, copy)
<1> DEFINE givenUp == e.devdfu = 1 /\ e.dfureboottimes = 3
<1> DEFINE counted == [e EXCEPT !.dfureboottimes = @ + 1]
<1>1. /\ at = "off" /\ at' = "starting" /\ call = "off" /\ call' = "off"
      /\ program' = IF givenUp THEN Other(Named) ELSE Named
      /\ fellBack' = (fellBack \/ givenUp)
      /\ dfu_update_result' = 0
      /\ UNCHANGED <<scheme, image, dev_current, call, file>>
  BY DEF IInv, SaveOfStep, Start, Named, InFlash
<1>2. copy' = IF e.devdfu = 0 \/ givenUp THEN copy
              ELSE [copy EXCEPT ![c].env.dfureboottimes = @ + 1]
  BY DEF Start
<1>3. c \in Devices /\ copy[c].good /\ e = copy[c].env /\ e \in Envs
  BY ChosenIsGood DEF IInv
<1>4. copy \in [Devices -> [good : BOOLEAN, flags : Flags, env : AllEnvs]]
  BY DEF IInv, FlashInv, FlashTypeOK
<1>5. \E n \in Envs :
        /\ n.dfutotaltimes = e.dfutotaltimes
        /\ copy' = [copy EXCEPT ![c] = [good |-> copy[c].good, flags |-> copy[c].flags, env |-> n]]
  <2>1. CASE e.devdfu = 0 \/ givenUp
    <3>1. copy[c] = [good |-> copy[c].good, flags |-> copy[c].flags, env |-> e]
      BY <1>3, <1>4
    <3>2. copy' = [copy EXCEPT ![c] = [good |-> copy[c].good, flags |-> copy[c].flags, env |-> e]]
      BY <1>2, <1>3, <1>4, <2>1, <3>1
    <3> QED
      BY <1>3, <3>2
  <2>2. CASE ~(e.devdfu = 0 \/ givenUp)
    <3>1. counted \in Envs /\ counted.dfutotaltimes = e.dfutotaltimes
      BY <1>3, <2>2, UpdateAssumption
    <3>2. copy' = [copy EXCEPT ![c] = [copy[c] EXCEPT !.env = counted]]
      BY <1>2, <1>3, <2>2, Zenon
    <3>3. [copy[c] EXCEPT !.env = counted] = [good |-> copy[c].good, flags |-> copy[c].flags, env |-> counted]
      <4> HIDE DEF counted
      <4>1. copy[c] \in [good : BOOLEAN, flags : Flags, env : AllEnvs]
        BY <1>3, <1>4
      <4> QED
        BY <4>1
    <3> QED
      BY <3>1, <3>2, <3>3
  <2> QED
    BY <2>1, <2>2
<1>6. PICK n \in Envs :
        /\ n.dfutotaltimes = e.dfutotaltimes
        /\ copy' = [copy EXCEPT ![c] = [good |-> copy[c].good, flags |-> copy[c].flags, env |-> n]]
  BY <1>5
<1> HIDE DEF counted
<1>7. /\ copy' \in [Devices -> [good : BOOLEAN, flags : Flags, env : AllEnvs]]
      /\ \A d \in Devices : copy'[d].good = copy[d].good /\ copy'[d].flags = copy[d].flags
      /\ \A d \in Devices : copy'[d].env = IF d = c THEN n ELSE copy[d].env
  BY <1>3, <1>4, <1>6 DEF AllEnvs
<1>8. Chosen(scheme, copy)' = c
  BY <1>1, <1>7 DEF Chosen, Devices
<1>9. Found(scheme, copy)' = n
  BY <1>1, <1>3, <1>7, <1>8 DEF Found, Devices
<1>10. FlashInv'
  <2>1. FlashTypeOK'
    BY <1>1, <1>7 DEF IInv, FlashInv, FlashTypeOK
  <2>2. FlagsInStep'
    BY <1>1, <1>7 DEF IInv, FlashInv, FlagsInStep, Devices
  <2>3. SaveInStep'
    BY <1>1 DEF SaveInStep
  <2> QED
    BY <1>3, <1>7, <2>1, <2>2, <2>3 DEF IInv, FlashInv, Devices
<1>11. Named' = Named /\ Named \in Files
  BY <1>6, <1>9, NamedIsFile DEF IInv, Named, InFlash
<1>12. program' \in Files
  BY <1>1, <1>11 DEF Files, Other
<1>13. UpdateTypes' /\ SaveOfStep' /\ FilesInStep'
  <2>1. UpdateTypes'
    BY <1>1, <1>12 DEF IInv, UpdateTypes, Files
  <2>2. SaveOfStep'
    BY <1>1 DEF SaveOfStep
  <2>3. FilesInStep'
    BY <1>1, <1>11, <1>12 DEF IInv, FilesInStep
  <2> QED
    BY <2>1, <2>2, <2>3
<1>14. ProgramsInStep'
  BY <1>1, <1>11 DEF IInv, ProgramsInStep, Works
<1> QED
  BY <1>10, <1>13, <1>14 DEF IInv

(* The program checks what the environment says of the last update. *)
LEMMA CheckKeeps == ASSUME IInv, Check PROVE IInv'
<1> DEFINE e == Found(scheme, copy)
<1>1. /\ at = "starting"
      /\ Works(program)
      /\ UNCHANGED <<file, program, fellBack>>
      /\ CheckedAfterUpdate(e) \/ CheckedNormal(e)
  BY DEF Check, Works
<1>2. e \in Envs /\ e = InFlash
  BY ChosenIsGood DEF IInv, InFlash
<1>3. \E n \in Envs :
        /\ n.dfutotaltimes = e.dfutotaltimes
        /\ EnvInit(n)
        /\ (call' = "saving" /\ at' = "clearing") \/ (call' = "none" /\ at' = "running")
        /\ dfu_update_result' \in 0..1
  <2>1. CASE CheckedAfterUpdate(e)
    <3> DEFINE n == Flagged(e, 0)
    <3>1. n \in Envs /\ n.dfutotaltimes = e.dfutotaltimes
      BY <1>2, EnvFields, UpdateAssumption DEF Flagged
    <3>2. dfu_update_result' \in 0..1
      BY <2>1 DEF CheckedAfterUpdate, IInv, UpdateTypes
    <3> QED
      BY <2>1, <3>1, <3>2 DEF CheckedAfterUpdate
  <2>2. CASE CheckedNormal(e)
    BY <1>2, <2>2 DEF CheckedNormal, IInv, UpdateTypes
  <2> QED
    BY <1>1, <2>1, <2>2
<1>4. PICK n \in Envs :
        /\ n.dfutotaltimes = e.dfutotaltimes
        /\ EnvInit(n)
        /\ (call' = "saving" /\ at' = "clearing") \/ (call' = "none" /\ at' = "running")
        /\ dfu_update_result' \in 0..1
  BY <1>3
<1>5. FlashInv' /\ image'.env = n /\ InFlash' = InFlash
  BY <1>4, EnvInitKeeps DEF IInv, InFlash
<1>6. Named' = Named
  BY <1>5 DEF Named
<1>7. UpdateTypes' /\ SaveOfStep'
  BY <1>1, <1>4 DEF IInv, UpdateTypes, SaveOfStep
<1>8. FilesInStep'
  BY <1>1, <1>2, <1>4, <1>5, <1>6 DEF IInv, FilesInStep
<1>9. ProgramsInStep'
  BY <1>1, <1>4, <1>6 DEF IInv, ProgramsInStep, Works
<1> QED
  BY <1>5, <1>7, <1>8, <1>9 DEF IInv

(* The flags are cleared, or could not be. *)
LEMMA ClearedKeeps == ASSUME IInv, Cleared PROVE IInv'
<1>1. /\ at = "clearing" /\ call \in {"done", "failed"} /\ at' = "running"
      /\ UNCHANGED <<scheme, copy, image, dev_current, call, file, program, dfu_update_result, fellBack>>
  BY DEF Cleared, flashVars
<1>2. FlashInv' /\ InFlash' = InFlash
  BY <1>1 DEF IInv, FlashInv, FlashTypeOK, FlagsInStep, SaveInStep, InFlash, Found, Chosen, SecondByFlags, Target
<1>3. UpdateTypes' /\ SaveOfStep'
  BY <1>1 DEF IInv, UpdateTypes, SaveOfStep
<1> QED
  BY <1>1, <1>2, <1>3 DEF IInv, FilesInStep, ProgramsInStep, Named, Works

(* An update reads the environment and sets its flags in memory. *)
LEMMA UpdateStartsKeeps == ASSUME IInv, UpdateStarts PROVE IInv'
<1> DEFINE e == Found(scheme, copy)
<1> DEFINE n == Flagged(e, 1)
<1>1. /\ at = "running" /\ at' = "opening" /\ call' = "none"
      /\ e.dfutotaltimes < MaxUpdates
      /\ EnvInit(n)
      /\ UNCHANGED <<file, program, dfu_update_result, fellBack>>
  BY DEF UpdateStarts
<1>2. e \in Envs /\ e = InFlash
  BY ChosenIsGood DEF IInv, InFlash
<1>3. n \in Envs /\ n.dfutotaltimes = e.dfutotaltimes /\ n.devdfu = 1 /\ n.dfureboottimes = 0
  BY <1>2, EnvFields, UpdateAssumption DEF Flagged
<1> HIDE DEF n
<1>4. FlashInv' /\ image'.env = n /\ InFlash' = InFlash
  BY <1>1, <1>3, EnvInitKeeps DEF IInv, InFlash
<1>5. UpdateTypes' /\ SaveOfStep'
  BY <1>1 DEF IInv, UpdateTypes, SaveOfStep
<1>6. FilesInStep'
  BY <1>1, <1>2, <1>3, <1>4 DEF IInv, FilesInStep, Named
<1>7. ProgramsInStep'
  BY <1>1, <1>4 DEF IInv, ProgramsInStep, Named, Works
<1> QED
  BY <1>4, <1>5, <1>6, <1>7 DEF IInv

(* While an update writes, it is not the program named that it touches. *)
LEMMA FilesApart ==
  ASSUME IInv, at \in {"opening", "writing"}
  PROVE  /\ NextFile \in Files
         /\ NextFile # Named
         /\ image.env.dfutotaltimes \in Nat
         /\ image.env.dfutotaltimes + 1 \in 0..MaxUpdates
         /\ LastWritten(image.env.dfutotaltimes + 1) = NextFile
         /\ image.env \in Envs
<1>1. image.env \in Envs /\ image.env.dfutotaltimes < MaxUpdates
  BY DEF IInv, FlashInv, SaveInStep, SaveOfStep, FilesInStep
<1>2. image.env.dfutotaltimes \in 0..MaxUpdates /\ MaxUpdates \in Nat
  BY <1>1, EnvFields, UpdateAssumption
<1>3. image.env.dfutotaltimes = InFlash.dfutotaltimes
  BY DEF IInv, FilesInStep
<1> QED
  BY <1>1, <1>2, <1>3, NextIsOther DEF NextFile, Named

(* An update that touches its file and nothing else. *)
LEMMA FileTouched ==
  ASSUME IInv, at \in {"opening", "writing"},
         NEW r \in [there : {"nothing", "part", "all"}, works : BOOLEAN],
         file' \in {file, [file EXCEPT ![NextFile] = r]},
         UNCHANGED <<flashVars, program, dfu_update_result, fellBack>>,
         at' = "writing" \/ at' = "running"
  PROVE  IInv'
<1>1. UNCHANGED <<scheme, copy, image, dev_current, call>>
  BY DEF flashVars
<1>2. FlashInv' /\ InFlash' = InFlash /\ Named' = Named
  BY <1>1 DEF IInv, FlashInv, FlashTypeOK, FlagsInStep, SaveInStep, InFlash, Found, Chosen,
     SecondByFlags, Target, Named
<1>3. NextFile \in Files /\ NextFile # Named /\ Named \in Files
  BY FilesApart, NamedIsFile DEF IInv
<1>4. /\ file' \in [Files -> [there : {"nothing", "part", "all"}, works : BOOLEAN]]
      /\ file'[Named] = file[Named]
  BY <1>3 DEF IInv, UpdateTypes
<1>5. UpdateTypes' /\ SaveOfStep'
  BY <1>1, <1>4 DEF IInv, UpdateTypes, SaveOfStep
<1>6. FilesInStep'
  BY <1>1, <1>2, <1>4 DEF IInv, FilesInStep
<1>7. ProgramsInStep'
  <2>1. ~fellBack => program = Named /\ Works(program)
    BY DEF IInv, ProgramsInStep
  <2>2. ~fellBack => program' = Named' /\ Works(program)'
    BY <1>2, <1>4, <2>1 DEF Works
  <2> QED
    BY <1>2, <1>3, <2>2 DEF ProgramsInStep
<1> QED
  BY <1>2, <1>5, <1>6, <1>7 DEF IInv

(* The file cannot be opened. *)
LEMMA OpenFailsKeeps == ASSUME IInv, OpenFails PROVE IInv'
<1> DEFINE r == [file[NextFile] EXCEPT !.there = "nothing"]
<1>1. at = "opening" /\ NextFile \in Files
  BY FilesApart DEF OpenFails
<1>2. file[NextFile] \in [there : {"nothing", "part", "all"}, works : BOOLEAN]
  BY <1>1 DEF IInv, UpdateTypes
<1>3. r \in [there : {"nothing", "part", "all"}, works : BOOLEAN]
  BY <1>2
<1>4. file' \in {file, [file EXCEPT ![NextFile] = r]}
  BY DEF OpenFails
<1> HIDE DEF r
<1> QED
  BY <1>1, <1>3, <1>4, FileTouched DEF OpenFails

(* The file is opened anew. *)
LEMMA OpenedKeeps == ASSUME IInv, Opened PROVE IInv'
<1> DEFINE r == [there |-> "part", works |-> FALSE]
<1>1. r \in [there : {"nothing", "part", "all"}, works : BOOLEAN]
  OBVIOUS
<1> QED
  BY <1>1, FileTouched DEF Opened

(* The file is written to its end; the save of its number starts. *)
LEMMA WrittenKeeps == ASSUME IInv, Written PROVE IInv'
<1> DEFINE n == [image.env EXCEPT !.dfutotaltimes = @ + 1]
<1>1. PICK works \in BOOLEAN : file' = [file EXCEPT ![NextFile] = [there |-> "all", works |-> works]]
  BY DEF Written
<1>2. /\ at = "writing" /\ at' = "rebooting" /\ SaveEnv
      /\ UNCHANGED <<program, dfu_update_result, fellBack>>
  BY DEF Written
<1>3. call = "none"
  BY <1>2 DEF IInv, SaveOfStep
<1>4. image.env.devdfu = 1 /\ image.env.dfureboottimes = 0
  BY <1>2 DEF IInv, FilesInStep
<1>5. /\ n \in Envs /\ n.dfutotaltimes = image.env.dfutotaltimes + 1
      /\ n.devdfu = 1 /\ n.dfureboottimes = 0
  BY <1>2, <1>4, FilesApart, UpdateAssumption
<1>6. image' = [image EXCEPT !.env = n]
  BY Zenon DEF Written
<1> HIDE DEF n
<1>7. FlashInv' /\ image'.env = n /\ InFlash' = InFlash /\ Named' = Named
  BY <1>2, <1>3, <1>5, <1>6, SaveStarts DEF IInv, InFlash, Named
<1>8. /\ NextFile \in Files /\ NextFile # Named /\ Named \in Files
      /\ LastWritten(image'.env.dfutotaltimes) = NextFile
  BY <1>2, <1>5, <1>7, FilesApart, NamedIsFile DEF IInv
<1>9. [there |-> "all", works |-> works] \in [there : {"nothing", "part", "all"}, works : BOOLEAN]
  BY <1>1
<1>10. /\ file' \in [Files -> [there : {"nothing", "part", "all"}, works : BOOLEAN]]
       /\ file'[Named] = file[Named]
       /\ file'[NextFile].there = "all"
  BY <1>1, <1>8, <1>9 DEF IInv, UpdateTypes
<1>11. UpdateTypes' /\ SaveOfStep'
  BY <1>2, <1>10 DEF IInv, UpdateTypes, SaveOfStep, SaveEnv
<1>12. FilesInStep'
  BY <1>2, <1>5, <1>7, <1>8, <1>10 DEF IInv, FilesInStep
<1>13. ProgramsInStep'
  <2>1. ~fellBack => program = Named /\ Works(program)
    BY <1>2 DEF IInv, ProgramsInStep
  <2>2. ~fellBack => Works(program)' /\ program' = Named
    BY <1>2, <1>10, <2>1 DEF Works
  <2> QED
    BY <1>2, <1>7, <1>8, <2>2 DEF ProgramsInStep
<1> QED
  BY <1>7, <1>11, <1>12, <1>13 DEF IInv

(* A save goes on: what is found names the file it named, or the one just   *)
(* written, or the same file with its flags cleared.                        *)
LEMMA SaveGoesOnKeeps == ASSUME IInv, SaveGoesOn PROVE IInv'
<1>1. UNCHANGED <<file, program, at, dfu_update_result, fellBack>> /\ SaveStep
  BY DEF SaveGoesOn, updateVars
<1>2. SaveKeeps
  BY <1>1, SaveStepKeeps DEF IInv
<1>3. FlashInv' /\ image'.env = image.env /\ InFlash' \in {InFlash, image.env}
  BY <1>2 DEF SaveKeeps, InFlash
<1>4. at \in {"clearing", "rebooting"}
  BY <1>2 DEF SaveKeeps, IInv, SaveOfStep, UpdateTypes
<1>5. UpdateTypes' /\ SaveOfStep'
  BY <1>1, <1>2, <1>4 DEF IInv, UpdateTypes, SaveOfStep, SaveKeeps
<1>6. CASE at = "clearing"
  <2>1. Named' = Named /\ InFlash'.dfutotaltimes = InFlash.dfutotaltimes
    BY <1>3, <1>6 DEF IInv, FilesInStep, Named
  <2> QED
    BY <1>1, <1>3, <1>5, <1>6, <2>1 DEF IInv, FilesInStep, ProgramsInStep, Works
<1>7. CASE at = "rebooting"
  BY <1>1, <1>3, <1>5, <1>7 DEF IInv, FilesInStep, ProgramsInStep, Works, Named
<1> QED
  BY <1>4, <1>6, <1>7

(* The board goes down. *)
LEMMA DownKeeps == ASSUME IInv, Down PROVE IInv'
<1>1. /\ at' = "off" /\ program' = 0 /\ call' = "off"
      /\ UNCHANGED <<file, dfu_update_result, fellBack>>
  BY DEF Down, FlashPowerLost
<1>2. FlashInv' /\ InFlash' = InFlash /\ Named' = Named
  BY PowerLostKeeps DEF IInv, Down, InFlash, Named
<1>3. UpdateTypes' /\ SaveOfStep'
  BY <1>1 DEF IInv, UpdateTypes, SaveOfStep
<1> QED
  BY <1>1, <1>2, <1>3 DEF IInv, FilesInStep, ProgramsInStep, Works

(* Every step keeps the invariant. *)
LEMMA StepKeeps == ASSUME IInv, [Next]_vars PROVE IInv'
<1>1. CASE Next
  BY <1>1, StartKeeps, CheckKeeps, ClearedKeeps, UpdateStartsKeeps, OpenFailsKeeps, OpenedKeeps,
     WrittenKeeps, SaveGoesOnKeeps, DownKeeps DEF Next, Reboot, PowerLost
<1>2. CASE UNCHANGED vars
  <2>1. UNCHANGED <<scheme, copy, image, dev_current, call, file, program, at,
                    dfu_update_result, fellBack>>
    BY <1>2 DEF vars, flashVars, updateVars
  <2>2. FlashInv' /\ InFlash' = InFlash /\ Named' = Named
    BY <2>1 DEF IInv, FlashInv, FlashTypeOK, FlagsInStep, SaveInStep, InFlash, Found, Chosen,
       SecondByFlags, Target, Named
  <2> QED
    BY <2>1, <2>2 DEF IInv, UpdateTypes, SaveOfStep, FilesInStep, ProgramsInStep, Works
<1> QED
  BY <1>1, <1>2

(* The invariant holds. *)
LEMMA IInvCorrect == Spec => []IInv
BY InitKeeps, StepKeeps, PTL DEF Spec

(* Every variable keeps to its values; so the environment in flash never    *)
(* becomes the one compiled in, whose update variables do not exist.        *)
THEOREM MainTypeCorrect == Spec => []TypeOK
<1>1. IInv => TypeOK
  BY DEF IInv, FlashInv, UpdateTypes, TypeOK
<1> QED
  BY <1>1, IInvCorrect, PTL

(* The program named in flash is whole, wherever power fails. *)
THEOREM NamedWholeCorrect == Spec => []NamedProgramIsWhole
<1>1. IInv => NamedProgramIsWhole
  BY NamedIsFile DEF IInv, FilesInStep, NamedProgramIsWhole, Named, InFlash
<1> QED
  BY <1>1, IInvCorrect, PTL

(* Until a rack has fallen back once, one program works. *)
THEOREM WorkingRemainsCorrect == Spec => []WorkingProgramRemains
<1>1. IInv => WorkingProgramRemains
  BY DEF IInv, ProgramsInStep, WorkingProgramRemains, Works
<1> QED
  BY <1>1, IInvCorrect, PTL

(* An update that was saved is tried. *)
THEOREM UpdateTriedCorrect == Spec => []UpdateIsTried
<1>1. IInv => UpdateIsTried
  BY DEF IInv, FlashInv, SaveInStep, FilesInStep, ProgramsInStep, UpdateIsTried, Named, InFlash
<1> QED
  BY <1>1, IInvCorrect, PTL

-----------------------------------------------------------------------------
(* The environment as a store. *)

(* A start may count itself in the environment, in one write. *)
LEMMA StartIsCounted == ASSUME IInv, Start PROVE Store!Counted
<1>1. call = "off" /\ call' = "off"
  BY DEF Start, IInv, SaveOfStep
<1>2. FlashInv'
  BY StartKeeps DEF IInv
<1>3. Found(scheme, copy)' \in Envs
  BY <1>2 DEF FlashInv, FlashTypeOK, Found, Chosen, Devices
<1> QED
  BY <1>1, <1>3 DEF Store!Counted

(* Reading it, changing it and handing it over changes nothing in flash. *)
LEMMA CheckIsEdit == ASSUME IInv, Check PROVE Store!Edit
<1> DEFINE e == Found(scheme, copy)
<1>1. call = "off" /\ e \in Envs
  BY ChosenIsGood DEF Check, IInv, SaveOfStep
<1>2. call' \in {"none", "saving"} /\ UNCHANGED <<scheme, copy>>
  BY DEF Check, CheckedAfterUpdate, CheckedNormal, EnvInit
<1> QED
  BY <1>1, <1>2 DEF Store!Edit, Found, Chosen, SecondByFlags

(* An update reads the environment and changes it in memory. *)
LEMMA UpdateStartsIsEdit == ASSUME IInv, UpdateStarts PROVE Store!Edit
<1>1. call \in {"none", "done", "failed"} /\ call' = "none" /\ UNCHANGED <<scheme, copy>>
  BY DEF UpdateStarts, EnvInit, IInv, SaveOfStep
<1> QED
  BY <1>1 DEF Store!Edit, Found, Chosen, SecondByFlags

(* The number of the update is handed over to be saved. *)
LEMMA WrittenIsEdit == ASSUME IInv, Written PROVE Store!Edit
<1>1. call = "none" /\ call' = "saving" /\ UNCHANGED <<scheme, copy>>
  BY DEF Written, SaveEnv, IInv, SaveOfStep
<1> QED
  BY <1>1 DEF Store!Edit, Found, Chosen, SecondByFlags

(* Each step of a save is a save that has happened, or not yet. *)
LEMMA SaveIsSave == ASSUME IInv, SaveGoesOn PROVE Store!Save
<1>1. SaveKeeps
  BY SaveStepKeeps DEF IInv, SaveGoesOn
<1> QED
  BY <1>1 DEF SaveKeeps, Store!Save

(* Going down leaves what is stored. *)
LEMMA DownIsPowerLost == ASSUME IInv, Down PROVE Store!PowerLost
<1>1. call' = "off" /\ UNCHANGED <<scheme, copy>>
  BY DEF Down, FlashPowerLost
<1> QED
  BY <1>1 DEF Store!PowerLost, Found, Chosen, SecondByFlags

(* Steps away from flash and its copy in memory. *)
LEMMA QuietStep ==
  ASSUME UNCHANGED <<scheme, copy, image, call>>
  PROVE  UNCHANGED Store!storeVars
BY DEF Store!storeVars, Found, Chosen, SecondByFlags

(* Every step is a step of the store, or none. *)
LEMMA StoreStep == ASSUME IInv, [Next]_vars PROVE [Store!Next]_(Store!storeVars)
<1>1. CASE Start
  BY <1>1, StartIsCounted DEF Store!Next
<1>2. CASE Check
  BY <1>2, CheckIsEdit DEF Store!Next
<1>3. CASE UpdateStarts
  BY <1>3, UpdateStartsIsEdit DEF Store!Next
<1>4. CASE Written
  BY <1>4, WrittenIsEdit DEF Store!Next
<1>5. CASE SaveGoesOn
  BY <1>5, SaveIsSave DEF Store!Next
<1>6. CASE Reboot \/ PowerLost
  BY <1>6, DownIsPowerLost DEF Store!Next, Reboot, PowerLost
<1>7. CASE Cleared \/ OpenFails \/ Opened
  BY <1>7, QuietStep DEF Cleared, OpenFails, Opened, flashVars
<1>8. CASE UNCHANGED vars
  BY <1>8, QuietStep DEF vars, flashVars
<1> QED
  BY <1>1, <1>2, <1>3, <1>4, <1>5, <1>6, <1>7, <1>8 DEF Next

(* Whatever fails between the erasing, the writing and the marking of the   *)
(* copies, the environment is saved in one step or not at all, and a save   *)
(* that returns as done has happened.                                       *)
THEOREM StoreImplemented == Spec => SavesAtomically
<1>1. Init => Store!Init
  <2> SUFFICES ASSUME Init PROVE Store!Init
    OBVIOUS
  <2>1. IInv
    BY InitKeeps
  <2>2. Found(scheme, copy) \in Envs
    BY <2>1, ChosenIsGood DEF IInv
  <2>3. call = "off"
    BY DEF Init, FlashInit
  <2> QED
    BY <2>2, <2>3 DEF Store!Init
<1>2. IInv /\ [Next]_vars => [Store!Next]_(Store!storeVars)
  BY StoreStep
<1> QED
  BY <1>1, <1>2, IInvCorrect, PTL DEF Spec, SavesAtomically, Store!Spec
=============================================================================
