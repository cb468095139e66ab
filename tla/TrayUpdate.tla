----------------------------- MODULE TrayUpdate -----------------------------
(***************************************************************************)
(* The update of the unit boards (dfu_update/update_cf8051.c): a frame has *)
(* one interface board and up to six trays with a unit board each, updated *)
(* one after the other.  The report comes from the frame; the tray is the  *)
(* one the rack has started last.                                          *)
(*                                                                         *)
(* Left out as in BoardUpdate: commands heard but not answered, reports    *)
(* given twice.                                                            *)
(***************************************************************************)
EXTENDS DfuUnits

CONSTANTS
  NTrays,        \* trays of the rack
  TraysInFrame,  \* 6
  Unheard        \* the commands the line may lose: "startup", "first", "packet"

ASSUME TrayAssumption ==
  /\ NTrays \in 1..48
  /\ TraysInFrame \in 1..6
  /\ Unheard \subseteq {"startup", "first", "packet"}

VARIABLES
  cf8051,
  traySays,    \* external: what each tray is about to report
  trayRuns,    \* external: the program each tray has
  unanswered   \* trays whose startup command was not answered

trayVars == <<cf8051, traySays, trayRuns, unanswered>>

Trays == 1..NTrays
Frame(t) == (t - 1) \div TraysInFrame
Sharing(t) == {u \in Trays : Frame(u) = Frame(t)}

TrayInit ==
  /\ cf8051 = NoUnits(Trays)
  /\ traySays = [t \in Trays |-> Nothing]
  /\ trayRuns = [t \in Trays |-> "old"]
  /\ unanswered = {}

Heard(t, says, runs) ==
  /\ traySays' = [traySays EXCEPT ![t] = says]
  /\ trayRuns' = [trayRuns EXCEPT ![t] = runs]
  /\ UNCHANGED unanswered

(* Every tray of the frame that is in the update is marked failed, those    *)
(* already updated too.                                                     *)
FrameFails(s, t) ==
  LET F == {u \in Sharing(t) : s.updating[u] = UPDATE_NOW}
  IN  [s EXCEPT !.updating_status = [u \in Trays |-> IF u \in F THEN UPDATE_DONE ELSE @[u]],
                !.updating_result = [u \in Trays |-> IF u \in F THEN UPDATE_FAIL ELSE @[u]]]

FrameFailsCounted(s, t) ==
  LET F == {u \in Sharing(t) : s.updating[u] = UPDATE_NOW}
  IN  [FrameFails(s, t) EXCEPT !.total_update_nums = Less(@, Cardinality(F))]

-----------------------------------------------------------------------------
(* cf8051_startup_service_routine, after the report of tray r, 0 for the    *)
(* start of the update.  A startup command nobody answers ends like one     *)
(* that was answered: update is tested, which is set since the start.       *)
TrayService(s, r) ==
  LET says == [t \in Trays |-> IF t = r THEN Nothing ELSE traySays[t]]
  IN  \/ /\ s.total_update_nums = 0 \/ Pending(s) = {}
         /\ cf8051' = Verdict(s)
         /\ traySays' = says
         /\ UNCHANGED <<trayRuns, unanswered>>
      \/ \E t \in Pending(s) :
           /\ s.total_update_nums # 0
           /\ \A u \in Pending(s) : t <= u
           /\ cf8051' = [s EXCEPT !.updating_index = t]
           /\ \/ \E refused \in 0..1 :
                   /\ traySays' = [says EXCEPT ![t] = Report(STAGE1_DEVICE_STARTUP, refused)]
                   /\ trayRuns' = [trayRuns EXCEPT ![t] = IF refused = 1 THEN "refused" ELSE "part"]
                   /\ UNCHANGED unanswered
              \/ /\ "startup" \in Unheard
                 /\ traySays' = says
                 /\ unanswered' = unanswered \cup {t}
                 /\ UNCHANGED trayRuns

(* webmaster_data_handle: the trays present in the frames that answer.      *)
TraysPresent(T) ==
  [NoUnits(Trays) EXCEPT
     !.update = IF T = {} THEN UPDATE_DONE ELSE UPDATE_NOW,
     !.total_update_nums = Cardinality(T),
     !.updating = [t \in Trays |-> IF t \in T THEN UPDATE_NOW ELSE 0],
     !.updating_status = [t \in Trays |-> IF t \in T THEN UPDATE_NOW ELSE 0],
     !.updating_result = [t \in Trays |-> IF t \in T THEN UPDATE_NOW ELSE 0]]

-----------------------------------------------------------------------------
(* The reports; tray t of the frame speaks, c is the tray they are for.     *)
TrayRefuses(t, c) ==
  /\ traySays[t].stage = STAGE1_DEVICE_STARTUP
  /\ traySays[t].n # 0
  /\ TrayService([cf8051 EXCEPT !.updating_status[c] = UPDATE_DONE], t)

(* The first packet.  When it is given up the routine returns no value: it  *)
(* may be the code of a failed startup or any other.                        *)
TrayInBootloader(t, c) ==
  /\ traySays[t].stage = STAGE1_DEVICE_STARTUP
  /\ traySays[t].n = 0
  /\ \/ Heard(c, Report(STAGE2_WRITING_NFLASH, 1), "part") /\ UNCHANGED cf8051
     \/ "first" \in Unheard /\ TrayService(FrameFails(cf8051, c), t)
     \/ /\ "first" \in Unheard
        /\ cf8051' = FrameFails(cf8051, c)
        /\ Heard(t, Nothing, "part")

TrayWrites(t, c, n) ==
  /\ traySays[t].stage = STAGE2_WRITING_NFLASH
  /\ \/ /\ traySays[t].n # n
        /\ Heard(c, Report(STAGE2_WRITING_NFLASH, traySays[t].n + 1), "part")
        /\ UNCHANGED cf8051
     \/ /\ traySays[t].n = n
        /\ \E r \in 0..1 : Heard(c, Report(STAGE3_DEVICE_RESTART, r), IF r = 0 THEN "new" ELSE "part")
        /\ UNCHANGED cf8051
     \/ "packet" \in Unheard /\ TrayService(FrameFailsCounted(cf8051, c), t)

TrayRestarted(t, c) ==
  /\ traySays[t].stage = STAGE3_DEVICE_RESTART
  /\ TrayService([cf8051 EXCEPT
       !.updating_status[c] = UPDATE_DONE,
       !.updating_result[c] = IF traySays[t].n = 0 THEN 0 ELSE UPDATE_FAIL,
       !.total_update_nums = OneLess(@)], t)

TrayReport(n) ==
  \E t \in Trays :
    LET c == cf8051.updating_index
    IN  c # 0 /\ (TrayRefuses(t, c) \/ TrayInBootloader(t, c) \/ TrayWrites(t, c, n) \/ TrayRestarted(t, c))
=============================================================================
