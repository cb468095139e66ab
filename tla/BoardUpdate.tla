---------------------------- MODULE BoardUpdate ----------------------------
(***************************************************************************)
(* The update of the interface boards (dfu_update/update_sim3u1xx.c), one  *)
(* after the other.                                                        *)
(*                                                                         *)
(* Left out: a command that was heard but not answered, and a report given *)
(* twice.  Either lets a board the rack has given up go on, and the count  *)
(* of boards goes below what is left to do.                                *)
(***************************************************************************)
EXTENDS DfuUnits

CONSTANTS
  NBoards,        \* interface boards of the rack
  FirstPacket     \* 17: the packets before it are the boot loader

ASSUME BoardAssumption == NBoards \in 1..8 /\ FirstPacket \in 1..254

VARIABLES
  sim3u146,
  boardSays,   \* external: what each board is about to report
  boardRuns    \* external: the program each board has

boardVars == <<sim3u146, boardSays, boardRuns>>

Boards == 1..NBoards

(* A board is started, or sent a packet, or restarted, by a command heard. *)
Hears(b, says, runs) ==
  /\ boardSays' = [boardSays EXCEPT ![b] = says]
  /\ boardRuns' = [boardRuns EXCEPT ![b] = runs]

Said(b) ==
  /\ boardSays' = [boardSays EXCEPT ![b] = Nothing]
  /\ UNCHANGED boardRuns

BoardInit ==
  /\ sim3u146 = NoUnits(Boards)
  /\ boardSays = [b \in Boards |-> Nothing]
  /\ boardRuns = [b \in Boards |-> "old"]

(* Three times without an answer. *)
BoardsFail(s, B) ==
  [s EXCEPT !.updating_status = [b \in Boards |-> IF b \in B THEN UPDATE_DONE ELSE @[b]],
            !.updating_result = [b \in Boards |-> IF b \in B THEN UPDATE_FAIL ELSE @[b]],
            !.total_update_nums = Less(@, Cardinality(B))]

-----------------------------------------------------------------------------
(* sim3u146_startup_service_routine, with s the state so far: the first     *)
(* board still to be updated that answers its startup command is next;      *)
(* those before it have failed.                                             *)
NothingLeft(s) == s.total_update_nums = 0 \/ Pending(s) = {}

NextBoard(s, b) ==
  LET passed == {c \in Pending(s) : c < b}
  IN  [BoardsFail(s, passed) EXCEPT !.update = UPDATE_NOW, !.updating_index = b]

StartupServiceDone(s) ==
  \/ NothingLeft(s) /\ sim3u146' = Verdict(s)
  \/ ~NothingLeft(s) /\ sim3u146' = Verdict(BoardsFail(s, Pending(s)))

(* After the report of board r, 0 for the start of the update. *)
StartupService(s, r) ==
  LET says == [b \in Boards |-> IF b = r THEN Nothing ELSE boardSays[b]]
  IN  \/ /\ StartupServiceDone(s)
         /\ boardSays' = says
         /\ UNCHANGED boardRuns
      \/ \E b \in Pending(s) :
           /\ s.total_update_nums # Cardinality({c \in Pending(s) : c < b})
           /\ sim3u146' = NextBoard(s, b)
           /\ boardSays' = [says EXCEPT ![b] = Report(STAGE1_DEVICE_STARTUP, 0)]
           /\ boardRuns' = [boardRuns EXCEPT ![b] = "part"]

(* startup_stage_step1_download_file: whoever answers a poll is updated.    *)
Polled(B) ==
  [NoUnits(Boards) EXCEPT
     !.update = UPDATE_NOW, !.update_result = UPDATE_FAIL,
     !.total_update_nums = Cardinality(B),
     !.updating = [b \in Boards |-> IF b \in B THEN UPDATE_NOW ELSE 0],
     !.updating_status = [b \in Boards |-> IF b \in B THEN UPDATE_NOW ELSE 0],
     !.updating_result = [b \in Boards |-> IF b \in B THEN UPDATE_NOW ELSE 0]]

-----------------------------------------------------------------------------
(* The reports, with n the number of packets of the update plus one.        *)
InUpdate(b) == sim3u146.updating[b] = UPDATE_NOW

(* Mutant: the board at work is marked as done. *)
SentAsDone(b, says, runs) ==
  /\ InUpdate(b)
  /\ Hears(b, says, runs)
  /\ sim3u146' = [sim3u146 EXCEPT !.updating_status[b] = UPDATE_DONE]

(* The command for board b is sent: heard, or given up.                     *)
Sent(b, says, runs) ==
  /\ InUpdate(b)
  /\ Hears(b, says, runs)
  /\ sim3u146' = [sim3u146 EXCEPT !.updating_status[b] = UPDATE_NOW]

(* Mutant: a board that does not answer is given up, but still counted. *)
GivenUpCounted(b) ==
  LET s == BoardsFail(sim3u146, {b})
  IN  StartupService([s EXCEPT !.total_update_nums = sim3u146.total_update_nums], b)

(* Mutant: the next board is not started. *)
GivenUpAlone(b) ==
  /\ sim3u146' = BoardsFail(sim3u146, {b})
  /\ Said(b)

GivenUp(b) == StartupService(BoardsFail(sim3u146, {b}), b)

BoardInBootloader(b) ==
  /\ boardSays[b].stage = STAGE1_DEVICE_STARTUP
  /\ Sent(b, Report(STAGE2_WRITING_NFLASH, FirstPacket), "part") \/ GivenUp(b)

(* The packet after the one written, or after the last one the restart.     *)
BoardWrites(b, n) ==
  LET next == (boardSays[b].n + 1) % 256
  IN  /\ boardSays[b].stage = STAGE2_WRITING_NFLASH
      /\ \/ next # n /\ Sent(b, Report(STAGE2_WRITING_NFLASH, next), "part")
         \/ next = n /\ Sent(b, Report(STAGE3_DEVICE_RESTART, 0), "new")
         \/ next = n /\ Sent(b, Report(STAGE3_DEVICE_RESTART, UPDATE_FAIL), "part")
         \/ GivenUp(b)

BoardRestarted(b) ==
  /\ boardSays[b].stage = STAGE3_DEVICE_RESTART
  /\ StartupService([sim3u146 EXCEPT !.updating_status[b] = UPDATE_DONE,
                                     !.updating_result[b] = boardSays[b].n,
                                     !.total_update_nums = OneLess(@)], b)

BoardReport(n) ==
  \E b \in Boards : BoardInBootloader(b) \/ BoardWrites(b, n) \/ BoardRestarted(b)
=============================================================================
