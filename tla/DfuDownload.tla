---------------------------- MODULE DfuDownload ----------------------------
(***************************************************************************)
(* The download of a program (dfu_update/ftp.c, command 0x1107 in main.c)  *)
(* and the updates over the line that it starts.                           *)
(*                                                                         *)
(* A webmaster opens a connection; its first message is handled by the     *)
(* network thread and creates a download thread, which handles the rest.   *)
(* The message that ends the download is answered first; the thread then   *)
(* waits for mobile_mutex, under which an update starts and under which    *)
(* the poll thread handles the reports and a network thread the questions  *)
(* about its outcome.                                                      *)
(*                                                                         *)
(* Assumed of webmasters: one downloads at a time, it sends each packet    *)
(* once, it ends the download when it has sent all, and the next begins    *)
(* when the outcome of the last is known.  Nothing in the code asks for it.*)
(***************************************************************************)
EXTENDS BoardUpdate, TrayUpdate

CONSTANTS
  MinSize, MaxSize,   \* the packets of 1021 bytes a file may have
  MaxFiles            \* bound of the downloads

(* data_packet has 70 rows of 512 bytes, and nothing compares a file's size  *)
(* with them: larger files overrun it.                                      *)
ASSUME DownloadAssumption ==
  /\ MinSize \in 1..35
  /\ MaxSize \in MinSize..35
  /\ 2 * MinSize >= FirstPacket
  /\ MaxFiles \in Nat

VARIABLES
  dfu,
  thread,    \* the download thread
  file,      \* observer: the downloads so far, and the size of the last one
  updated,   \* observer: the last file whose update was started, and the units in it
  asked      \* observer: of what file, and what, a webmaster was last told

downloadVars == <<dfu, thread, file, updated, asked>>
vars == <<boardVars, trayVars, downloadVars>>

Sizes == MinSize..MaxSize
Packets == 0..(MaxSize - 1)
FileNumbers == 0..MaxFiles
TRAYS == 1
BOARDS == 2

TypeOK ==
  /\ sim3u146 \in UnitRecords(Boards)
  /\ cf8051 \in UnitRecords(Trays)
  /\ boardRuns \in [Boards -> Programs]
  /\ trayRuns \in [Trays -> Programs]
  /\ dfu \in [type : {0, TRAYS, BOARDS}, data_packet_num : Byte, recv_packet_num : 0..MaxSize,
              packets : [Packets -> FileNumbers]]
  /\ thread \in {"none", "receiving", "starting"}
  /\ unanswered \subseteq Trays
  /\ \A b \in Boards : boardSays[b].n < 256
  /\ \A t \in Trays : traySays[t].n < 256

Init ==
  /\ BoardInit
  /\ TrayInit
  /\ dfu = [type |-> 0, data_packet_num |-> 0, recv_packet_num |-> 0,
            packets |-> [i \in Packets |-> 0]]
  /\ thread = "none"
  /\ file = [number |-> 0, size |-> 0]
  /\ updated = [number |-> 0, units |-> {}]
  /\ asked = [number |-> 0, reply |-> 0]

Quiet == sim3u146.update = UPDATE_DONE /\ cf8051.update = UPDATE_DONE

-----------------------------------------------------------------------------
(* Mutant: the packets counted before are not forgotten. *)
AnnounceCountingOn(type, size) ==
  /\ thread = "none"
  /\ Quiet
  /\ file.number < MaxFiles
  /\ dfu' = [dfu EXCEPT !.type = type, !.data_packet_num = size]
  /\ thread' = "receiving"
  /\ file' = [number |-> file.number + 1, size |-> size]
  /\ boardRuns' = [b \in Boards |-> "old"]
  /\ trayRuns' = [t \in Trays |-> "old"]
  /\ UNCHANGED <<sim3u146, boardSays, cf8051, traySays, unanswered, updated, asked>>

(* 0x01: type and size; the packets of the file before stay where they are. *)
Announce(type, size) ==
  /\ thread = "none"
  /\ Quiet
  /\ file.number < MaxFiles
  /\ dfu' = [dfu EXCEPT !.type = type, !.data_packet_num = size, !.recv_packet_num = 0]
  /\ thread' = "receiving"
  /\ file' = [number |-> file.number + 1, size |-> size]
  /\ boardRuns' = [b \in Boards |-> "old"]
  /\ trayRuns' = [t \in Trays |-> "old"]
  /\ UNCHANGED <<sim3u146, boardSays, cf8051, traySays, unanswered, updated, asked>>

(* 0x02.  One with a wrong checksum is answered with an error and sent      *)
(* again.                                                                   *)
Packet(i) ==
  /\ thread = "receiving"
  /\ i < file.size
  /\ dfu.packets[i] # file.number
  /\ dfu' = [dfu EXCEPT !.packets[i] = file.number, !.recv_packet_num = @ + 1]
  /\ UNCHANGED <<boardVars, trayVars, thread, file, updated, asked>>

(* The webmaster is gone: the thread closes the connection and ends. *)
PeerGone ==
  /\ thread = "receiving"
  /\ thread' = "none"
  /\ UNCHANGED <<boardVars, trayVars, dfu, file, updated, asked>>

AllSent == \A i \in 0..(file.size - 1) : dfu.packets[i] = file.number

(* 0x03: whether the number of packets is right is only told; the update    *)
(* starts in any case, once the thread has the mutex.                       *)
EndDownload ==
  /\ thread = "receiving"
  /\ AllSent
  /\ thread' = "starting"
  /\ UNCHANGED <<boardVars, trayVars, dfu, file, updated, asked>>

(* Mutant: the size is left as it was announced. *)
Undistributed(p) == p

(* dfu_distribute_dfu_file_data: p packets of 1021 bytes in blocks of 512,  *)
(* an even number of them.                                                  *)
Distributed(p) ==
  LET size == p * 1021
      blocks == IF size % 512 = 0 THEN size \div 512 ELSE size \div 512 + 1
  IN  IF blocks % 2 = 0 THEN blocks ELSE blocks + 1

(* dfu_start_board_software_update_routine. *)
StartBoards ==
  /\ dfu.type = BOARDS
  /\ dfu' = [dfu EXCEPT !.data_packet_num = Distributed(@) + 1]
  /\ \E B \in SUBSET Boards :
       StartupService(Polled(B), 0) /\ updated' = [number |-> file.number, units |-> B]
  /\ UNCHANGED trayVars

StartTrays ==
  /\ dfu.type = TRAYS
  /\ dfu' = [dfu EXCEPT !.data_packet_num = Distributed(@)]
  /\ \E T \in SUBSET Trays :
       TrayService(TraysPresent(T), 0) /\ updated' = [number |-> file.number, units |-> T]
  /\ UNCHANGED boardVars

StartUpdate ==
  /\ thread = "starting"
  /\ StartBoards \/ StartTrays
  /\ thread' = "none"
  /\ UNCHANGED <<file, asked>>

-----------------------------------------------------------------------------
(* A report is fetched by the poll thread. *)
Boards0x06 == BoardReport(dfu.data_packet_num) /\ UNCHANGED <<trayVars, downloadVars>>
Trays0x06 == TrayReport(dfu.data_packet_num) /\ UNCHANGED <<boardVars, downloadVars>>

(* 0x04, on a connection of its own. *)
Status ==
  LET of == IF dfu.type = BOARDS THEN sim3u146 ELSE cf8051
  IN  IF of.update = UPDATE_NOW THEN UPDATE_NOW ELSE of.update_result

AskStatus ==
  /\ dfu.type # 0
  /\ asked' = [number |-> IF thread = "none" THEN updated.number ELSE 0, reply |-> Status]
  /\ UNCHANGED <<boardVars, trayVars, dfu, thread, file, updated>>

Next ==
  \/ \E type \in {TRAYS, BOARDS}, size \in Sizes : Announce(type, size)
  \/ \E i \in Packets : Packet(i)
  \/ PeerGone \/ EndDownload \/ StartUpdate
  \/ Boards0x06 \/ Trays0x06 \/ AskStatus

Spec == Init /\ [][Next]_vars /\ WF_vars(Boards0x06)

-----------------------------------------------------------------------------
(* What a webmaster is told of an update it has started is what has become  *)
(* of the units: told it is done, every board in it runs the new program;   *)
(* told it has failed, one does not.  Of the unit boards, one that refused  *)
(* to be updated counts as done.                                            *)
StatusIsTrue ==
  asked.number # 0 /\ asked.number = file.number =>
    LET done == IF dfu.type = BOARDS
                THEN \A b \in updated.units : boardRuns[b] = "new"
                ELSE \A t \in updated.units : trayRuns[t] \in {"new", "refused"}
    IN  /\ asked.reply = 0 => done
        /\ asked.reply = 1 => ~done

(* While an update runs, what it sends are the packets of one file, all of  *)
(* them, and it ends at the right one: twice the packets announced, and one *)
(* more for the interface boards.                                           *)
UpdateIsOfOneFile ==
  ~Quiet => /\ updated.number = file.number
            /\ AllSent
            /\ dfu.data_packet_num = 2 * file.size + IF dfu.type = BOARDS THEN 1 ELSE 0

(* On the line at most one unit is in its update, and a report that comes   *)
(* is taken for the unit it is from, which is still to be updated.          *)
OneUnitAtATime ==
  /\ \A b \in Boards : boardSays[b] # Nothing =>
       b = sim3u146.updating_index /\ b \in Pending(sim3u146) /\ cf8051.update = UPDATE_DONE
  /\ \A t \in Trays : traySays[t] # Nothing =>
       t = cf8051.updating_index /\ t \in Pending(cf8051) /\ sim3u146.update = UPDATE_DONE

(* The number of interface boards counted as left is the number of those    *)
(* that are, and while an update runs one of them is at work.               *)
BoardsAreCounted ==
  /\ sim3u146.total_update_nums = Cardinality(Pending(sim3u146))
  /\ sim3u146.update = UPDATE_NOW => \E b \in Boards : boardSays[b] # Nothing

(* An update of the interface boards ends, whichever of them do not answer, *)
(* if each that was started goes on to report.                              *)
BoardsUpdateEnds == sim3u146.update = UPDATE_NOW ~> sim3u146.update = UPDATE_DONE

(* "if startup command send failed , set this frame update fail!!!"         *)
(* (update_cf8051.c:86): a tray that did not answer is not left waiting.    *)
StartupFailureFails == \A t \in unanswered : t \notin Pending(cf8051)
=============================================================================
