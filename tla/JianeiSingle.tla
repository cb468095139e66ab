---------------------------- MODULE JianeiSingle ----------------------------
(***************************************************************************)
(* The orders on one port: label a port (02, Jianei_Order_new_1_port.c)    *)
(* and take a label off (04, Jianei_Order_del_1_port.c).  eid_port2 stays  *)
(* empty for both.                                                         *)
(***************************************************************************)
EXTENDS JianeiCommon

RequestNew1(n, to, p, mine) == StartOrder(CMD_NEW_1_PORTS, n, to, p, NoPort, mine)
RequestDel1(n, to, p, mine) == StartOrder(CMD_DEL_1_PORTS, n, to, p, NoPort, mine)

(* the label is kept and the board of eid_port1 told to conclude *)
RecordAndConfirm(what, p, e) ==
  LET e1 == [eid_port1 EXCEPT !.eid = e]
  IN  TransmitOrDrop(PairStage(txBuf, CONFIRM, p, NoPort), what, p, e1, eid_port2)
      /\ NothingEnds

(* a report that changes nothing in the order *)
Ignore(what, p) ==
  /\ OrderStays(what, p)
  /\ UNCHANGED <<eid_port1, eid_port2>>
  /\ NothingSent
  /\ NothingEnds

(***************************************************************************)
(* New 1.  After 8c the output frames are staged and the handler returns   *)
(* without sending them: eid_port2 is all zeroes, so the boards differ and *)
(* the frame left in the slot is the one with length 0.                    *)
(***************************************************************************)
InsertedNew1(p, e) ==
  IF eid_port1.port = p THEN RecordAndConfirm(INSERTED, p, e) ELSE Ignore(INSERTED, p)

PulledBackNew1(p) ==
  /\ OrderStays(PULLEDBACK, p)
  /\ txBuf' = IF eid_port1.port = p
              THEN OutputStage(txBuf, eid_port1.port, eid_port2.port)
              ELSE txBuf
  /\ sent' = Silence
  /\ UNCHANGED <<eid_port1, eid_port2>>
  /\ NothingEnds

ConcludedNew1(p, ok) ==
  Conclude(CMD_NEW_1_PORTS, p, ok, Flagged(eid_port1, p, ok), eid_port2)

(* Del 1 *)
PulledDel1(p, e) ==
  IF eid_port1.port = p THEN RecordAndConfirm(PULLED, p, e) ELSE Ignore(PULLED, p)

ConcludedDel1(p, ok) ==
  Conclude(CMD_DEL_1_PORTS, p, ok, Flagged(eid_port1, p, ok), eid_port2)

(***************************************************************************)
(* Reports of the two kinds: movement what of port p with label e, and the *)
(* result of a confirm.  Movements no branch names are ignored.            *)
(***************************************************************************)
MovedNew1(what, p, e) ==
  CASE what = INSERTED -> InsertedNew1(p, e)
    [] what = PULLEDBACK -> PulledBackNew1(p)
    [] OTHER -> Ignore(what, p)

MovedDel1(what, p, e) ==
  IF what = PULLED THEN PulledDel1(p, e) ELSE Ignore(what, p)
=============================================================================
