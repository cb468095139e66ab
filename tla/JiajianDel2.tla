---------------------------- MODULE JiajianDel2 ----------------------------
(***************************************************************************)
(* Inter-rack orders that remove two labels (Jiajian_Order_del_2_ports.c): *)
(* the counterparts of JiajianNew2.                                        *)
(***************************************************************************)
EXTENDS JiajianNew2

(* 01: a label was pulled, at the other rack or at the host. *)
FarPulled(r, o, waiting) ==
  LET gone == [o EXCEPT !.jiajian_stat = EMPTY]
  IN  IF o.local_stat = EMPTY THEN ConfirmBoth(r, "del", gone, waiting) ELSE Note(r, gone, waiting)

NearPulled(r, o, waiting) ==
  LET gone == [o EXCEPT !.local_stat = EMPTY]
  IN  IF o.jiajian_stat = EMPTY THEN ConfirmBoth(r, "del", gone, waiting) ELSE Note(r, gone, waiting)

(* 02: it was put back. *)
FarReinserted(r, o, waiting) == Note(r, [o EXCEPT !.jiajian_stat = USED], waiting)
NearReinserted(r, o, waiting) == Note(r, [o EXCEPT !.local_stat = USED], waiting)

MasterPart2Del2(r, o, m) ==
  \/ m.op = PULLED /\ FarPulled(r, o, outbox[r])
  \/ m.op = REINSERTED /\ FarReinserted(r, o, outbox[r])
  \/ m.op = CONCLUDED /\ FarConcluded(r, o, m.ok, outbox[r])

MasterPart3Del2(r, o, rep, waiting) ==
  \/ rep.what = PULLED /\ NearPulled(r, o, waiting)
  \/ rep.what = REINSERTED /\ NearReinserted(r, o, waiting)
  \/ rep.what = CONCLUDED /\ NearConcluded(r, o, rep.ok, waiting)

SlavePart3Del2(r, o, rep, waiting) ==
  \/ /\ rep.what \in {PULLED, REINSERTED}
     /\ PassOn(r, o, MoveMsg(rep.what, "del", NoLabel), waiting)
  \/ rep.what = CONCLUDED /\ PassOnResult(r, o, "del", rep.ok, waiting)

SlavePart2Del2(r, o, m) ==
  \/ /\ m.op = CONFIRM
     /\ JustWrite(r, o, Frame(CONFIRM, m.port, "del", "remote"), outbox[r])
  \/ m.op = CANCEL /\ Withdrawn(r, m)
=============================================================================
