---------------------------- MODULE JiajianNew2 ----------------------------
(***************************************************************************)
(* Inter-rack orders that label two ports (Jiajian_Order_new_2_ports.c):   *)
(* what the host makes of the other rack's messages and of its own boards' *)
(* reports, and what the other rack makes of the host's messages and of    *)
(* its boards' reports.                                                    *)
(*                                                                         *)
(* o is the order of rack r without the message in hand; waiting the       *)
(* reports left at its boards.                                             *)
(***************************************************************************)
EXTENDS JiajianRequest

ConfirmBoth(r, k, o, waiting) ==
  SayAndWrite(r, o, <<PortMsg(CONFIRM, k, o.jiajian_port)>>,
              Frame(CONFIRM, o.local_port, k, "host"), waiting)

OutputBoth(r, o, waiting) ==
  SayAndWrite(r, o, <<PortMsg(OUTPUT, "new", o.jiajian_port)>>,
              Frame(OUTPUT, o.local_port, "new", "host"), waiting)

(* 08: a label was put in at the other rack.                               *)
FarInserted(r, o, e, waiting) ==
  LET kept == [o EXCEPT !.jiajian_eid = e, !.jiajian_stat = USED]
      guide == Frame(GUIDE, o.local_port, "new", "host")
  IN  \/ o.local_eid = NoLabel /\ JustWrite(r, kept, guide, waiting)
      \/ o.local_eid = e /\ ConfirmBoth(r, "new", kept, waiting)
      \/ /\ o.local_eid \notin {NoLabel, e}
         /\ LET guideFar == GuideMsg(o.jiajian_port, o.local_eid)
            IN  IF o.jiajian_eid = o.local_eid
                THEN SayAndWrite(r, o, <<guideFar, PortMsg(CONFIRM, "new", o.jiajian_port)>>,
                                 Frame(CONFIRM, o.local_port, "new", "host"), waiting)
                ELSE JustSay(r, o, guideFar, waiting)

(* Mutant: the label the other rack has recorded is not compared. *)
NearInsertedUncompared(r, o, e, waiting) ==
  LET kept == [o EXCEPT !.local_eid = e, !.local_stat = USED]
  IN  IF o.jiajian_eid = NoLabel THEN JustSay(r, kept, GuideMsg(o.jiajian_port, e), waiting)
      ELSE ConfirmBoth(r, "new", kept, waiting)

(* 03: a label was put in at the host. *)
NearInserted(r, o, e, waiting) ==
  LET kept == [o EXCEPT !.local_eid = e, !.local_stat = USED]
      guide == Frame(GUIDE, o.local_port, "new", "host")
  IN  \/ o.jiajian_eid = NoLabel /\ JustSay(r, kept, GuideMsg(o.jiajian_port, e), waiting)
      \/ o.jiajian_eid = e /\ ConfirmBoth(r, "new", kept, waiting)
      \/ /\ o.jiajian_eid \notin {NoLabel, e}
         /\ JustWrite(r, [o EXCEPT !.local_eid = NoLabel], guide, waiting)

(* 8c: the label was pulled out again, at the other rack or at the host.    *)
FarPulledBack(r, o, waiting) ==
  LET gone == [o EXCEPT !.jiajian_eid = NoLabel, !.jiajian_stat = EMPTY]
  IN  IF o.local_stat = EMPTY
      THEN OutputBoth(r, [gone EXCEPT !.local_eid = NoLabel], waiting)
      ELSE Note(r, gone, waiting)

NearPulledBack(r, o, waiting) ==
  LET gone == [o EXCEPT !.local_eid = NoLabel, !.local_stat = EMPTY]
  IN  IF o.jiajian_stat = EMPTY
      THEN OutputBoth(r, [gone EXCEPT !.jiajian_eid = NoLabel], waiting)
      ELSE Note(r, gone, waiting)

(* Mutant: the host's own conclusion is entered for the other rack. *)
NearConcludedFar(r, o, ok, waiting) == Conclude(r, [o EXCEPT !.jiajian_flag = Flag(ok)], waiting)

(* 0a: a port was concluded, at the other rack or at the host. *)
FarConcluded(r, o, ok, waiting) == Conclude(r, [o EXCEPT !.jiajian_flag = Flag(ok)], waiting)
NearConcluded(r, o, ok, waiting) == Conclude(r, [o EXCEPT !.local_flag = Flag(ok)], waiting)

MasterPart2New2(r, o, m) ==
  \/ m.op = INSERTED /\ FarInserted(r, o, m.label, outbox[r])
  \/ m.op = PULLEDBACK /\ FarPulledBack(r, o, outbox[r])
  \/ m.op = CONCLUDED /\ FarConcluded(r, o, m.ok, outbox[r])

MasterPart3New2(r, o, rep, waiting) ==
  \/ rep.what = INSERTED /\ NearInserted(r, o, rep.label, waiting)
  \/ rep.what = PULLEDBACK /\ NearPulledBack(r, o, waiting)
  \/ rep.what = CONCLUDED /\ NearConcluded(r, o, rep.ok, waiting)

(* The other rack passes on what its boards report; with a conclusion its  *)
(* part is over.                                                           *)
PassOn(r, o, m, waiting) == JustSay(r, o, m, waiting)

PassOnResult(r, o, k, ok, waiting) ==
  /\ Room(o.connect_sockfd, <<ResultMsg(k, ok)>>)
  /\ wire' = Carried(o.connect_sockfd, <<ResultMsg(k, ok)>>)
  /\ Clear(r)
  /\ Silent(r, waiting)
  /\ UNCHANGED answers

SlavePart3New2(r, o, rep, waiting) ==
  \/ /\ rep.what \in {INSERTED, PULLEDBACK}
     /\ PassOn(r, o, MoveMsg(rep.what, "new", rep.label), waiting)
  \/ rep.what = CONCLUDED /\ PassOnResult(r, o, "new", rep.ok, waiting)

(* ... and writes to its boards what the host says. *)
Withdrawn(r, m) ==
  /\ Clear(r)
  /\ Write(r, Frame(CANCEL, CancelledPort(m), m.cmd.kind, "remote"), outbox[r])
  /\ UNCHANGED <<wire, answers>>

SlavePart2New2(r, o, m) ==
  \/ /\ m.op \in {GUIDE, OUTPUT, CONFIRM}
     /\ JustWrite(r, o, Frame(m.op, m.port, "new", "remote"), outbox[r])
  \/ m.op = CANCEL /\ Withdrawn(r, m)
=============================================================================
