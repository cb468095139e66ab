----------------------------- MODULE JianeiPair -----------------------------
(***************************************************************************)
(* The orders on two ports: move a label to another port (03,              *)
(* Jianei_Order_exchange_2_ports.c), label both ends of a fibre (05,       *)
(* Jianei_Order_new_2_ports.c) and take both labels off (06,               *)
(* Jianei_Order_del_2_ports.c).                                            *)
(***************************************************************************)
EXTENDS JianeiSingle

RequestExc2(n, to, p, q, mine) == StartOrder(CMD_EXC_2_PORTS, n, to, p, q, mine)
RequestDel2(n, to, p, q, mine) == StartOrder(CMD_DEL_2_PORTS, n, to, p, q, mine)

(***************************************************************************)
(* New 2 has its failure calls commented out.  A request for another rack  *)
(* leaves an order with a number, no ports and no asker, and the lamp as   *)
(* it was; a request no board acknowledges stays in hand.                  *)
(***************************************************************************)
RequestNew2(n, to, p, q, mine) ==
  /\ n \notin used
  /\ used' = used \cup {n}
  /\ Arrive(to)
  /\ UNCHANGED <<alive, replies>>
  /\ \/ /\ ~mine
        /\ NothingSent
        /\ ord' = [number |-> n, to |-> MOBILE]
        /\ eid_port1' = FreshPort(NoPort)
        /\ eid_port2' = FreshPort(NoPort)
        /\ UNCHANGED orderLed
        /\ kind' = CMD_NEW_2_PORTS
        /\ label' = [x \in Ports |-> BLANK]
        /\ confirmed' = {}
     \/ /\ mine
        /\ \E ok \in BOOLEAN :
             Transmit(PairStage(txBuf, CMD_NEW_2_PORTS, p, q), ok)
        /\ TakeOrder(CMD_NEW_2_PORTS, n, to, p, q)

(* mutant: the else branch for the second port is missing *)
FlagFirstOnly(p, ok) == eid_port2

FlagPair(p, ok) == IF eid_port1.port = p THEN eid_port2 ELSE Flagged(eid_port2, p, ok)

(* mutant: the second port is not looked at *)
ConcludedFirst(cmd, p, ok) ==
  Conclude(CMD_DEL_1_PORTS, p, ok, Flagged(eid_port1, p, ok), FlagPair(p, ok))

ConcludedPair(cmd, p, ok) ==
  Conclude(cmd, p, ok, Flagged(eid_port1, p, ok), FlagPair(p, ok))

ConfirmBoth(tx) == PairStage(tx, CONFIRM, eid_port1.port, eid_port2.port)

(***************************************************************************)
(* Exchange: the old port must be empty when the label arrives at the new. *)
(* The 8c branch writes a byte nothing reads (and of the wrong port).      *)
(***************************************************************************)
PulledExc2(what, p) ==
  /\ OrderStays(what, p)
  /\ eid_port1' = IF eid_port1.port = p THEN [eid_port1 EXCEPT !.moved = what]
                  ELSE eid_port1
  /\ UNCHANGED eid_port2
  /\ NothingSent
  /\ NothingEnds

InsertedExc2(p) ==
  IF eid_port2.port = p /\ eid_port1.moved = PULLED
  THEN TransmitOrDrop(ConfirmBoth(txBuf), INSERTED, p, eid_port1, eid_port2) /\ NothingEnds
  ELSE Ignore(INSERTED, p)

PulledBackExc2(p) ==
  /\ OrderStays(PULLEDBACK, p)
  /\ UNCHANGED eid_port1
  /\ eid_port2' = IF eid_port1.port = p THEN [eid_port2 EXCEPT !.moved = PULLED]
                  ELSE eid_port2
  /\ NothingSent
  /\ NothingEnds

MovedExc2(what, p) ==
  CASE what \in {PULLED, REINSERTED} -> PulledExc2(what, p)
    [] what = INSERTED -> InsertedExc2(p)
    [] what = PULLEDBACK -> PulledBackExc2(p)

(***************************************************************************)
(* Del 2: both ends keep their last movement, and both are confirmed when  *)
(* the two are equal.  A pull of any port runs the comparison.             *)
(***************************************************************************)
Mark(e, p, what) == IF e.port = p THEN [e EXCEPT !.flag = what] ELSE e
MarkSecond(p, what) == IF eid_port1.port = p THEN eid_port2 ELSE Mark(eid_port2, p, what)

PulledDel2(p) ==
  LET e1 == Mark(eid_port1, p, PULLED)
      e2 == MarkSecond(p, PULLED)
      tx == IF e1.flag = e2.flag THEN ConfirmBoth(txBuf) ELSE txBuf
  IN  TransmitOrDrop(tx, PULLED, p, e1, e2) /\ NothingEnds

(* mutant: a label put back is not noted *)
ReinsertedUnnoted(p) == Ignore(REINSERTED, p)

ReinsertedDel2(p) ==
  /\ OrderStays(REINSERTED, p)
  /\ eid_port1' = Mark(eid_port1, p, REINSERTED)
  /\ eid_port2' = MarkSecond(p, REINSERTED)
  /\ NothingSent
  /\ NothingEnds

MovedDel2(what, p) ==
  CASE what = PULLED -> PulledDel2(p)
    [] what = REINSERTED -> ReinsertedDel2(p)
    [] OTHER -> Ignore(what, p)

(***************************************************************************)
(* New 2: the label of the first end is kept and passed to the other; a    *)
(* label that differs from the first on bytes 4..19 is not kept, and its   *)
(* own port is told what is expected.  Both ends are confirmed when the    *)
(* kept labels agree on bytes 5..20.  A board that does not answer is not  *)
(* noticed.                                                                *)
(***************************************************************************)
(* mutant: the second label is not compared with the first *)
KeepsUncompared(mine, other, e) == mine.eid = NoEid

Keeps(mine, other, e) ==
  mine.eid = NoEid /\ (other.eid = NoEid \/ Compared[other.eid] = Compared[e])

KeepLabel(mine, other, e) ==
  IF Keeps(mine, other, e) THEN [mine EXCEPT !.eid = e] ELSE mine

PassLabel(mine, other, e) ==
  CASE mine.eid # NoEid -> txBuf
    [] mine.eid = NoEid /\ other.eid = NoEid ->
         Stage(txBuf, other.port, Frame(REDIRECT, {other.port} \cap Ports))
    [] mine.eid = NoEid /\ other.eid # NoEid ->
         IF Keeps(mine, other, e) THEN txBuf
         ELSE Stage(txBuf, mine.port, Frame(REDIRECT, {mine.port} \cap Ports))

Agree(e1, e2) == e1.eid # NoEid /\ e2.eid # NoEid /\ Checked[e1.eid] = Checked[e2.eid]

InsertedNew2(p, e) ==
  LET first == eid_port1.port = p
      second == ~first /\ eid_port2.port = p
      e1 == IF first THEN KeepLabel(eid_port1, eid_port2, e) ELSE eid_port1
      e2 == IF second THEN KeepLabel(eid_port2, eid_port1, e) ELSE eid_port2
      passed == CASE first -> PassLabel(eid_port1, eid_port2, e)
                  [] second -> PassLabel(eid_port2, eid_port1, e)
                  [] OTHER -> txBuf
      tx == IF Agree(e1, e2) THEN ConfirmBoth(passed) ELSE passed
  IN  /\ \E ok \in BOOLEAN : Transmit(tx, ok)
      /\ OrderStays(INSERTED, p)
      /\ eid_port1' = e1
      /\ eid_port2' = e2
      /\ NothingEnds

(* a label pulled back out is forgotten; with both gone the boards are told *)
PulledBackNew2(p) ==
  LET first == eid_port1.port = p
      second == ~first /\ eid_port2.port = p
      e1 == IF first THEN [eid_port1 EXCEPT !.eid = NoEid] ELSE eid_port1
      e2 == IF second THEN [eid_port2 EXCEPT !.eid = NoEid] ELSE eid_port2
  IN  /\ IF (first /\ e2.eid = NoEid) \/ (second /\ e1.eid = NoEid)
         THEN TransmitOrDrop(OutputStage(txBuf, e1.port, e2.port), PULLEDBACK, p, e1, e2)
         ELSE /\ OrderStays(PULLEDBACK, p)
              /\ eid_port1' = e1
              /\ eid_port2' = e2
              /\ NothingSent
      /\ NothingEnds

MovedNew2(what, p, e) ==
  CASE what = INSERTED -> InsertedNew2(p, e)
    [] what = PULLEDBACK -> PulledBackNew2(p)
    [] OTHER -> Ignore(what, p)
=============================================================================
